---------------------------- MODULE SessionProofs ----------------------------
(***************************************************************************)
(* What the two peers of a match can rely on, from the first datagram to   *)
(* the last report.  How they come to trust each other: the serial         *)
(* arithmetic on frame words, for every word range, ring size and window   *)
(* that SerialAssumption allows; the replay window, which lets every       *)
(* datagram through once, for every size of it and any number of sessions  *)
(* and datagrams; and the pre-match hold, after which two linked peers     *)
(* start from the same state, for any number of chunks, sessions started   *)
(* over, failed loads and datagrams of whatever session.  Last, the match  *)
(* as their two clients and the server live it, for any number of matches, *)
(* faults, drops and corrections: nobody plays alone, what is reported is  *)
(* real, and the win sequence is played to its end.                        *)
(***************************************************************************)
EXTENDS FrameSerial, ReplayWindow, Prematch, MatchClient, BoundLemmas, SequenceTheorems,
        TLAPS

-----------------------------------------------------------------------------
(***************************************************************************)
(* Arithmetic modulo the word range.                                       *)
(***************************************************************************)
LEMMA ModulusType == /\ Modulus \in Nat \ {0} /\ HistoryFrames \in Nat \ {0}
                     /\ FutureFrames \in Nat /\ Delay \in Nat
                     /\ MaxPrediction \in Nat
  BY SerialAssumption

LEMMA WordParts ==
    ASSUME NEW f \in Nat
    PROVE  /\ f = Modulus * (f \div Modulus) + Word(f)
           /\ f \div Modulus \in Nat
           /\ Word(f) \in 0 .. (Modulus - 1)
  BY ModulusType, SMTT(30) DEF Word

LEMMA SmallMod ==
    ASSUME NEW x \in Int, -Modulus < x, x < Modulus
    PROVE  x % Modulus = IF x >= 0 THEN x ELSE x + Modulus
  BY ModulusType, SMTT(30)

LEMMA Multiples ==
    ASSUME NEW a \in Nat, NEW b \in Nat, a < b
    PROVE  Modulus * a + Modulus <= Modulus * b
<1>1. PICK d \in Nat : b = a + 1 + d
  <2>1. b - a - 1 \in Nat
    OBVIOUS
  <2> QED BY <2>1, b = a + 1 + (b - a - 1)
<1>2. Modulus * b = Modulus * a + Modulus + Modulus * d
  BY <1>1, ModulusType, SMTT(30)
<1>3. Modulus * d \in Nat /\ Modulus * a \in Nat
  BY ModulusType, SMTT(30)
<1> QED BY <1>2, <1>3, ModulusType

\* The distance of two words is the distance of their frames, if those are
\* less than a turn apart.
LEMMA WordDistance ==
    ASSUME NEW f \in Nat, NEW g \in Nat, g - f < Modulus, f - g < Modulus
    PROVE  (Word(g) - Word(f)) % Modulus = IF f <= g THEN g - f ELSE g - f + Modulus
<1> DEFINE a == f \div Modulus
           b == g \div Modulus
           v == Word(f)
           w == Word(g)
<1>1. /\ f = Modulus * a + v /\ a \in Nat /\ v \in 0 .. (Modulus - 1)
      /\ g = Modulus * b + w /\ b \in Nat /\ w \in 0 .. (Modulus - 1)
  BY WordParts
<1> SUFFICES (w - v) % Modulus = IF f <= g THEN g - f ELSE g - f + Modulus
  OBVIOUS
<1> HIDE DEF a, b, v, w
<1>2. Modulus * a \in Nat /\ Modulus * b \in Nat
  BY <1>1, ModulusType, SMTT(30)
<1>3. /\ w - v \in Int /\ -Modulus < w - v /\ w - v < Modulus
  BY <1>1, ModulusType
<1>4. (w - v) % Modulus = IF w - v >= 0 THEN w - v ELSE w - v + Modulus
  BY <1>3, SmallMod
<1>5. CASE a = b
  BY <1>1, <1>2, <1>4, <1>5, ModulusType
<1>6. CASE a < b
  <2>1. Modulus * a + Modulus <= Modulus * b
    BY <1>1, <1>6, Multiples
  <2>2. ~ (a + 1 < b)
    <3>1. SUFFICES ASSUME a + 1 < b PROVE FALSE
      OBVIOUS
    <3>2. Modulus * (a + 1) + Modulus <= Modulus * b
      BY <1>1, <3>1, Multiples
    <3>3. Modulus * (a + 1) = Modulus * a + Modulus
      BY <1>1, ModulusType, SMTT(30)
    <3> QED BY <1>1, <1>2, <3>2, <3>3, ModulusType
  <2>3. b = a + 1
    BY <1>1, <1>6, <2>2
  <2>4. Modulus * b = Modulus * a + Modulus
    BY <1>1, <2>3, ModulusType, SMTT(30)
  <2> QED BY <1>1, <1>2, <1>4, <2>4, ModulusType
<1>7. CASE b < a
  <2>2. ~ (b + 1 < a)
    <3>1. SUFFICES ASSUME b + 1 < a PROVE FALSE
      OBVIOUS
    <3>2. Modulus * (b + 1) + Modulus <= Modulus * a
      BY <1>1, <3>1, Multiples
    <3>3. Modulus * (b + 1) = Modulus * b + Modulus
      BY <1>1, ModulusType, SMTT(30)
    <3> QED BY <1>1, <1>2, <3>2, <3>3, ModulusType
  <2>3. a = b + 1
    BY <1>1, <1>7, <2>2
  <2>4. Modulus * a = Modulus * b + Modulus
    BY <1>1, <2>3, ModulusType, SMTT(30)
  <2> QED BY <1>1, <1>2, <1>4, <2>4, ModulusType
<1> QED BY <1>1, <1>5, <1>6, <1>7

LEMMA HalfRange == Modulus \div 2 \in Nat /\ 2 * (Modulus \div 2) = Modulus
  BY SerialAssumption

\* ggpo_net_frame_before orders words as the frames they stand for, for any
\* two frames less than half the range of words apart.
THEOREM SerialOrder ==
    ASSUME NEW f \in Nat, NEW g \in Nat,
           2 * (g - f) < Modulus, 2 * (f - g) < Modulus
    PROVE  Before(Word(f), Word(g)) <=> f < g
<1>1. g - f < Modulus /\ f - g < Modulus
  BY ModulusType
<1>2. (Word(g) - Word(f)) % Modulus = IF f <= g THEN g - f ELSE g - f + Modulus
  BY <1>1, WordDistance
<1> QED BY <1>2, HalfRange, ModulusType DEF Before

-----------------------------------------------------------------------------
(***************************************************************************)
(* The local frame word, and the admission window around it.               *)
(***************************************************************************)
WordInv == actual.frame \in Nat /\ frame = Word(actual.frame)
ActualType == actual \in [frame : Nat, ring : [Slots -> Int], contiguous : Int]

LEMMA SuccessorWord ==
    ASSUME NEW f \in Nat PROVE Successor(Word(f)) = Word(f + 1)
<1> DEFINE a == f \div Modulus
           v == Word(f)
<1>1. f = Modulus * a + v /\ a \in Nat /\ v \in 0 .. (Modulus - 1)
  BY WordParts
<1> SUFFICES (v + 1) % Modulus = (f + 1) % Modulus
  BY DEF Successor, Word
<1> HIDE DEF a, v
<1> DEFINE b == (f + 1) \div Modulus
           w == (f + 1) % Modulus
<1>2. f + 1 = Modulus * b + w /\ b \in Nat /\ w \in 0 .. (Modulus - 1)
  BY WordParts DEF Word
<1> SUFFICES (v + 1) % Modulus = w
  OBVIOUS
<1> HIDE DEF b, w
<1>3. Modulus * a \in Nat /\ Modulus * b \in Nat
  BY <1>1, <1>2, ModulusType, SMTT(30)
<1>4. ASSUME b < a PROVE FALSE
  <2>1. Modulus * b + Modulus <= Modulus * a
    BY <1>1, <1>2, <1>4, Multiples
  <2> QED BY <1>1, <1>2, <1>3, <2>1, ModulusType
<1>5. CASE a = b
  <2>1. v + 1 = w
    BY <1>1, <1>2, <1>3, <1>5, ModulusType
  <2> QED BY <1>1, <1>2, <2>1, SmallMod, ModulusType
<1>6. CASE a < b
  <2>1. Modulus * a + Modulus <= Modulus * b
    BY <1>1, <1>2, <1>6, Multiples
  <2>2. v + 1 = Modulus /\ w = 0
    BY <1>1, <1>2, <1>3, <2>1, ModulusType
  <2>3. Modulus % Modulus = 0
    BY ModulusType, SMTT(30)
  <2> QED BY <2>2, <2>3
<1> QED BY <1>1, <1>2, <1>4, <1>5, <1>6

LEMMA RunLengthType ==
    ASSUME NEW r, NEW c PROVE RunLength(r, c) \in 0 .. HistoryFrames
<1> DEFINE held == {i \in 0 .. (HistoryFrames - 1) : Holds(r, (First(c) + i) % Modulus)}
           runs == {n \in 0 .. HistoryFrames : \A i \in 0 .. (n - 1) : i \in held}
<1> HIDE DEF held
<1>1. 0 \in runs
  BY ModulusType
<1>2. runs \subseteq Int /\ \A n \in runs : n <= HistoryFrames
  BY ModulusType
<1>3. Max(runs) \in runs
  <2>1. runs # {} /\ HistoryFrames \in Int
    BY <1>1, ModulusType
  <2> HIDE DEF runs
  <2> QED BY <1>2, <2>1, MaxOfBounded
<1> QED BY <1>3 DEF RunLength, held

LEMMA WordInv_Init == Init => ActualType /\ WordInv
<1> SUFFICES ASSUME Init PROVE ActualType /\ WordInv
  OBVIOUS
<1>1. Word(0) = 0
  BY ModulusType, SmallMod DEF Word
<1> QED BY <1>1 DEF Init, ActualType, WordInv, None

LEMMA WordInv_Next == ActualType /\ WordInv /\ [Next]_vars => ActualType' /\ WordInv'
<1> SUFFICES ASSUME ActualType, WordInv, [Next]_vars PROVE ActualType' /\ WordInv'
  OBVIOUS
<1>1. CASE Advance
  BY <1>1, SuccessorWord DEF Advance, ActualType, WordInv
<1>2. ASSUME NEW f \in Reach, Receive(f) PROVE ActualType' /\ WordInv'
  <2>1. f \in Int
    BY DEF Reach
  <2> DEFINE w == Word(f)
             stored == Admissible(w) /\ MayReplace(ring[Slot(w)], w)
             held == IF stored THEN [ring EXCEPT ![Slot(w)] = w] ELSE ring
             run == RunLength(held, contiguous)
  <2>2. /\ actual' = [actual EXCEPT
                        !.ring = IF stored THEN [@ EXCEPT ![Slot(f)] = f] ELSE @,
                        !.contiguous = @ + run]
        /\ UNCHANGED frame
    BY <1>2 DEF Receive
  <2>3. run \in Int
    BY RunLengthType
  <2> DEFINE filled == IF stored THEN [actual.ring EXCEPT ![Slot(f)] = f] ELSE actual.ring
  <2> HIDE DEF stored, run
  <2>4. filled \in [Slots -> Int]
    BY <2>1 DEF ActualType
  <2>5. actual' = [actual EXCEPT !.ring = filled, !.contiguous = @ + run]
    BY <2>2
  <2> HIDE DEF filled
  <2>6. actual' \in [frame : Nat, ring : [Slots -> Int], contiguous : Int]
    <3>1. actual' = [frame |-> actual.frame, ring |-> filled,
                     contiguous |-> actual.contiguous + run]
      BY <2>5 DEF ActualType
    <3>2. actual.frame \in Nat /\ actual.contiguous + run \in Int
      BY <2>3 DEF ActualType
    <3> QED BY <2>4, <3>1, <3>2
  <2>7. actual'.frame = actual.frame
    BY <2>5 DEF ActualType
  <2> QED BY <2>2, <2>6, <2>7 DEF ActualType, WordInv
<1>3. CASE UNCHANGED vars
  BY <1>3 DEF vars, ActualType, WordInv
<1> QED BY <1>1, <1>2, <1>3 DEF Next
\* A word within reach is judged as the frame it stands for.
LEMMA WordInv_Admission == ActualType /\ WordInv => AdmissionFollowsFrames
<1> SUFFICES ASSUME ActualType, WordInv, NEW f \in Reach
             PROVE  Admissible(Word(f)) <=>
                      f \in (actual.frame - RetentionFrames)
                              .. (actual.frame + FutureFrames)
  BY DEF AdmissionFollowsFrames
<1> DEFINE F == actual.frame
<1>1. F \in Nat /\ frame = Word(F)
  BY DEF WordInv
<1>2. f \in Nat /\ F - Delay <= f /\ f <= F + HistoryFrames
  <2>1. Max({0, F - Delay}) = IF 0 >= F - Delay THEN 0 ELSE F - Delay
    BY <1>1, ModulusType, MaxOfTwo
  <2> QED BY <1>1, <2>1, ModulusType DEF Reach
<1> HIDE DEF F
<1>3. 2 * (F - f) < Modulus /\ 2 * (f - F) < Modulus
  BY <1>1, <1>2, SerialAssumption
<1>4. F - f < Modulus /\ f - F < Modulus
  BY <1>1, <1>2, <1>3, ModulusType
<1>5. /\ Before(Word(f), frame) <=> f < F
      /\ Before(frame, Word(f)) <=> F < f
  BY <1>1, <1>2, <1>3, SerialOrder
<1>6. /\ f < F => (frame - Word(f)) % Modulus = F - f
      /\ F < f => (Word(f) - frame) % Modulus = f - F
  BY <1>1, <1>2, <1>4, WordDistance
<1>7. Word(f) = frame <=> f = F
  <2>1. ASSUME Word(f) = frame PROVE ~ (f < F) /\ ~ (F < f)
    <3>1. Word(f) \in Int /\ (Word(f) - Word(f)) % Modulus = 0
      <4>1. Word(f) \in Int
        BY <1>2, WordParts
      <4> QED BY <4>1, SmallMod, ModulusType
    <3> QED BY <1>1, <1>2, <1>6, <2>1, <3>1
  <2> QED BY <1>1, <1>2, <2>1
<1>8. RetentionFrames \in Nat
  BY SerialAssumption DEF RetentionFrames
<1> QED
  BY <1>1, <1>2, <1>5, <1>6, <1>7, <1>8, ModulusType DEF Admissible, F

\* The admission window (ggpo_net_frame_receive_admissible) admits the frames
\* near the local one and no frame of another turn of the counter, for every
\* word range, ring and window and however often the counter wraps.
THEOREM AdmissionNeverNoticesWrap == Spec => []AdmissionFollowsFrames
  BY WordInv_Init, WordInv_Next, WordInv_Admission, PTL DEF Spec

-----------------------------------------------------------------------------
(***************************************************************************)
(* The replay window.                                                      *)
(***************************************************************************)
LEMMA WindowType ==
    Window \in Nat \ {0} /\ MaxSession \in Nat \ {0} /\ 1 \in Session
  BY WindowAssumption DEF Session

LEMMA SlotType ==
    ASSUME NEW n \in Nat
    PROVE  /\ SlotOf(n) \in Entry
           /\ n = Window * (n \div Window) + SlotOf(n) /\ n \div Window \in Nat
<1>1. Window \in Nat \ {0}
  BY WindowType
<1>2. /\ n % Window \in 0 .. Window - 1 /\ n \div Window \in Nat
      /\ n = Window * (n \div Window) + (n % Window)
  BY <1>1, SMTT(30)
<1> QED BY <1>1, <1>2 DEF SlotOf, Entry

\* Two numbers of one slot are a whole window apart.
LEMMA SlotApart ==
    ASSUME NEW m \in Nat, NEW n \in Nat,
           SlotOf(m) = SlotOf(n), m < n
    PROVE  n - m >= Window
<1> DEFINE a == m \div Window
           b == n \div Window
<1>1. /\ m = Window * a + SlotOf(m) /\ a \in Nat
      /\ n = Window * b + SlotOf(n) /\ b \in Nat
  BY SlotType
<1>2. SlotOf(m) \in Nat
  BY SlotType, WindowType DEF Entry
<1> HIDE DEF a, b
<1>3. n - m = Window * (b - a)
  BY <1>1, <1>2, WindowType, SMTT(30)
<1>4. b - a >= 1
  <2>1. SUFFICES ASSUME b - a <= 0 PROVE FALSE
    BY <1>1
  <2>2. Window * (b - a) <= 0
    BY <1>1, <2>1, WindowType, SMTT(30)
  <2> QED BY <1>3, <2>2
<1>5. Window * (b - a) >= Window
  BY <1>1, <1>4, WindowType, SMTT(30)
<1> QED BY <1>3, <1>5

-----------------------------------------------------------------------------
LEMMA InitWindow ==
    ASSUME WindowInit
    PROVE  WindowInv
<1>1. WindowTypeOK
  BY WindowType DEF WindowInit, WindowTypeOK, Unseen, Entry
<1>2. \A e \in Entry : seen[e] = 0
  BY DEF WindowInit, Unseen
<1> QED BY <1>1, <1>2 DEF WindowInit, WindowInv, OfKnownSession, TableIsPassed

\* What a step leaves of the record stays as it is.
LEMMA KeepWindow ==
    ASSUME WindowInv, WindowTypeOK',
           UNCHANGED <<rx, highest, seen, retired, passed>>
    PROVE  WindowInv'
  BY DEF WindowInv, OfKnownSession, TableIsPassed, Unseen

LEMMA ReceiveKeepsWindow ==
    ASSUME WindowInv,
           NEW s \in Session, NEW n \in Sequence(s), Authenticate(s, n)
    PROVE  WindowInv'
<1>1. n \in Nat /\ n > 0 /\ WindowTypeOK
  BY DEF WindowInv, WindowTypeOK, Sequence
<1>2. SlotOf(n) \in Entry
  BY <1>1, SlotType
<1> DEFINE table == IF s = rx THEN seen ELSE Unseen
<1>3. table \in [Entry -> Nat]
  BY <1>1 DEF WindowTypeOK, Unseen
<1>4. /\ seen' = [table EXCEPT ![SlotOf(n)] = n]
      /\ highest' = IF s = rx /\ n <= highest THEN highest ELSE n
      /\ rx' = s /\ retired' = retired \cup ({rx} \ {0, s})
      /\ passed' = passed \cup {<<s, n>>}
      /\ UNCHANGED <<sending, count, started>> /\ Passes(s, n)
  BY DEF Authenticate
<1>5. seen' \in [Entry -> Nat] /\ seen'[SlotOf(n)] = n
      /\ \A e \in Entry : e # SlotOf(n) => seen'[e] = table[e]
  <2> HIDE DEF table
  <2> QED BY <1>1, <1>2, <1>3, <1>4
<1>6. WindowTypeOK'
  <2>1. highest' \in Nat /\ passed' \subseteq Session \X (Nat \ {0})
    BY <1>1, <1>4 DEF WindowTypeOK
  <2>2. retired' \subseteq Session
    BY <1>1, <1>4 DEF WindowTypeOK
  <2> QED BY <1>1, <1>4, <1>5, <2>1, <2>2 DEF WindowTypeOK
<1>7. OfKnownSession'
  <2>1. SUFFICES ASSUME NEW d \in passed' PROVE d[1] = s \/ d[1] \in retired'
    BY <1>4 DEF OfKnownSession
  <2>2. CASE d \in passed
    <3>1. rx # 0
      BY <2>2 DEF WindowInv
    <3> QED BY <1>4, <2>2, <3>1 DEF WindowInv, OfKnownSession
  <2>3. CASE d = <<s, n>>
    BY <2>3
  <2> QED BY <1>4, <2>1, <2>2, <2>3
<1>8. rx' \notin retired' /\ rx' # 0
  BY <1>4, WindowType DEF WindowInv, Passes, Session
<1>9. CASE s # rx
  <2>1. s \notin retired
    BY <1>4, <1>9 DEF Passes
  <2>2. \A d \in passed : d[1] # s
    BY <1>9, <2>1 DEF WindowInv, OfKnownSession
  <2>3. \A e \in Entry : seen'[e] # 0 => e = SlotOf(n)
    BY <1>5, <1>9 DEF Unseen
  <2>4. \A e \in Entry : seen'[e] # 0 =>
            SlotOf(seen'[e]) = e /\ <<rx', seen'[e]>> \in passed'
    BY <1>4, <1>5, <2>3
  <2>5. \A d \in passed' : d[1] = rx' =>
            d[2] <= highest' /\ (highest' - d[2] < Window => seen'[SlotOf(d[2])] = d[2])
    <3>1. \A d \in passed' : d[1] = rx' => d = <<s, n>>
      BY <1>4, <2>2
    <3>2. highest' = n
      BY <1>4, <1>9
    <3> QED BY <1>1, <1>5, <3>1, <3>2
  <2> QED BY <1>6, <1>7, <1>8, <2>4, <2>5 DEF WindowInv, TableIsPassed
<1>10. CASE s = rx
  <2>1. ~TooOld(n) /\ seen[SlotOf(n)] # n /\ table = seen
    BY <1>4, <1>10 DEF Passes
  <2>2. highest \in Nat /\ highest' \in Nat /\ highest <= highest' /\ n <= highest'
    BY <1>1, <1>4, <1>10 DEF WindowTypeOK
  <2>3. highest' - n < Window
    BY <1>1, <1>4, <1>10, <2>1, <2>2, WindowType DEF TooOld
  <2>4. \A e \in Entry : seen'[e] # 0 =>
            SlotOf(seen'[e]) = e /\ <<rx', seen'[e]>> \in passed'
    <3> SUFFICES ASSUME NEW e \in Entry, seen'[e] # 0
                 PROVE  SlotOf(seen'[e]) = e /\ <<rx', seen'[e]>> \in passed'
      OBVIOUS
    <3>1. CASE e = SlotOf(n)
      BY <1>4, <1>5, <3>1
    <3>2. CASE e # SlotOf(n)
      BY <1>4, <1>5, <1>10, <2>1, <3>2 DEF WindowInv, TableIsPassed
    <3> QED BY <3>1, <3>2
  <2>5. \A d \in passed' : d[1] = rx' =>
            d[2] <= highest' /\ (highest' - d[2] < Window => seen'[SlotOf(d[2])] = d[2])
    <3> SUFFICES ASSUME NEW d \in passed', d[1] = s
                 PROVE  d[2] <= highest'
                        /\ (highest' - d[2] < Window => seen'[SlotOf(d[2])] = d[2])
      BY <1>4
    <3>1. CASE d = <<s, n>>
      BY <1>5, <2>2, <3>1
    <3>2. CASE d \in passed
      <4> DEFINE m == d[2]
      <4>1. m \in Nat /\ m <= highest
            /\ (highest - m < Window => seen[SlotOf(m)] = m)
        BY <1>1, <1>10, <3>2 DEF WindowInv, TableIsPassed, WindowTypeOK
      <4> HIDE DEF m
      <4> DEFINE h == highest
                 g == highest'
      <4>0. /\ h \in Nat /\ g \in Nat /\ h <= g /\ n <= g /\ n \in Nat
            /\ g - n < Window /\ Window \in Nat /\ m \in Nat /\ m <= h
        BY <1>1, <2>2, <2>3, <4>1, WindowType
      <4> HIDE DEF h, g
      <4>2. m <= highest'
        BY <4>0 DEF g
      <4>3. ASSUME highest' - m < Window
            PROVE  seen'[SlotOf(m)] = m
        <5>0. g - m < Window
          BY <4>3 DEF g
        <5>1. highest - m < Window
          <6>1. h - m < Window
            BY <4>0, <5>0
          <6> QED BY <6>1 DEF h
        <5>2. seen[SlotOf(m)] = m
          BY <4>1, <5>1
        <5>3. SlotOf(m) \in Entry
          BY <4>1, SlotType
        <5>4. CASE SlotOf(m) # SlotOf(n)
          BY <1>5, <2>1, <5>2, <5>3, <5>4
        <5>5. CASE SlotOf(m) = SlotOf(n)
          <6>1. m # n
            BY <2>1, <5>2
          <6>2. ~(m < n)
            <7>1. SUFFICES ASSUME m < n PROVE FALSE
              OBVIOUS
            <7>2. n - m >= Window
              BY <1>1, <4>1, <5>5, <7>1, SlotApart
            <7> QED BY <4>0, <5>0, <7>1, <7>2
          <6>3. ~(n < m)
            <7>1. SUFFICES ASSUME n < m PROVE FALSE
              OBVIOUS
            <7>2. m - n >= Window
              BY <1>1, <4>1, <5>5, <7>1, SlotApart
            <7> QED BY <4>0, <7>1, <7>2
          <6> QED BY <1>1, <4>1, <6>1, <6>2, <6>3
        <5> QED BY <5>4, <5>5
      <4> QED BY <4>2, <4>3 DEF m
    <3> QED BY <1>4, <3>1, <3>2
  <2> QED BY <1>6, <1>7, <1>8, <2>4, <2>5 DEF WindowInv, TableIsPassed
<1> QED BY <1>9, <1>10

LEMMA StepKeepsWindow ==
    ASSUME WindowInv, [WindowNext]_windowVars
    PROVE  WindowInv'
<1>1. WindowTypeOK
  BY DEF WindowInv
<1>2. CASE Send
  <2>1. WindowTypeOK'
    BY <1>1, <1>2 DEF Send, WindowTypeOK
  <2> QED BY <1>2, <2>1, KeepWindow DEF Send
<1>3. CASE Restart
  <2>1. sending + 1 \in Session
    BY <1>1, <1>3, WindowType DEF Restart, WindowTypeOK, Session
  <2>2. WindowTypeOK'
    BY <1>1, <1>3, <2>1 DEF Restart, WindowTypeOK
  <2> QED BY <1>3, <2>2, KeepWindow DEF Restart
<1>4. CASE Begin
  <2>1. WindowTypeOK'
    BY <1>1, <1>4 DEF Begin, WindowTypeOK
  <2> QED BY <1>4, <2>1, KeepWindow DEF Begin
<1>5. CASE \E s \in Session : \E n \in Sequence(s) : Authenticate(s, n)
  BY <1>5, ReceiveKeepsWindow
<1>6. CASE UNCHANGED windowVars
  <2>1. WindowTypeOK'
    BY <1>1, <1>6 DEF windowVars, WindowTypeOK
  <2> QED BY <1>6, <2>1, KeepWindow DEF windowVars
<1> QED BY <1>2, <1>3, <1>4, <1>5, <1>6 DEF WindowNext

LEMMA WindowInvSound ==
    ASSUME WindowInv
    PROVE  FreshPassesOnce
<1> SUFFICES ASSUME NEW s \in Session, NEW n \in Sequence(s)
             PROVE  /\ Passes(s, n) => <<s, n>> \notin passed
                    /\ s = rx /\ <<s, n>> \notin passed /\ highest - n < Window
                       => Passes(s, n)
  BY DEF FreshPassesOnce
<1>1. n \in Nat /\ n > 0 /\ highest \in Nat
  BY DEF WindowInv, WindowTypeOK, Sequence
<1>2. SlotOf(n) \in Entry
  BY <1>1, SlotType
<1>3. ASSUME Passes(s, n), <<s, n>> \in passed
      PROVE  FALSE
  <2>1. s = rx
    BY <1>3 DEF Passes, WindowInv, OfKnownSession
  <2>2. n <= highest /\ (highest - n < Window => seen[SlotOf(n)] = n)
    BY <1>3, <2>1 DEF WindowInv, TableIsPassed
  <2> QED BY <1>1, <1>3, <2>1, <2>2, WindowType DEF Passes, TooOld, WindowInv
<1>4. ASSUME s = rx, <<s, n>> \notin passed, highest - n < Window
      PROVE  Passes(s, n)
  <2>1. ~TooOld(n)
    BY <1>1, <1>4, WindowType DEF TooOld
  <2>2. seen[SlotOf(n)] # n
    BY <1>1, <1>2, <1>4 DEF WindowInv, TableIsPassed
  <2> QED BY <1>4, <2>1, <2>2 DEF Passes
<1> QED BY <1>3, <1>4

\* ggpo_net_authenticate_received lets each datagram of the peer through once
\* and refuses none that is new and within the window.
THEOREM FreshPassesOnceAlways ==
    WindowSpec => []FreshPassesOnce
<1>1. WindowInit => WindowInv
  BY InitWindow
<1>2. WindowInv /\ [WindowNext]_windowVars => WindowInv'
  BY StepKeepsWindow
<1>3. WindowInv => FreshPassesOnce
  BY WindowInvSound
<1> QED BY <1>1, <1>2, <1>3, PTL DEF WindowSpec

-----------------------------------------------------------------------------
(***************************************************************************)
(* The pre-match hold: the inductive invariant.                            *)
(***************************************************************************)
Sessions ==
    [sid : Nat \ {0}, remote : Nat, retired : SUBSET Nat,
     confirmed : BOOLEAN, peerConfirmed : BOOLEAN,
     held : BOOLEAN, final : BOOLEAN, other : Nat, otherFinal : BOOLEAN,
     start : Nat, synced : BOOLEAN, remoteSynced : BOOLEAN,
     recv : [start : Nat, parts : SUBSET Nat],
     in0 : BOOLEAN, remoteIn0 : BOOLEAN, loaded : BOOLEAN]

Packets ==
    [kind : {"hello", "input", "ack", "state"}, sid : Nat \ {0}, echo : Nat,
     acked : BOOLEAN, hold : Nat, final : BOOLEAN, start : Nat, chunk : Nat]

PeersType == /\ peer \in [Peer -> Sessions]
             /\ sent \in [Peer -> SUBSET Packets]

\* A session knows no session of the other's that is yet to come, and none that
\* it has left; only a session past both barriers has loaded.
Sound(c, s) ==
    /\ s.remote <= peer[Other(c)].sid
    /\ s.remote \notin s.retired
    /\ s.loaded => ~s.held /\ s.synced /\ s.remoteSynced

\* The host's start state is the one its session captured, and it counts as
\* shared once the join has acknowledged it from the session the host is
\* linked with.
HostStarts(s) ==
    /\ s.start = IF s.held THEN 0 ELSE s.sid
    /\ s.remoteSynced =>
          \E p \in sent[Join] : p.kind = "ack" /\ p.sid = s.remote /\ p.start = s.start

\* The join's is the one that the session it is linked with captured.
JoinStarts(s) ==
    s.synced => /\ s.start = s.remote /\ s.remote # 0 /\ ~s.held
                /\ s.remote = peer[Host].sid => ~peer[Host].held

Starts(c, s) == IF c = Host THEN HostStarts(s) ELSE JoinStarts(s)

\* What is still under way was sent by this session or an older one.  A chunk
\* is of the state its session captured; an acknowledgement is of the state the
\* join starts from, or of one it gave up with the session that captured it.
OlderSent ==
    \A c \in Peer : \A p \in sent[c] : p.sid <= peer[c].sid

ChunksAreOwn ==
    \A p \in sent[Host] : p.kind = "state" =>
        p.start = p.sid /\ (p.sid = peer[Host].sid => ~peer[Host].held)

AcksAreHeld ==
    LET s == peer[Join]
    IN \A p \in sent[Join] : p.kind = "ack" /\ p.sid = s.sid =>
          (s.synced /\ p.start = s.start) \/ p.start \in s.retired

PrematchInv ==
    /\ PeersType
    /\ \A c \in Peer : Sound(c, peer[c]) /\ Starts(c, peer[c])
    /\ OlderSent /\ ChunksAreOwn /\ AcksAreHeld

\* With it, a start that has been loaded is the other's.
LEMMA InvSharesStart ==
    ASSUME PrematchInv PROVE StartIsShared
<1> USE PrematchAssumption DEF Peer, Other
<1>1. ASSUME peer[Host].loaded, peer[Host].remote = peer[Join].sid,
             peer[Join].remote = peer[Host].sid
      PROVE  peer[Join].start = peer[Host].start
  <2>1. peer[Host].start = peer[Host].sid /\ peer[Host].remoteSynced /\ HostStarts(peer[Host])
    BY <1>1 DEF PrematchInv, Sound, Starts, HostStarts
  <2>2. PICK p \in sent[Join] :
           p.kind = "ack" /\ p.sid = peer[Host].remote /\ p.start = peer[Host].start
    BY <2>1 DEF HostStarts
  <2>3. p.start = peer[Join].start \/ p.start \in peer[Join].retired
    BY <1>1, <2>2 DEF PrematchInv, AcksAreHeld
  <2>4. peer[Join].remote \notin peer[Join].retired
    BY DEF PrematchInv, Sound
  <2> QED BY <1>1, <2>1, <2>2, <2>3, <2>4
<1>2. ASSUME peer[Join].loaded, peer[Join].remote = peer[Host].sid
      PROVE  peer[Host].start = peer[Join].start
  <2>1. peer[Join].synced /\ JoinStarts(peer[Join]) /\ HostStarts(peer[Host])
    BY <1>2 DEF PrematchInv, Sound, Starts
  <2> QED BY <1>2, <2>1 DEF JoinStarts, HostStarts
<1> QED BY <1>1, <1>2 DEF StartIsShared

-----------------------------------------------------------------------------
(***************************************************************************)
(* One session changes.                                                    *)
(***************************************************************************)
\* What the other peer, and what is under way, rely on.
Follows(c, s, t) ==
    /\ s.sid <= t.sid
    /\ t.sid = s.sid =>
          /\ t.held => s.held
          /\ s.retired \subseteq t.retired
          /\ c = Join /\ s.synced =>
                (t.synced /\ t.start = s.start) \/ s.start \in t.retired

LEMMA EmitsType ==
    ASSUME NEW c \in Peer, NEW s \in Sessions
    PROVE  /\ Emits(c, s) \subseteq Packets
           /\ \A p \in Emits(c, s) :
                 /\ p.sid = s.sid /\ p.start = s.start
                 /\ p.kind = "ack" => c = Join /\ s.synced
                 /\ p.kind = "state" => c = Host /\ ~s.held
<1>1. ASSUME NEW k \in {"hello", "input", "ack", "state"}, NEW n \in Nat
      PROVE  /\ Packet(s, k, n) \in Packets /\ Packet(s, k, n).sid = s.sid
             /\ Packet(s, k, n).start = s.start /\ Packet(s, k, n).kind = k
  BY DEF Packet, Packets, Sessions, Held, Released
<1>2. Chunk \subseteq Nat
  BY PrematchAssumption DEF Chunk
<1> SUFFICES ASSUME NEW p \in Emits(c, s)
             PROVE  /\ p \in Packets /\ p.sid = s.sid /\ p.start = s.start
                    /\ p.kind = "ack" => c = Join /\ s.synced
                    /\ p.kind = "state" => c = Host /\ ~s.held
  OBVIOUS
<1>3. \/ p = Packet(s, "hello", 0) \/ p = Packet(s, "input", 0)
      \/ p = Packet(s, "ack", 0) /\ c = Join /\ s.synced
      \/ SendsState(c, s) /\ \E n \in Chunk : p = Packet(s, "state", n)
  BY DEF Emits
<1>4. CASE p = Packet(s, "hello", 0)
  BY <1>1, <1>4
<1>5. CASE p = Packet(s, "input", 0)
  BY <1>1, <1>5
<1>6. CASE p = Packet(s, "ack", 0) /\ c = Join /\ s.synced
  BY <1>1, <1>6
<1>7. CASE SendsState(c, s) /\ \E n \in Chunk : p = Packet(s, "state", n)
  BY <1>1, <1>2, <1>7 DEF SendsState
<1> QED BY <1>3, <1>4, <1>5, <1>6, <1>7

LEMMA BecomesKeeps ==
    ASSUME PrematchInv, NEW c \in Peer, NEW t \in Sessions,
           Sound(c, t), Starts(c, t), Follows(c, peer[c], t), Becomes(c, t)
    PROVE  PrematchInv'
<1> DEFINE d == Other(c)
<1>1. /\ c # d /\ d \in Peer /\ Peer = {c, d} /\ Other(d) = c
      /\ c = Host => d = Join
      /\ c = Join => d = Host
      /\ Host \in Peer /\ Join \in Peer /\ Host # Join
      /\ c = Host \/ c = Join
  BY PrematchAssumption DEF Peer, Other
<1>2. /\ peer \in [Peer -> Sessions] /\ sent \in [Peer -> SUBSET Packets]
      /\ peer' = [peer EXCEPT ![c] = t]
      /\ sent' = [sent EXCEPT ![c] = sent[c] \cup Emits(c, t)]
  BY DEF PrematchInv, PeersType, Becomes
<1> HIDE DEF d
<1>3. /\ peer'[c] = t /\ peer'[d] = peer[d]
      /\ sent'[c] = sent[c] \cup Emits(c, t) /\ sent'[d] = sent[d]
  BY <1>1, <1>2
<1>4. /\ Emits(c, t) \subseteq Packets
      /\ \A p \in Emits(c, t) :
            /\ p.sid = t.sid /\ p.start = t.start
            /\ p.kind = "ack" => c = Join /\ t.synced
            /\ p.kind = "state" => c = Host /\ ~t.held
  BY EmitsType
<1>5. /\ peer[c] \in Sessions /\ peer[d] \in Sessions
      /\ \A p \in sent[c] \cup sent[d] : p.sid \in Nat
  BY <1>1, <1>2 DEF Packets
<1>6. /\ peer[c].sid \in Nat /\ t.sid \in Nat /\ peer[d].sid \in Nat
      /\ peer[c].remote \in Nat /\ t.remote \in Nat /\ peer[d].remote \in Nat
      /\ peer[c].sid <= t.sid
  BY <1>5 DEF Sessions, Follows
<1>7. PeersType'
  BY <1>1, <1>2, <1>4 DEF PeersType
<1>8. Sound(c, peer[c])' /\ Sound(d, peer[d])'
  <2>1. Sound(c, peer[c])'
    BY <1>1, <1>3 DEF Sound, d
  <2>2. Sound(d, peer[d])
    BY <1>1 DEF PrematchInv
  <2> QED BY <1>1, <1>3, <1>6, <2>1, <2>2 DEF Sound
<1>9. Starts(c, peer[c])' /\ Starts(d, peer[d])'
  <2>1. CASE c = Host
    <3>1. HostStarts(t) /\ JoinStarts(peer[Join])
      BY <1>1, <2>1 DEF Starts, PrematchInv
    <3>2. peer'[Host] = t /\ peer'[Join] = peer[Join] /\ sent'[Join] = sent[Join]
      BY <1>1, <1>3, <2>1
    <3>3. HostStarts(peer[Host])'
      BY <3>1, <3>2 DEF HostStarts
    <3>4. peer[Join].synced /\ peer[Join].remote = t.sid => ~t.held
      <4> SUFFICES ASSUME peer[Join].synced, peer[Join].remote = t.sid, t.held
                   PROVE  FALSE
        BY <1>5 DEF Sessions
      <4>1. peer[Join].remote <= peer[Host].sid
        BY <1>1 DEF PrematchInv, Sound, Other
      <4>2. t.sid = peer[Host].sid
        BY <1>6, <2>1, <4>1
      <4>3. peer[Host].held
        BY <2>1, <4>2 DEF Follows
      <4> QED BY <3>1, <4>2, <4>3 DEF JoinStarts
    <3>5. JoinStarts(peer[Join])'
      BY <3>1, <3>2, <3>4 DEF JoinStarts
    <3> QED BY <1>1, <2>1, <3>3, <3>5 DEF Starts
  <2>2. CASE c = Join
    <3>1. JoinStarts(t) /\ HostStarts(peer[Host])
      BY <1>1, <2>2 DEF Starts, PrematchInv
    <3>2. peer'[Join] = t /\ peer'[Host] = peer[Host] /\ sent[Join] \subseteq sent'[Join]
      BY <1>1, <1>3, <2>2
    <3>3. HostStarts(peer[Host])'
      BY <3>1, <3>2 DEF HostStarts
    <3>4. JoinStarts(peer[Join])'
      BY <3>1, <3>2 DEF JoinStarts
    <3> QED BY <1>1, <2>2, <3>3, <3>4 DEF Starts
  <2> QED BY <1>1, <2>1, <2>2
<1>10. OlderSent'
  <2>1. \A p \in sent[c] : p.sid <= t.sid
    BY <1>5, <1>6 DEF PrematchInv, OlderSent
  <2>2. \A p \in sent[d] : p.sid <= peer[d].sid
    BY <1>1 DEF PrematchInv, OlderSent
  <2>3. \A p \in Emits(c, t) : p.sid <= t.sid
    BY <1>4, <1>6
  <2> QED BY <1>1, <1>3, <2>1, <2>2, <2>3 DEF OlderSent
<1>11. ChunksAreOwn'
  <2>1. CASE c = Host
    <3>1. ASSUME NEW p \in sent[Host], p.kind = "state"
          PROVE  p.start = p.sid /\ (p.sid = t.sid => ~t.held)
      <4>1. p.start = p.sid /\ (p.sid = peer[Host].sid => ~peer[Host].held)
        BY <3>1 DEF PrematchInv, ChunksAreOwn
      <4>2. p.sid <= peer[Host].sid
        BY <1>1 DEF PrematchInv, OlderSent
      <4>3. p.sid = t.sid => t.sid = peer[Host].sid
        BY <1>5, <1>6, <2>1, <4>2
      <4> QED BY <2>1, <4>1, <4>3 DEF Follows
    <3>2. ASSUME NEW p \in Emits(c, t), p.kind = "state"
          PROVE  p.start = p.sid /\ ~t.held
      BY <1>4, <2>1, <3>2 DEF Starts, HostStarts
    <3> QED BY <1>3, <2>1, <3>1, <3>2 DEF ChunksAreOwn
  <2>2. CASE c = Join
    BY <1>1, <1>3, <2>2 DEF PrematchInv, ChunksAreOwn
  <2> QED BY <1>1, <2>1, <2>2
<1>12. AcksAreHeld'
  <2>1. CASE c = Host
    BY <1>1, <1>3, <2>1 DEF PrematchInv, AcksAreHeld
  <2>2. CASE c = Join
    <3>1. ASSUME NEW p \in sent[Join], p.kind = "ack", p.sid = t.sid
          PROVE  (t.synced /\ p.start = t.start) \/ p.start \in t.retired
      <4>1. p.sid <= peer[Join].sid
        BY <1>1 DEF PrematchInv, OlderSent
      <4>2. t.sid = peer[Join].sid
        BY <1>6, <2>2, <3>1, <4>1
      <4>3. (peer[Join].synced /\ p.start = peer[Join].start)
            \/ p.start \in peer[Join].retired
        BY <3>1, <4>2 DEF PrematchInv, AcksAreHeld
      <4> QED BY <2>2, <4>2, <4>3 DEF Follows
    <3>2. ASSUME NEW p \in Emits(c, t), p.kind = "ack"
          PROVE  t.synced /\ p.start = t.start
      BY <1>4, <3>2
    <3> QED BY <1>3, <2>2, <3>1, <3>2 DEF AcksAreHeld
  <2> QED BY <1>1, <2>1, <2>2
<1> QED BY <1>1, <1>7, <1>8, <1>9, <1>10, <1>11, <1>12 DEF PrematchInv

-----------------------------------------------------------------------------
(***************************************************************************)
(* The steps of a peer.                                                    *)
(***************************************************************************)
\* What taking a datagram's header and barriers in leaves alone.
SameStart(s, t) ==
    /\ t.sid = s.sid /\ t.remote = s.remote /\ t.retired = s.retired
    /\ t.held = s.held /\ t.start = s.start /\ t.synced = s.synced
    /\ t.loaded = s.loaded

LEMMA FreshIsSession ==
    ASSUME NEW c \in Peer, NEW n \in Nat \ {0}
    PROVE  /\ Fresh(c, n) \in Sessions
           /\ Fresh(c, n).sid = n /\ Fresh(c, n).remote = 0
           /\ Fresh(c, n).retired = {} /\ Fresh(c, n).held
           /\ Fresh(c, n).start = 0 /\ Fresh(c, n).synced = (c = Host)
           /\ Fresh(c, n).remoteSynced = (c = Join) /\ ~Fresh(c, n).loaded
  BY DEF Fresh, Sessions, NoState, Unknown

\* A datagram that is handled changes at most whether the other peer is known
\* to have the start, and that only if the datagram says so.
LEMMA HandledKeeps ==
    ASSUME NEW c \in Peer, NEW s \in Sessions, NEW p \in Packets
    PROVE  /\ Handled(c, s, p) \in Sessions
           /\ SameStart(s, Handled(c, s, p))
           /\ s.remoteSynced => Handled(c, s, p).remoteSynced
           /\ Handled(c, s, p).remoteSynced /\ ~s.remoteSynced =>
                 p.kind = "ack" /\ p.start = s.start
<1> DEFINE t == IF p.kind = "ack" THEN s ELSE Handshake(s, p)
           u == NoteHold(t, p)
<1>1. t \in Sessions /\ SameStart(s, t) /\ t.remoteSynced = s.remoteSynced
  <2>1. ASSUME NEW a \in BOOLEAN, NEW b \in BOOLEAN
        PROVE  LET h == [s EXCEPT !.confirmed = a, !.peerConfirmed = b]
               IN h \in Sessions /\ SameStart(s, h) /\ h.remoteSynced = s.remoteSynced
    BY DEF Sessions, SameStart
  <2>2. PICK a \in BOOLEAN, b \in BOOLEAN :
           Handshake(s, p) = [s EXCEPT !.confirmed = a, !.peerConfirmed = b]
    <3> DEFINE a == s.confirmed \/ p.echo = s.sid
               b == s.peerConfirmed \/ (p.echo = s.sid /\ p.acked)
    <3>1. a \in BOOLEAN /\ b \in BOOLEAN
      OBVIOUS
    <3>2. Handshake(s, p) = [s EXCEPT !.confirmed = a, !.peerConfirmed = b]
      BY DEF Handshake
    <3> QED BY <3>1, <3>2
  <2>3. SameStart(s, s)
    BY DEF SameStart
  <2> QED BY <2>1, <2>2, <2>3
<1> HIDE DEF t
<1>2. u \in Sessions /\ SameStart(s, u) /\ u.remoteSynced = s.remoteSynced
  BY <1>1, ZenonT(60) DEF NoteHold, Sessions, Packets, SameStart
<1> HIDE DEF u
<1>3. /\ NoteAck(u, p) \in Sessions /\ SameStart(s, NoteAck(u, p))
      /\ NoteAck(u, p).remoteSynced = (s.remoteSynced \/ p.start = s.start)
  BY <1>2 DEF NoteAck, Sessions, SameStart
<1>4. /\ NoteInput(u, p) \in Sessions /\ SameStart(s, NoteInput(u, p))
      /\ NoteInput(u, p).remoteSynced = s.remoteSynced
  BY <1>2 DEF NoteInput, Sessions, SameStart
<1>5. Handled(c, s, p) =
        IF ~Linked(t) THEN t
        ELSE IF ~Open(u) THEN u
        ELSE IF p.kind = "ack" THEN NoteAck(u, p)
        ELSE IF p.kind = "input" THEN NoteInput(u, p)
        ELSE u
  BY DEF Handled, t, u
<1> QED BY <1>1, <1>2, <1>3, <1>4, <1>5

\* Opening a session, or leaving one for another, forgets what came of it.
SourceKept(c, s, p, t) ==
    /\ t \in Sessions /\ t.sid = s.sid /\ t.held = s.held
    /\ t.loaded = s.loaded /\ s.retired \subseteq t.retired
    /\ t.remote = p.sid /\ t.remote \notin t.retired
    /\ c = Host => t.start = s.start
    /\ \/ t = s
       \/ /\ s.remote = 0 /\ ~s.loaded
          /\ t.start = s.start /\ t.synced = s.synced
          /\ t.remoteSynced = s.remoteSynced
       \/ /\ s.remote \in t.retired /\ ~s.loaded
          /\ t.synced = (c = Host) /\ t.remoteSynced = (c = Join)

LEMMA ResetKeeps ==
    ASSUME NEW c \in Peer, NEW s \in Sessions
    PROVE  LET r == ResetAttempt(c, s)
           IN /\ r \in Sessions /\ r.sid = s.sid /\ r.held = s.held
              /\ r.loaded = s.loaded /\ r.retired = s.retired
              /\ c = Host => r.start = s.start
              /\ r.synced = (c = Host) /\ r.remoteSynced = (c = Join)
<1> DEFINE Cleared(n, a, b) ==
             [s EXCEPT !.confirmed = FALSE, !.peerConfirmed = FALSE,
                       !.other = Unknown, !.otherFinal = FALSE,
                       !.start = n, !.synced = a, !.remoteSynced = b,
                       !.recv = NoState, !.in0 = FALSE, !.remoteIn0 = FALSE]
<1>1. ASSUME NEW n \in Nat, NEW a \in BOOLEAN, NEW b \in BOOLEAN
      PROVE  LET r == Cleared(n, a, b)
             IN /\ r \in Sessions /\ r.sid = s.sid /\ r.held = s.held
                /\ r.loaded = s.loaded /\ r.retired = s.retired
                /\ r.start = n /\ r.synced = a /\ r.remoteSynced = b
  <2> DEFINE q1 == [s EXCEPT !.confirmed = FALSE, !.peerConfirmed = FALSE,
                             !.other = Unknown, !.otherFinal = FALSE]
             q2 == [q1 EXCEPT !.start = n, !.synced = a, !.remoteSynced = b]
             q3 == [q2 EXCEPT !.recv = NoState, !.in0 = FALSE, !.remoteIn0 = FALSE]
  <2>1. /\ q1 \in Sessions /\ q1.sid = s.sid /\ q1.held = s.held
        /\ q1.loaded = s.loaded /\ q1.retired = s.retired
    BY DEF Unknown, Sessions
  <2>2. q3 = Cleared(n, a, b)
    OBVIOUS
  <2> HIDE DEF q1, Cleared
  <2>3. /\ q2 \in Sessions /\ q2.sid = q1.sid /\ q2.held = q1.held
        /\ q2.loaded = q1.loaded /\ q2.retired = q1.retired
        /\ q2.start = n /\ q2.synced = a /\ q2.remoteSynced = b
    BY <2>1, ZenonT(60) DEF Sessions
  <2> HIDE DEF q2
  <2>4. /\ q3 \in Sessions /\ q3.sid = q2.sid /\ q3.held = q2.held
        /\ q3.loaded = q2.loaded /\ q3.retired = q2.retired
        /\ q3.start = q2.start /\ q3.synced = q2.synced
        /\ q3.remoteSynced = q2.remoteSynced
    BY <2>3 DEF NoState, Sessions
  <2> HIDE DEF q3
  <2> QED BY <2>1, <2>2, <2>3, <2>4
<1> DEFINE first == (c = Host)
           second == (c = Join)
           n == IF c = Host THEN s.start ELSE 0
<1>2. first \in BOOLEAN /\ second \in BOOLEAN /\ n \in Nat
  BY DEF Sessions
<1>3. ResetAttempt(c, s) = Cleared(n, first, second)
  BY DEF ResetAttempt
<1>4. c = Host => n = s.start
  OBVIOUS
<1> HIDE DEF n, first, second, Cleared
<1>5. /\ ResetAttempt(c, s) \in Sessions /\ ResetAttempt(c, s).sid = s.sid
      /\ ResetAttempt(c, s).held = s.held /\ ResetAttempt(c, s).loaded = s.loaded
      /\ ResetAttempt(c, s).retired = s.retired /\ ResetAttempt(c, s).start = n
      /\ ResetAttempt(c, s).synced = first /\ ResetAttempt(c, s).remoteSynced = second
  BY <1>1, <1>2, <1>3
<1> QED BY <1>4, <1>5 DEF first, second

LEMMA SourceKeeps ==
    ASSUME NEW c \in Peer, NEW s \in Sessions,
           NEW p \in Packets, Acceptable(s, p), s.remote \notin s.retired
    PROVE  SourceKept(c, s, p, Source(c, s, p))
<1>1. /\ p.sid \notin s.retired /\ p.sid \in Nat \ {0} /\ s.remote \in Nat
      /\ p.sid # s.remote => ~s.loaded
  BY DEF Acceptable, Packets, Sessions
<1>2. CASE p.sid = s.remote
  <2>1. Source(c, s, p) = s
    BY <1>2 DEF Source
  <2> QED BY <1>1, <1>2, <2>1 DEF SourceKept
<1>3. CASE p.sid # s.remote /\ s.remote = 0
  <2> DEFINE t == [s EXCEPT !.remote = p.sid]
  <2>1. Source(c, s, p) = t
    BY <1>3 DEF Source
  <2>2. /\ t \in Sessions /\ t.sid = s.sid /\ t.held = s.held
        /\ t.loaded = s.loaded /\ t.retired = s.retired
        /\ t.remote = p.sid /\ t.start = s.start /\ t.synced = s.synced
        /\ t.remoteSynced = s.remoteSynced
    BY <1>1 DEF Sessions
  <2> HIDE DEF t
  <2> QED BY <1>1, <1>3, <2>1, <2>2 DEF SourceKept
<1>4. CASE p.sid # s.remote /\ s.remote # 0
  <2> DEFINE r == ResetAttempt(c, s)
             t == [r EXCEPT !.retired = @ \cup {s.remote}, !.remote = p.sid]
  <2>1. Source(c, s, p) = t
    BY <1>4 DEF Source
  <2>2. /\ r \in Sessions /\ r.sid = s.sid /\ r.held = s.held
        /\ r.loaded = s.loaded /\ r.retired = s.retired
        /\ c = Host => r.start = s.start
        /\ r.synced = (c = Host) /\ r.remoteSynced = (c = Join)
    BY ResetKeeps
  <2> HIDE DEF r
  <2>3. /\ t \in Sessions /\ t.sid = r.sid /\ t.held = r.held
        /\ t.loaded = r.loaded /\ t.retired = r.retired \cup {s.remote}
        /\ t.remote = p.sid /\ t.start = r.start
        /\ t.synced = r.synced /\ t.remoteSynced = r.remoteSynced
    BY <1>1, <2>2 DEF Sessions
  <2> HIDE DEF t
  <2>4. s.remote \in t.retired /\ s.retired \subseteq t.retired
        /\ t.remote \notin t.retired
    BY <1>1, <1>4, <2>2, <2>3
  <2> QED BY <1>1, <1>4, <2>1, <2>2, <2>3, <2>4 DEF SourceKept
<1> QED BY <1>2, <1>3, <1>4

\* What the invariant says of one session.
LEMMA InvOfPeer ==
    ASSUME PrematchInv, NEW c \in Peer
    PROVE  /\ peer[c] \in Sessions /\ Sound(c, peer[c])
           /\ Other(c) \in Peer /\ sent[Other(c)] \subseteq Packets
           /\ peer[Other(c)].sid \in Nat
           /\ \A p \in sent[Other(c)] : p.sid <= peer[Other(c)].sid
           /\ c = Host => HostStarts(peer[c]) /\ Other(c) = Join
           /\ c = Join => JoinStarts(peer[c]) /\ Other(c) = Host
           /\ Host # Join /\ (c = Host \/ c = Join)
<1>1. /\ Other(c) \in Peer /\ Host # Join /\ (c = Host \/ c = Join)
      /\ c = Host => Other(c) = Join
      /\ c = Join => Other(c) = Host
  BY PrematchAssumption DEF Peer, Other
<1>2. peer[c] \in Sessions /\ peer[Other(c)] \in Sessions /\ sent[Other(c)] \subseteq Packets
  BY <1>1 DEF PrematchInv, PeersType
<1>3. peer[Other(c)].sid \in Nat
  BY <1>2 DEF Sessions
<1>4. \A p \in sent[Other(c)] : p.sid <= peer[Other(c)].sid
  BY <1>1 DEF PrematchInv, OlderSent
<1>5. Sound(c, peer[c]) /\ Starts(c, peer[c])
  BY DEF PrematchInv
<1> QED BY <1>1, <1>2, <1>3, <1>4, <1>5 DEF Starts

LEMMA ReceiveKeeps ==
    ASSUME PrematchInv, NEW c \in Peer,
           NEW p \in sent[Other(c)], ReceivePacket(c, p)
    PROVE  PrematchInv'
<1> DEFINE s == peer[c]
           u == Source(c, s, p)
           t == Handled(c, u, p)
<1>1. Acceptable(s, p) /\ Becomes(c, t)
  BY DEF ReceivePacket
<1>2. /\ s \in Sessions /\ Sound(c, s) /\ p \in Packets
      /\ p.sid <= peer[Other(c)].sid
      /\ c = Host => HostStarts(s) /\ Other(c) = Join
      /\ c = Join => JoinStarts(s) /\ Other(c) = Host
      /\ Host # Join /\ (c = Host \/ c = Join)
  BY InvOfPeer
<1> HIDE DEF s
<1>3. SourceKept(c, s, p, u)
  BY <1>1, <1>2, SourceKeeps DEF Sound
<1> HIDE DEF u
<1>4. /\ t \in Sessions /\ SameStart(u, t)
      /\ u.remoteSynced => t.remoteSynced
      /\ t.remoteSynced /\ ~u.remoteSynced => p.kind = "ack" /\ p.start = u.start
  BY <1>2, <1>3, HandledKeeps DEF SourceKept
<1> HIDE DEF t
<1>5. s.loaded => u = s
  BY <1>3 DEF SourceKept
<1>6. Sound(c, t)
  BY <1>2, <1>3, <1>4, <1>5 DEF Sound, SourceKept, SameStart
<1>7. c = Join /\ s.synced => u = s \/ (s.start \in t.retired /\ ~t.synced)
  <2> SUFFICES ASSUME c = Join, s.synced, u # s
               PROVE  s.start \in t.retired /\ ~t.synced
    OBVIOUS
  <2>1. s.remote # 0 /\ s.start = s.remote
    BY <1>2 DEF JoinStarts
  <2> QED BY <1>2, <1>3, <1>4, <2>1 DEF SourceKept, SameStart
<1>8. CASE c = Host
  <2>1. t.start = IF t.held THEN 0 ELSE t.sid
    BY <1>2, <1>3, <1>4, <1>8 DEF HostStarts, SourceKept, SameStart
  <2>2. ASSUME t.remoteSynced
        PROVE  \E q \in sent[Join] : q.kind = "ack" /\ q.sid = t.remote /\ q.start = t.start
    <3>1. CASE ~u.remoteSynced
      BY <1>2, <1>3, <1>4, <1>8, <2>2, <3>1 DEF SourceKept, SameStart
    <3>2. CASE u.remoteSynced
      <4>1. s.remoteSynced
        BY <1>2, <1>3, <1>8, <3>2 DEF SourceKept
      <4>2. PICK q \in sent[Join] : q.kind = "ack" /\ q.sid = s.remote /\ q.start = s.start
        BY <1>2, <1>8, <4>1 DEF HostStarts
      <4>3. s.remote # 0
        BY <1>8, <4>2, InvOfPeer DEF Packets
      <4>4. u = s
        BY <1>2, <1>3, <1>8, <3>2, <4>3 DEF SourceKept
      <4> QED BY <1>4, <4>2, <4>4 DEF SameStart
    <3> QED BY <3>1, <3>2
  <2>3. Starts(c, t)
    BY <1>8, <2>1, <2>2 DEF Starts, HostStarts
  <2>4. Follows(c, s, t)
    BY <1>2, <1>3, <1>4, <1>8 DEF Follows, SourceKept, SameStart, Sessions
  <2> QED BY <1>1, <1>4, <1>6, <2>3, <2>4, BecomesKeeps DEF s
<1>9. CASE c = Join
  <2>1. JoinStarts(t)
    <3> SUFFICES ASSUME t.synced
                 PROVE  /\ t.start = t.remote /\ t.remote # 0 /\ ~t.held
                        /\ t.remote = peer[Host].sid => ~peer[Host].held
      BY DEF JoinStarts
    <3>1. u = s
      <4>1. u.synced
        BY <1>4 DEF SameStart
      <4>2. ~(s.remote = 0 /\ s.synced)
        BY <1>2, <1>9 DEF JoinStarts
      <4> QED BY <1>2, <1>3, <1>9, <4>1, <4>2 DEF SourceKept
    <3> QED BY <1>2, <1>4, <1>9, <3>1 DEF JoinStarts, SameStart
  <2>2. Starts(c, t)
    BY <1>2, <1>9, <2>1 DEF Starts
  <2>3. /\ s.sid <= t.sid /\ (t.held => s.held) /\ s.retired \subseteq t.retired
    BY <1>2, <1>3, <1>4 DEF SourceKept, SameStart, Sessions
  <2>4. s.synced => (t.synced /\ t.start = s.start) \/ s.start \in t.retired
    BY <1>4, <1>7, <1>9 DEF SameStart
  <2>5. Follows(c, s, t)
    BY <1>9, <2>3, <2>4 DEF Follows
  <2> QED BY <1>1, <1>4, <1>6, <2>2, <2>5, BecomesKeeps DEF s
<1> QED BY <1>2, <1>8, <1>9

\* The join applies the state its own session's host captured, and that host
\* is past its hold.
LEMMA ReceiveChunkKeeps ==
    ASSUME PrematchInv, NEW c \in Peer,
           NEW p \in sent[Other(c)], ReceiveChunk(c, p)
    PROVE  PrematchInv'
<1> DEFINE s == peer[c]
<1>1. /\ c = Join /\ p.kind = "state" /\ p.sid = s.remote
      /\ Open(s) /\ ~s.synced
      /\ \/ Becomes(c, [s EXCEPT !.recv = Assembled(s, p)])
         \/ Becomes(c, Applied(s, p.start))
         \/ Becomes(c, [s EXCEPT !.recv = NoState])
  BY DEF ReceiveChunk
<1>2. /\ s \in Sessions /\ Sound(c, s) /\ p \in Packets
      /\ Other(c) = Host /\ Host # Join
  BY <1>1, InvOfPeer
<1>3. ~s.held
  BY <1>1 DEF Open
<1>4. /\ p.start = p.sid /\ p.sid # 0
      /\ p.sid = peer[Host].sid => ~peer[Host].held
  BY <1>1, <1>2 DEF PrematchInv, ChunksAreOwn, Packets
<1> HIDE DEF s
<1>5. ASSUME NEW r \in [start : Nat, parts : SUBSET Nat],
             Becomes(c, [s EXCEPT !.recv = r])
      PROVE  PrematchInv'
  <2> DEFINE t == [s EXCEPT !.recv = r]
  <2>1. t \in Sessions /\ SameStart(s, t) /\ t.remoteSynced = s.remoteSynced
    BY <1>2 DEF Sessions, SameStart
  <2> HIDE DEF t
  <2>2. Sound(c, t) /\ Starts(c, t) /\ Follows(c, s, t)
    BY <1>1, <1>2, <2>1 DEF Sound, Starts, JoinStarts, Follows, SameStart, Sessions
  <2> QED BY <1>5, <2>1, <2>2, BecomesKeeps DEF s, t
<1>6. Assembled(s, p) \in [start : Nat, parts : SUBSET Nat]
  BY <1>2 DEF Assembled, Packets, Sessions
<1>7. NoState \in [start : Nat, parts : SUBSET Nat]
  BY DEF NoState
<1>8. ASSUME Becomes(c, Applied(s, p.start)) PROVE PrematchInv'
  <2> DEFINE t == Applied(s, p.start)
  <2>1. /\ t \in Sessions /\ t.sid = s.sid /\ t.remote = s.remote
        /\ t.retired = s.retired /\ t.held = s.held /\ t.start = p.start
        /\ t.synced /\ t.remoteSynced /\ t.loaded = s.loaded
    BY <1>2 DEF Applied, NoState, Sessions, Packets
  <2> HIDE DEF t
  <2>2. Sound(c, t)
    BY <1>2, <1>3, <2>1 DEF Sound
  <2>3. Starts(c, t)
    BY <1>1, <1>2, <1>3, <1>4, <2>1 DEF Starts, JoinStarts
  <2>4. Follows(c, s, t)
    BY <1>1, <1>2, <2>1 DEF Follows, Sessions
  <2> QED BY <1>8, <2>1, <2>2, <2>3, <2>4, BecomesKeeps DEF s, t
<1> QED BY <1>1, <1>5, <1>6, <1>7, <1>8

LEMMA FinalizePrimeKeep ==
    ASSUME PrematchInv, NEW c \in Peer,
           Finalize(c) \/ Prime(c)
    PROVE  PrematchInv'
<1> DEFINE s == peer[c]
<1>1. /\ s \in Sessions /\ Sound(c, s) /\ Starts(c, s)
  BY InvOfPeer DEF PrematchInv
<1>2. PICK t : Becomes(c, t) /\ t \in {[s EXCEPT !.final = TRUE], [s EXCEPT !.in0 = TRUE]}
  BY DEF Finalize, Prime
<1> HIDE DEF s
<1>3. t \in Sessions /\ SameStart(s, t) /\ t.remoteSynced = s.remoteSynced
  BY <1>1, <1>2, ZenonT(60) DEF Sessions, SameStart
<1>4. Sound(c, t) /\ Starts(c, t)
  BY <1>1, <1>3 DEF Sound, Starts, HostStarts, JoinStarts, SameStart
<1>5. Follows(c, s, t)
  BY <1>1, <1>3 DEF Follows, SameStart, Sessions
<1> QED BY <1>2, <1>3, <1>4, <1>5, BecomesKeeps DEF s

LEMMA ReleaseKeeps ==
    ASSUME PrematchInv, NEW c \in Peer, Release(c)
    PROVE  PrematchInv'
<1> DEFINE s == peer[c]
           t == [s EXCEPT !.held = FALSE, !.recv = NoState,
                          !.start = IF c = Host THEN s.sid ELSE 0,
                          !.synced = (c = Host), !.remoteSynced = (c = Join)]
<1>1. s.held /\ Becomes(c, t)
  BY DEF Release
<1>2. /\ s \in Sessions /\ Sound(c, s)
      /\ c = Host => HostStarts(s) /\ Other(c) = Join
      /\ c = Join => JoinStarts(s) /\ Other(c) = Host
      /\ Host # Join /\ (c = Host \/ c = Join)
  BY InvOfPeer
<1> HIDE DEF s
<1>3. /\ t \in Sessions /\ t.sid = s.sid /\ t.remote = s.remote
      /\ t.retired = s.retired /\ ~t.held /\ t.loaded = s.loaded
      /\ t.start = IF c = Host THEN s.sid ELSE 0
      /\ t.synced = (c = Host) /\ t.remoteSynced = (c = Join)
  <2>1. CASE c = Host
    BY <1>2, <2>1, ZenonT(60) DEF NoState, Sessions
  <2>2. CASE c = Join
    BY <1>2, <2>2 DEF NoState, Sessions
  <2> QED BY <1>2, <2>1, <2>2
<1> HIDE DEF t
<1>4. Sound(c, t)
  BY <1>1, <1>2, <1>3 DEF Sound
<1>5. Starts(c, t)
  BY <1>2, <1>3 DEF Starts, HostStarts, JoinStarts
<1>6. Follows(c, s, t)
  BY <1>1, <1>2, <1>3 DEF Follows, JoinStarts, Sessions
<1> QED BY <1>1, <1>3, <1>4, <1>5, <1>6, BecomesKeeps DEF s

LEMMA PrepareKeeps ==
    ASSUME PrematchInv, NEW c \in Peer, Prepare(c)
    PROVE  PrematchInv'
<1> DEFINE s == peer[c]
           t == [s EXCEPT !.loaded = TRUE]
<1>1. Becomes(c, t) /\ ~s.held /\ s.synced /\ s.remoteSynced
  BY DEF Prepare, Ready, Synced
<1>2. /\ s \in Sessions /\ Sound(c, s) /\ Starts(c, s)
  BY InvOfPeer DEF PrematchInv
<1> HIDE DEF s
<1>3. /\ t \in Sessions /\ t.sid = s.sid /\ t.remote = s.remote
      /\ t.retired = s.retired /\ t.held = s.held /\ t.start = s.start
      /\ t.synced = s.synced /\ t.remoteSynced = s.remoteSynced
  BY <1>2 DEF Sessions
<1> HIDE DEF t
<1>4. Sound(c, t) /\ Starts(c, t)
  BY <1>1, <1>2, <1>3 DEF Sound, Starts, HostStarts, JoinStarts
<1>5. Follows(c, s, t)
  BY <1>2, <1>3 DEF Follows, Sessions
<1> QED BY <1>1, <1>3, <1>4, <1>5, BecomesKeeps DEF s

LEMMA StartOverKeeps ==
    ASSUME PrematchInv, NEW c \in Peer, StartOver(c)
    PROVE  PrematchInv'
<1> DEFINE t == Fresh(c, peer[c].sid + 1)
<1>1. Becomes(c, t)
  BY DEF StartOver
<1>2. /\ peer[c] \in Sessions /\ peer[Other(c)].sid \in Nat
      /\ Host # Join /\ (c = Host \/ c = Join)
  BY InvOfPeer
<1>3. peer[c].sid + 1 \in Nat \ {0} /\ peer[c].sid < peer[c].sid + 1
  BY <1>2 DEF Sessions
<1>4. /\ t \in Sessions /\ t.sid = peer[c].sid + 1 /\ t.remote = 0
      /\ t.retired = {} /\ t.held /\ t.start = 0 /\ t.synced = (c = Host)
      /\ t.remoteSynced = (c = Join) /\ ~t.loaded
  BY <1>3, FreshIsSession
<1> HIDE DEF t
<1>5. Sound(c, t)
  BY <1>2, <1>4 DEF Sound
<1>6. Starts(c, t)
  BY <1>2, <1>4 DEF Starts, HostStarts, JoinStarts
<1>7. Follows(c, peer[c], t)
  BY <1>2, <1>3, <1>4 DEF Follows, Sessions
<1> QED BY <1>1, <1>4, <1>5, <1>6, <1>7, BecomesKeeps

-----------------------------------------------------------------------------
LEMMA PrematchInitInv == ASSUME StartInit PROVE PrematchInv
<1>1. Host # Join /\ Host \in Peer /\ Join \in Peer /\ Other(Host) = Join /\ Other(Join) = Host
  BY PrematchAssumption DEF Peer, Other
<1>2. /\ peer = [c \in Peer |-> Fresh(c, 1)]
      /\ sent = [c \in Peer |-> Emits(c, Fresh(c, 1))]
  BY DEF StartInit
<1>3. \A c \in Peer :
         /\ Fresh(c, 1) \in Sessions /\ Fresh(c, 1).sid = 1
         /\ Fresh(c, 1).remote = 0 /\ Fresh(c, 1).retired = {}
         /\ Fresh(c, 1).held /\ Fresh(c, 1).start = 0
         /\ Fresh(c, 1).synced = (c = Host) /\ Fresh(c, 1).remoteSynced = (c = Join)
         /\ ~Fresh(c, 1).loaded
  <2>1. 1 \in Nat \ {0}
    OBVIOUS
  <2> QED BY <2>1, FreshIsSession
<1>4. \A c \in Peer :
         /\ Emits(c, Fresh(c, 1)) \subseteq Packets
         /\ \A p \in Emits(c, Fresh(c, 1)) :
               /\ p.sid = 1 /\ p.kind # "state"
               /\ p.kind = "ack" => c = Join /\ Fresh(c, 1).synced
  BY <1>3, EmitsType
<1>5. PeersType
  BY <1>2, <1>3, <1>4 DEF PeersType
<1>6. ASSUME NEW c \in Peer PROVE Sound(c, peer[c]) /\ Starts(c, peer[c])
  <2>1. peer[c] = Fresh(c, 1) /\ peer[Other(c)].sid = 1
    BY <1>1, <1>2, <1>3 DEF Peer
  <2>2. Sound(c, peer[c])
    BY <1>3, <2>1 DEF Sound
  <2>3. /\ peer[c].held /\ peer[c].start = 0
        /\ c = Host => ~peer[c].remoteSynced
        /\ c = Join => ~peer[c].synced
    BY <1>1, <1>3, <2>1, ZenonT(60)
  <2>4. CASE c = Host
    BY <1>1, <2>2, <2>3, <2>4 DEF Starts, HostStarts
  <2>5. CASE c = Join
    BY <1>1, <2>2, <2>3, <2>5 DEF Starts, JoinStarts
  <2> QED BY <2>2, <2>4, <2>5 DEF Peer
<1>7. OlderSent
  BY <1>2, <1>3, <1>4 DEF OlderSent
<1>8. ChunksAreOwn
  BY <1>1, <1>2, <1>4 DEF ChunksAreOwn
<1>9. AcksAreHeld
  BY <1>1, <1>2, <1>3, <1>4 DEF AcksAreHeld
<1> QED BY <1>5, <1>6, <1>7, <1>8, <1>9 DEF PrematchInv

LEMMA PrematchNextInv ==
    ASSUME PrematchInv, [StartNext]_startVars PROVE PrematchInv'
<1>1. CASE UNCHANGED startVars
  BY <1>1 DEF startVars, PrematchInv, PeersType, Sound, Starts, HostStarts,
              JoinStarts, OlderSent, ChunksAreOwn, AcksAreHeld
<1>2. ASSUME NEW c \in Peer, Deliver(c) PROVE PrematchInv'
  BY <1>2, ReceiveKeeps, ReceiveChunkKeeps DEF Deliver
<1>3. ASSUME NEW c \in Peer, Pump(c) PROVE PrematchInv'
  BY <1>3, FinalizePrimeKeep, ReleaseKeeps, PrepareKeeps DEF Pump
<1>4. ASSUME NEW c \in Peer, StartOver(c) PROVE PrematchInv'
  BY <1>4, StartOverKeeps
<1> QED BY <1>1, <1>2, <1>3, <1>4 DEF StartNext

\* ggpo_net_prepare_prematch_start: a peer that has loaded has loaded what the
\* peer it is linked with starts from, however many chunks, sessions, failed
\* loads and stale datagrams there were.
THEOREM LoadedStartIsShared == StartSpec => []StartIsShared
<1>1. StartInit => PrematchInv
  BY PrematchInitInv
<1>2. PrematchInv /\ [StartNext]_startVars => PrematchInv'
  BY PrematchNextInv
<1>3. PrematchInv => StartIsShared
  BY InvSharesStart
<1> QED BY <1>1, <1>2, <1>3, PTL DEF StartSpec

-----------------------------------------------------------------------------
(***************************************************************************)
(* The match as its two clients live it: what makes its promises           *)
(* inductive.                                                              *)
(***************************************************************************)
Winner == Client \cup {NoOne}
UpType == {"started", "abort", "end", "failure", "rematch", "decline", "queue", "close"}
DownType == {"found", "started", "result", "abort", "rematch"}
Offer == {"none", "available", "waiting", "offered", "starting"}
Line(types) == [type : types, id : Nat, winner : Winner, rematch : Offer]
UpLine == Line(UpType)
DownLine == Line(DownType)
Lines(q) == {q[i] : i \in 1 .. Len(q)}

ClientState ==
    [link : BOOLEAN, up : Seq(UpLine), screen : {"hub", "main", "game"},
     opening : BOOLEAN, queued : BOOLEAN,
     pending : [id : Nat, stage : {"link", "prepared", "released", "ready"},
                committed : BOOLEAN],
     tries : Nat, net : {"off", "open", "linked"},
     active : [id : Nat, reported : BOOLEAN, awaiting : BOOLEAN],
     seen : Winner, correcting : BOOLEAN,
     result : [id : Nat, outcome : Winner, confirmed : BOOLEAN, rematch : Offer]]

ServerState ==
    [id : Nat \ {0}, phase : {"setup", "playing", "over"}, online : SUBSET Client,
     ready : SUBSET Client, said : [Client -> Winner], failed : SUBSET Client,
     outcome : Winner, told : SUBSET Client, offer : BOOLEAN,
     votes : SUBSET Client, queue : SUBSET Client]

-----------------------------------------------------------------------------
(* One client, while the server is at match a and r is its real winner. *)

\* It knows no match to come, and has reported no other winner.
Honest(s, a, r) ==
    /\ s \in ClientState
    /\ s.pending.id <= a /\ s.active.id <= a /\ s.result.id <= a
    /\ \A x \in Lines(s.up) :
          x.id <= a /\ (x.type = "end" /\ x.id = a => x.winner = r /\ r # NoOne)

\* Who has told the server that it is ready for match m asks for no other.
NoQueueAfter(q, m) ==
    \A i, j \in 1 .. Len(q) :
        i < j /\ q[i].type = "started" /\ q[i].id = m => q[j].type # "queue"

\* A match that is set up is the client's latest; past its first stage nothing
\* is left of the one before, and all that was said of it is that it is ready.
InSetup(s) ==
    /\ s.active.id < s.pending.id /\ s.result.id < s.pending.id /\ ~ s.correcting
    /\ s.pending.stage # "link" => s.net = "linked" /\ s.active.id = 0 /\ s.seen = NoOne
    /\ \A x \in Lines(s.up) : x.id = s.pending.id =>
          x.type = "started" /\ s.pending.stage = "ready"
    /\ NoQueueAfter(s.up, s.pending.id)

SetUp(s) ==
    /\ s.pending.id = 0 => s.pending = NoPending
    /\ s.pending.committed => s.pending.stage = "ready"
    /\ s.pending.id # 0 => InSetup(s)

\* What it shows of the server's match, and may yet report, is so.
Shown(s, a, r) ==
    s.active.id = a /\ ~ s.active.reported /\ ~ s.correcting /\ s.seen # NoOne => s.seen = r

Own(s, a, r) == Honest(s, a, r) /\ SetUp(s) /\ Shown(s, a, r)

\* What a hook may make of it, as far as the server and the other can tell: it
\* takes up no match, and says nothing of a match it has not known.
Step(s, t) ==
    /\ \/ t.pending = NoPending
       \/ /\ t.pending.id = s.pending.id
          /\ s.pending.stage = "ready" => t.pending.stage = "ready"
          /\ t.pending.committed => s.pending.committed
    /\ t.active.id \in {s.active.id, 0}
    /\ t.result.id \in {s.result.id, s.active.id, s.pending.id, 0}
    /\ \A x \in Lines(t.up) :
          \/ x \in Lines(s.up)
          \/ /\ x.id \in {s.pending.id, s.active.id, s.result.id, 0}
             /\ x.type = "queue" => t.pending.id = 0
             /\ x.type = "end" => x.id = s.active.id /\ x.id # 0

-----------------------------------------------------------------------------
(* One client and the messages q on their way to it. *)

Heard(q, type, m) == \E x \in Lines(q) : x.type = type /\ x.id = m
Idle(s) == \A x \in Lines(s.up) : x.type # "queue"

\* The messages come in the order of their matches, and a match found is news.
Feed(s, q, a) ==
    /\ q \in Seq(DownLine)
    /\ \A x \in Lines(q) : x.id <= a
    /\ \A i, j \in 1 .. Len(q) : i < j /\ q[j].type = "found" => q[i].id < q[j].id
    /\ \A x \in Lines(q) : x.type = "found" =>
          /\ s.pending.id < x.id /\ s.active.id < x.id /\ s.result.id < x.id
          /\ \A y \in Lines(s.up) : y.id < x.id

\* A sign that the server has committed match m.
Evidence(s, q, m) ==
    \/ s.pending.committed /\ s.pending.id = m
    \/ s.active.id = m \/ Heard(s.up, "end", m)
    \/ Heard(q, "started", m) \/ Heard(q, "result", m)

\* The client waits at the start barrier of match m or is past its setup.
Passed(s, q, m) ==
    (s.pending.id = m => s.pending.stage = "ready") /\ ~ Heard(q, "found", m)

Resolved(sv) == sv.phase = "playing" \/ sv.outcome # NoOne

\* Client c, in state s, and the server.
Mine(c, s, q, sv, r) ==
    /\ Own(s, sv.id, r) /\ Feed(s, q, sv.id)
    /\ Evidence(s, q, sv.id) => sv.phase # "setup"
    /\ Resolved(sv) => Passed(s, q, sv.id)
    /\ s.pending.id # 0 /\ (s.pending.committed \/ Heard(q, "started", s.pending.id)) =>
          s.pending.id = sv.id /\ Idle(s) /\ c \notin sv.queue
    /\ c \in sv.ready => Passed(s, q, sv.id) /\ (s.pending.id = sv.id => Idle(s))
    /\ c \in sv.votes => s.pending.id # sv.id /\ ~ Heard(q, "found", sv.id)

\* A client in state s and one in state t.
Ours(s, q, t, p, a, r) ==
    /\ \A m \in 1 .. a : Evidence(s, q, m) => Passed(t, p, m)
    /\ (s.active.id = a /\ r # NoOne) \/ Heard(s.up, "end", a) => t.pending.id # a

ServerSane(sv, r) ==
    /\ sv \in ServerState /\ r \in Winner
    /\ sv.phase = "over" => sv.ready = {}
    /\ sv.phase # "over" =>
          sv.queue = {} /\ sv.votes = {} /\ ~ sv.offer /\ sv.outcome = NoOne

World(k, dn, sv, r) ==
    /\ ServerSane(sv, r)
    /\ k \in [Client -> ClientState] /\ dn \in [Client -> Seq(DownLine)]
    /\ \A c \in Client : Mine(c, k[c], dn[c], sv, r)
    /\ \A c, d \in Client : Ours(k[c], dn[c], k[d], dn[d], sv.id, r)

\* The two clients, and what is on its way to them, in a match of the server's.
ClientInv == World(client, down, server, real)

-----------------------------------------------------------------------------
(* Lists of messages. *)

LEMMA LinesOfAppend ==
    ASSUME NEW S, NEW q \in Seq(S), NEW x \in S
    PROVE  Append(q, x) \in Seq(S) /\ Lines(Append(q, x)) = Lines(q) \cup {x}
<1>1. /\ Append(q, x) \in Seq(S) /\ Len(Append(q, x)) = Len(q) + 1 /\ Len(q) \in Nat
      /\ \A i \in 1 .. Len(q) : Append(q, x)[i] = q[i]
      /\ Append(q, x)[Len(q) + 1] = x
  BY AppendProperties, LenProperties
<1>2. \A i \in 1 .. Len(q) + 1 : i \in 1 .. Len(q) \/ i = Len(q) + 1
  BY <1>1
<1>3. 1 .. Len(q) \subseteq 1 .. Len(q) + 1 /\ Len(q) + 1 \in 1 .. Len(q) + 1
  BY <1>1
<1> QED BY <1>1, <1>2, <1>3 DEF Lines

LEMMA LinesOfConcat ==
    ASSUME NEW S, NEW p \in Seq(S), NEW q \in Seq(S)
    PROVE  p \o q \in Seq(S) /\ Lines(p \o q) = Lines(p) \cup Lines(q)
<1>1. /\ p \o q \in Seq(S) /\ Len(p \o q) = Len(p) + Len(q)
      /\ Len(p) \in Nat /\ Len(q) \in Nat
      /\ \A i \in 1 .. Len(p) + Len(q) :
            (p \o q)[i] = IF i <= Len(p) THEN p[i] ELSE q[i - Len(p)]
  BY ConcatProperties, LenProperties
<1>2. ASSUME NEW y \in Lines(p \o q) PROVE y \in Lines(p) \cup Lines(q)
  <2>1. PICK i \in 1 .. Len(p) + Len(q) : y = (p \o q)[i]
    BY <1>1, <1>2 DEF Lines
  <2>2. CASE i <= Len(p)
    <3>1. i \in 1 .. Len(p) /\ y = p[i]
      BY <1>1, <2>1, <2>2
    <3> QED BY <3>1 DEF Lines
  <2>3. CASE ~ i <= Len(p)
    <3>1. i - Len(p) \in 1 .. Len(q) /\ y = q[i - Len(p)]
      BY <1>1, <2>1, <2>3
    <3> QED BY <3>1 DEF Lines
  <2> QED BY <2>2, <2>3
<1>3. ASSUME NEW y \in Lines(p) PROVE y \in Lines(p \o q)
  <2>1. PICK i \in 1 .. Len(p) : y = p[i]
    BY <1>3 DEF Lines
  <2>2. i \in 1 .. Len(p) + Len(q) /\ y = (p \o q)[i]
    BY <1>1, <2>1
  <2> QED BY <1>1, <2>2 DEF Lines
<1>4. ASSUME NEW y \in Lines(q) PROVE y \in Lines(p \o q)
  <2>1. PICK i \in 1 .. Len(q) : y = q[i]
    BY <1>4 DEF Lines
  <2>2. i + Len(p) \in 1 .. Len(p) + Len(q) /\ ~ i + Len(p) <= Len(p)
        /\ (i + Len(p)) - Len(p) = i
    BY <1>1
  <2> QED BY <1>1, <2>1, <2>2 DEF Lines
<1> QED BY <1>1, <1>2, <1>3, <1>4

LEMMA LinesOfTail ==
    ASSUME NEW S, NEW q \in Seq(S), q # << >>
    PROVE  /\ Tail(q) \in Seq(S) /\ Head(q) \in S /\ Head(q) \in Lines(q)
           /\ Lines(Tail(q)) \subseteq Lines(q)
           /\ Len(q) \in Nat /\ Len(Tail(q)) = Len(q) - 1 /\ 1 \in 1 .. Len(q)
           /\ Head(q) = q[1]
           /\ \A i \in 1 .. Len(Tail(q)) : i + 1 \in 1 .. Len(q) /\ Tail(q)[i] = q[i + 1]
<1>1. /\ Tail(q) \in Seq(S) /\ Head(q) \in S /\ Len(q) \in Nat /\ Len(q) # 0
      /\ Len(Tail(q)) = Len(q) - 1 /\ Head(q) = q[1]
      /\ \A i \in 1 .. Len(Tail(q)) : Tail(q)[i] = q[i + 1]
  BY HeadTailProperties, EmptySeq, LenProperties
<1>2. 1 \in 1 .. Len(q) /\ \A i \in 1 .. Len(Tail(q)) : i + 1 \in 1 .. Len(q)
  BY <1>1
<1> QED BY <1>1, <1>2 DEF Lines

LEMMA NoLines == Lines(<< >>) = {}
<1>1. 1 .. Len(<< >>) = {}
  OBVIOUS
<1> QED BY <1>1 DEF Lines

LEMMA NoQueueInTail ==
    ASSUME NEW S, NEW q \in Seq(S), NEW m, NoQueueAfter(q, m), q # << >>
    PROVE  /\ NoQueueAfter(Tail(q), m)
           /\ Head(q).type = "started" /\ Head(q).id = m =>
                 \A x \in Lines(Tail(q)) : x.type # "queue"
<1>1. /\ Len(q) \in Nat /\ Len(Tail(q)) = Len(q) - 1 /\ 1 \in 1 .. Len(q) /\ Head(q) = q[1]
      /\ \A i \in 1 .. Len(Tail(q)) : i + 1 \in 1 .. Len(q) /\ Tail(q)[i] = q[i + 1]
  BY LinesOfTail
<1>2. \A i, j \in 1 .. Len(Tail(q)) : i < j => i + 1 < j + 1
  BY <1>1
<1>3. \A i \in 1 .. Len(Tail(q)) : 1 < i + 1
  BY <1>1
<1> QED BY <1>1, <1>2, <1>3 DEF NoQueueAfter, Lines

LEMMA NoQueueInAppend ==
    ASSUME NEW S, NEW q \in Seq(S), NEW x \in S, NEW m, NoQueueAfter(q, m), x.type # "queue"
    PROVE  NoQueueAfter(Append(q, x), m)
<1>1. /\ Len(Append(q, x)) = Len(q) + 1 /\ Len(q) \in Nat
      /\ \A i \in 1 .. Len(q) : Append(q, x)[i] = q[i]
      /\ Append(q, x)[Len(q) + 1] = x
  BY AppendProperties, LenProperties
<1>2. ASSUME NEW i \in 1 .. Len(q) + 1, NEW j \in 1 .. Len(q) + 1, i < j,
             Append(q, x)[i].type = "started", Append(q, x)[i].id = m
      PROVE  Append(q, x)[j].type # "queue"
  <2>1. CASE j = Len(q) + 1
    BY <1>1, <2>1
  <2>2. CASE j # Len(q) + 1
    <3>1. i \in 1 .. Len(q) /\ j \in 1 .. Len(q)
      BY <1>1, <1>2, <2>2
    <3> QED BY <1>1, <1>2, <3>1 DEF NoQueueAfter
  <2> QED BY <2>1, <2>2
<1> QED BY <1>1, <1>2 DEF NoQueueAfter

-----------------------------------------------------------------------------
(* What the client's helpers keep. *)

LEMMA StateIs ==
    ASSUME NEW s \in ClientState
    PROVE  /\ s.link \in BOOLEAN /\ s.up \in Seq(UpLine)
           /\ s.screen \in {"hub", "main", "game"} /\ s.opening \in BOOLEAN
           /\ s.queued \in BOOLEAN /\ s.tries \in Nat /\ s.net \in {"off", "open", "linked"}
           /\ s.pending \in [id : Nat, stage : {"link", "prepared", "released", "ready"},
                             committed : BOOLEAN]
           /\ s.active \in [id : Nat, reported : BOOLEAN, awaiting : BOOLEAN]
           /\ s.result \in [id : Nat, outcome : Winner, confirmed : BOOLEAN, rematch : Offer]
           /\ s.pending.id \in Nat /\ s.active.id \in Nat /\ s.result.id \in Nat
           /\ s.seen \in Winner /\ s.correcting \in BOOLEAN
  BY DEF ClientState

LEMMA BlankIs ==
    /\ NoPending \in [id : Nat, stage : {"link", "prepared", "released", "ready"},
                      committed : BOOLEAN]
    /\ NoActive \in [id : Nat, reported : BOOLEAN, awaiting : BOOLEAN]
    /\ NoResult \in [id : Nat, outcome : Winner, confirmed : BOOLEAN, rematch : Offer]
    /\ NoPending.id = 0 /\ NoPending.stage = "link" /\ ~ NoPending.committed
    /\ NoActive.id = 0 /\ NoResult.id = 0
  BY DEF NoPending, NoActive, NoResult, Winner, Offer

LEMMA StepSelf == ASSUME NEW s PROVE Step(s, s)
  BY DEF Step

LEMMA StepAgain ==
    ASSUME NEW s, NEW t, NEW u, Step(s, t), Step(t, u), u.pending.id = 0 => u.pending = NoPending
    PROVE  Step(s, u)
<1>1. t.pending.id \in {s.pending.id, 0}
  BY BlankIs DEF Step
<1>2. \/ u.pending = NoPending
      \/ /\ u.pending.id = s.pending.id
         /\ s.pending.stage = "ready" => u.pending.stage = "ready"
         /\ u.pending.committed => s.pending.committed
  <2>1. CASE u.pending = NoPending
    BY <2>1
  <2>2. CASE u.pending # NoPending
    <3>1. u.pending.id # 0 /\ t.pending # NoPending
      BY <2>2, BlankIs DEF Step
    <3> QED BY <2>2, <3>1 DEF Step
  <2> QED BY <2>1, <2>2
<1>3. /\ u.active.id \in {s.active.id, 0}
      /\ u.result.id \in {s.result.id, s.active.id, s.pending.id, 0}
  BY <1>1 DEF Step
<1>4. ASSUME NEW x \in Lines(u.up), x \notin Lines(s.up)
      PROVE  /\ x.id \in {s.pending.id, s.active.id, s.result.id, 0}
             /\ x.type = "queue" => u.pending.id = 0
             /\ x.type = "end" => x.id = s.active.id /\ x.id # 0
  <2>1. CASE x \in Lines(t.up)
    <3>1. t.pending.id = 0 => u.pending.id = 0
      BY BlankIs DEF Step
    <3> QED BY <1>4, <2>1, <3>1 DEF Step
  <2>2. CASE x \notin Lines(t.up)
    BY <1>1, <1>4, <2>2 DEF Step
  <2> QED BY <2>1, <2>2
<1> QED BY <1>2, <1>3, <1>4 DEF Step

-----------------------------------------------------------------------------
(* What one client may do without disturbing the other or the server. *)

\* A hook's step, the server's commit read, or the game entered on it.
Moves(s, q, t, p, r) ==
    /\ \/ t.pending = NoPending
       \/ /\ t.pending.id = s.pending.id
          /\ s.pending.stage = "ready" => t.pending.stage = "ready"
          /\ t.pending.committed =>
                s.pending.committed \/ Heard(q, "started", s.pending.id)
    /\ \/ t.active.id \in {s.active.id, 0}
       \/ t.active.id = s.pending.id /\ s.pending.committed /\ r = NoOne
    /\ t.result.id \in {s.result.id, s.active.id, s.pending.id, 0}
    /\ \A x \in Lines(t.up) :
          \/ x \in Lines(s.up)
          \/ /\ x.id \in {s.pending.id, s.active.id, s.result.id, 0}
             /\ x.type = "queue" => t.pending.id = 0
             /\ x.type = "end" => x.id = s.active.id /\ x.id # 0
    /\ p = q \/ p = << >> \/ (q # << >> /\ p = Tail(q))

LEMMA StepMoves ==
    ASSUME NEW s, NEW t, NEW q, NEW p, NEW r, Step(s, t),
           p = q \/ p = << >> \/ (q # << >> /\ p = Tail(q))
    PROVE  Moves(s, q, t, p, r)
  BY DEF Step, Moves

\* Fewer messages, in the same order.
LEMMA FewerLines ==
    ASSUME NEW q \in Seq(DownLine), NEW p,
           p = q \/ p = << >> \/ (q # << >> /\ p = Tail(q)),
           \A i, j \in 1 .. Len(q) : i < j /\ q[j].type = "found" => q[i].id < q[j].id
    PROVE  /\ p \in Seq(DownLine) /\ Lines(p) \subseteq Lines(q)
           /\ \A i, j \in 1 .. Len(p) : i < j /\ p[j].type = "found" => p[i].id < p[j].id
<1>1. CASE p = q
  BY <1>1
<1>2. CASE p = << >>
  <2>1. 1 .. Len(p) = {} /\ p \in Seq(DownLine)
    BY <1>2
  <2> QED BY <1>2, <2>1, NoLines
<1>3. CASE q # << >> /\ p = Tail(q)
  <2>1. /\ p \in Seq(DownLine) /\ Lines(p) \subseteq Lines(q) /\ Len(p) \in Nat
        /\ \A i \in 1 .. Len(p) : i + 1 \in 1 .. Len(q) /\ p[i] = q[i + 1]
    BY <1>3, LinesOfTail
  <2>2. ASSUME NEW i \in 1 .. Len(p), NEW j \in 1 .. Len(p), i < j, p[j].type = "found"
        PROVE  p[i].id < p[j].id
    <3>1. i + 1 < j + 1
      BY <2>1, <2>2
    <3> QED BY <2>1, <2>2, <3>1
  <2> QED BY <2>1, <2>2
<1> QED BY <1>1, <1>2, <1>3

LEMMA FeedMoves ==
    ASSUME NEW s \in ClientState, NEW t \in ClientState, NEW q, NEW p, NEW a \in Nat, NEW r,
           Feed(s, q, a), Moves(s, q, t, p, r)
    PROVE  /\ Feed(t, p, a) /\ Lines(p) \subseteq Lines(q)
           /\ \A m \in Nat \ {0} : Evidence(t, p, m) => Evidence(s, q, m)
           /\ \A m \in Nat \ {0} : Passed(s, q, m) => Passed(t, p, m)
           /\ t.pending.id # 0 => t.pending.id = s.pending.id
<1>1. /\ p \in Seq(DownLine) /\ Lines(p) \subseteq Lines(q)
      /\ \A i, j \in 1 .. Len(p) : i < j /\ p[j].type = "found" => p[i].id < p[j].id
  BY FewerLines DEF Feed, Moves
<1>2. \A m : (Heard(p, "found", m) => Heard(q, "found", m))
             /\ (Heard(p, "started", m) => Heard(q, "started", m))
             /\ (Heard(p, "result", m) => Heard(q, "result", m))
  BY <1>1 DEF Heard
<1>3. /\ t.pending.id \in {s.pending.id, 0} /\ t.active.id \in {s.pending.id, s.active.id, 0}
      /\ t.result.id \in {s.result.id, s.active.id, s.pending.id, 0}
  BY BlankIs DEF Moves
<1>4. ASSUME NEW x \in Lines(p), x.type = "found"
      PROVE  /\ t.pending.id < x.id /\ t.active.id < x.id /\ t.result.id < x.id
             /\ \A y \in Lines(t.up) : y.id < x.id
  <2>1. /\ s.pending.id < x.id /\ s.active.id < x.id /\ s.result.id < x.id
        /\ \A y \in Lines(s.up) : y.id < x.id
    BY <1>1, <1>4 DEF Feed
  <2>2. x.id \in Nat /\ 0 < x.id
    <3>1. x.id \in Nat
      <4>1. PICK i \in 1 .. Len(p) : x = p[i]
        BY <1>4 DEF Lines
      <4>2. p[i] \in DownLine
        BY <1>1
      <4> QED BY <4>1, <4>2 DEF DownLine, Line
    <3> QED BY <2>1, <3>1, StateIs
  <2>3. \A y \in Lines(t.up) :
            y \in Lines(s.up) \/ y.id \in {s.pending.id, s.active.id, s.result.id, 0}
    BY DEF Moves
  <2> QED BY <1>3, <2>1, <2>2, <2>3
<1>5. Feed(t, p, a)
  BY <1>1, <1>4 DEF Feed
<1>6. ASSUME NEW m \in Nat \ {0}, Evidence(t, p, m)
      PROVE  Evidence(s, q, m)
  <2>1. CASE t.pending.committed /\ t.pending.id = m
    BY <2>1, <1>6, BlankIs DEF Evidence, Moves
  <2>2. CASE t.active.id = m
    BY <2>2, <1>6 DEF Evidence, Moves
  <2>3. CASE Heard(t.up, "end", m)
    <3>1. PICK x \in Lines(t.up) : x.type = "end" /\ x.id = m
      BY <2>3 DEF Heard
    <3>2. x \in Lines(s.up) \/ x.id = s.active.id
      BY <3>1 DEF Moves
    <3> QED BY <3>1, <3>2 DEF Evidence, Heard
  <2>4. CASE Heard(p, "started", m) \/ Heard(p, "result", m)
    BY <2>4, <1>2 DEF Evidence
  <2> QED BY <1>6, <2>1, <2>2, <2>3, <2>4 DEF Evidence
<1>7. ASSUME NEW m \in Nat \ {0}, Passed(s, q, m)
      PROVE  Passed(t, p, m)
  BY <1>2, <1>7, BlankIs DEF Passed, Moves
<1> QED BY <1>1, <1>3, <1>5, <1>6, <1>7

LEMMA WorldParts ==
    ASSUME NEW k, NEW dn, NEW sv, NEW r, World(k, dn, sv, r)
    PROVE  /\ ServerSane(sv, r) /\ sv \in ServerState /\ sv.id \in Nat \ {0} /\ r \in Winner
           /\ k \in [Client -> ClientState] /\ dn \in [Client -> Seq(DownLine)]
           /\ \A c \in Client : /\ k[c] \in ClientState /\ Mine(c, k[c], dn[c], sv, r)
                                /\ Own(k[c], sv.id, r) /\ Feed(k[c], dn[c], sv.id)
           /\ \A c, d \in Client : Ours(k[c], dn[c], k[d], dn[d], sv.id, r)
<1>1. ServerSane(sv, r) /\ sv \in ServerState /\ r \in Winner
  BY DEF World, ServerSane
<1>2. sv.id \in Nat \ {0}
  BY <1>1 DEF ServerState
<1>3. \A c \in Client : Own(k[c], sv.id, r) /\ Feed(k[c], dn[c], sv.id)
  BY DEF World, Mine
<1> QED BY <1>1, <1>2, <1>3 DEF World

LEMMA MineMoves ==
    ASSUME NEW c \in Client, NEW s \in ClientState, NEW t \in ClientState, NEW q, NEW p,
           NEW sv, NEW r, ServerSane(sv, r), Mine(c, s, q, sv, r),
           Moves(s, q, t, p, r), Own(t, sv.id, r)
    PROVE  Mine(c, t, p, sv, r)
<1>1. sv.id \in Nat \ {0} /\ Feed(s, q, sv.id)
  BY DEF Mine, ServerSane, ServerState
<1>2. /\ Feed(t, p, sv.id) /\ Lines(p) \subseteq Lines(q)
      /\ Evidence(t, p, sv.id) => Evidence(s, q, sv.id)
      /\ Passed(s, q, sv.id) => Passed(t, p, sv.id)
      /\ t.pending.id # 0 => t.pending.id = s.pending.id
  BY <1>1, FeedMoves
<1>3. t.pending.id # 0 /\ Idle(s) => Idle(t)
  BY DEF Idle, Moves
<1>4. \A type, m : Heard(p, type, m) => Heard(q, type, m)
  BY <1>2 DEF Heard
<1>5. Evidence(t, p, sv.id) => sv.phase # "setup"
  BY <1>2 DEF Mine
<1>6. Resolved(sv) => Passed(t, p, sv.id)
  BY <1>2 DEF Mine
<1>7. t.pending.id # 0 /\ (t.pending.committed \/ Heard(p, "started", t.pending.id)) =>
          t.pending.id = sv.id /\ Idle(t) /\ c \notin sv.queue
  <2>1. t.pending.id # 0 /\ t.pending.committed =>
            s.pending.committed \/ Heard(q, "started", s.pending.id)
    BY BlankIs DEF Moves
  <2> QED BY <1>2, <1>3, <1>4, <2>1 DEF Mine
<1>8. c \in sv.ready => Passed(t, p, sv.id) /\ (t.pending.id = sv.id => Idle(t))
  BY <1>1, <1>2, <1>3 DEF Mine
<1>9. c \in sv.votes => t.pending.id # sv.id /\ ~ Heard(p, "found", sv.id)
  BY <1>1, <1>2, <1>4 DEF Mine
<1> QED BY <1>2, <1>5, <1>6, <1>7, <1>8, <1>9 DEF Mine

\* A client that moves, before and after, as the one that shows the sign of a
\* match and as the one that must have got past its setup.
LEMMA OursMoves ==
    ASSUME NEW s \in ClientState, NEW t \in ClientState, NEW q, NEW p, NEW a \in Nat \ {0}, NEW r,
           Feed(s, q, a), Moves(s, q, t, p, r), Honest(t, a, r)
    PROVE  /\ \A u, o : Ours(s, q, u, o, a, r) => Ours(t, p, u, o, a, r)
           /\ \A u, o : Ours(u, o, s, q, a, r) => Ours(u, o, t, p, a, r)
<1>1. /\ \A m \in 1 .. a : Evidence(t, p, m) => Evidence(s, q, m)
      /\ \A m \in 1 .. a : Passed(s, q, m) => Passed(t, p, m)
      /\ t.pending.id # 0 => t.pending.id = s.pending.id
  <2>1. 1 .. a \subseteq Nat \ {0} /\ a \in Nat
    OBVIOUS
  <2> QED BY <2>1, FeedMoves
<1>2. ASSUME (t.active.id = a /\ r # NoOne) \/ Heard(t.up, "end", a)
      PROVE  (s.active.id = a /\ r # NoOne) \/ Heard(s.up, "end", a)
  <2>1. CASE t.active.id = a /\ r # NoOne
    BY <2>1 DEF Moves
  <2>2. CASE Heard(t.up, "end", a)
    <3>1. PICK x \in Lines(t.up) : x.type = "end" /\ x.id = a
      BY <2>2 DEF Heard
    <3>2. r # NoOne
      BY <3>1 DEF Honest
    <3>3. x \in Lines(s.up) \/ x.id = s.active.id
      BY <3>1 DEF Moves
    <3> QED BY <3>1, <3>2, <3>3 DEF Heard
  <2> QED BY <1>2, <2>1, <2>2
<1>3. ASSUME NEW u, NEW o, Ours(s, q, u, o, a, r)
      PROVE  Ours(t, p, u, o, a, r)
  BY <1>1, <1>2, <1>3 DEF Ours
<1>4. ASSUME NEW u, NEW o, Ours(u, o, s, q, a, r)
      PROVE  Ours(u, o, t, p, a, r)
  BY <1>1, <1>4 DEF Ours
<1> QED BY <1>3, <1>4

\* The world with one client, and what is on its way to it, changed.
LEMMA WorldAt ==
    ASSUME NEW k, NEW dn, NEW sv, NEW r, World(k, dn, sv, r),
           NEW c \in Client, NEW t, NEW p, Mine(c, t, p, sv, r),
           Ours(t, p, t, p, sv.id, r),
           \A d \in Client \ {c} : /\ Ours(k[d], dn[d], t, p, sv.id, r)
                                   /\ Ours(t, p, k[d], dn[d], sv.id, r)
    PROVE  World([k EXCEPT ![c] = t], [dn EXCEPT ![c] = p], sv, r)
<1> DEFINE k2 == [k EXCEPT ![c] = t]
           dn2 == [dn EXCEPT ![c] = p]
<1>1. /\ k \in [Client -> ClientState] /\ dn \in [Client -> Seq(DownLine)]
      /\ ServerSane(sv, r)
      /\ \A d \in Client : Mine(d, k[d], dn[d], sv, r)
      /\ \A d, e \in Client : Ours(k[d], dn[d], k[e], dn[e], sv.id, r)
  BY WorldParts
<1>2. t \in ClientState /\ p \in Seq(DownLine)
  BY DEF Mine, Own, Honest, Feed
<1>3. /\ k2 \in [Client -> ClientState] /\ dn2 \in [Client -> Seq(DownLine)]
      /\ k2[c] = t /\ dn2[c] = p
      /\ \A d \in Client \ {c} : k2[d] = k[d] /\ dn2[d] = dn[d]
  BY <1>1, <1>2
<1> HIDE DEF k2, dn2
<1>4. \A d \in Client : Mine(d, k2[d], dn2[d], sv, r)
  <2> TAKE d \in Client
  <2>1. CASE d = c
    BY <1>3, <2>1
  <2>2. CASE d # c
    BY <1>1, <1>3, <2>2
  <2> QED BY <2>1, <2>2
<1>5. \A d, e \in Client : Ours(k2[d], dn2[d], k2[e], dn2[e], sv.id, r)
  <2> TAKE d, e \in Client
  <2>1. CASE d = c /\ e = c
    BY <1>3, <2>1
  <2>2. CASE d = c /\ e # c
    BY <1>3, <2>2
  <2>3. CASE d # c /\ e = c
    BY <1>3, <2>3
  <2>4. CASE d # c /\ e # c
    BY <1>1, <1>3, <2>4
  <2> QED BY <2>1, <2>2, <2>3, <2>4
<1>6. World(k2, dn2, sv, r)
  BY <1>1, <1>3, <1>4, <1>5 DEF World
<1> QED BY <1>6 DEF k2, dn2

LEMMA WorldMoves ==
    ASSUME NEW k, NEW dn, NEW sv, NEW r, World(k, dn, sv, r),
           NEW c \in Client, NEW t, NEW p, Moves(k[c], dn[c], t, p, r), Own(t, sv.id, r)
    PROVE  World([k EXCEPT ![c] = t], [dn EXCEPT ![c] = p], sv, r)
<1>1. /\ ServerSane(sv, r) /\ sv.id \in Nat \ {0}
      /\ k[c] \in ClientState /\ Mine(c, k[c], dn[c], sv, r) /\ Feed(k[c], dn[c], sv.id)
      /\ \A d, e \in Client : Ours(k[d], dn[d], k[e], dn[e], sv.id, r)
  BY WorldParts
<1>2. t \in ClientState /\ Honest(t, sv.id, r)
  BY DEF Own, Honest
<1>3. Mine(c, t, p, sv, r)
  BY <1>1, <1>2, MineMoves
<1>4. /\ \A u, o : Ours(k[c], dn[c], u, o, sv.id, r) => Ours(t, p, u, o, sv.id, r)
      /\ \A u, o : Ours(u, o, k[c], dn[c], sv.id, r) => Ours(u, o, t, p, sv.id, r)
  BY <1>1, <1>2, OursMoves
<1>5. Ours(t, p, t, p, sv.id, r)
  BY <1>1, <1>4
<1>6. \A d \in Client : /\ Ours(k[d], dn[d], t, p, sv.id, r)
                        /\ Ours(t, p, k[d], dn[d], sv.id, r)
  BY <1>1, <1>4
<1> QED BY <1>3, <1>5, <1>6, WorldAt

-----------------------------------------------------------------------------
(* What the client's helpers make of its state. *)

\* Only the screen, and what is asked of it, has changed.
Alike(s, t) ==
    /\ t \in ClientState /\ t.up = s.up /\ t.pending = s.pending /\ t.net = s.net
    /\ t.active.id = s.active.id /\ t.active.reported = s.active.reported
    /\ t.seen = s.seen /\ t.correcting = s.correcting /\ t.result.id = s.result.id

LEMMA AlikeKeeps ==
    ASSUME NEW s, NEW t, NEW a, NEW r, Alike(s, t)
    PROVE  /\ Step(s, t)
           /\ Honest(s, a, r) => Honest(t, a, r)
           /\ Own(s, a, r) => Own(t, a, r)
<1>1. Step(s, t)
  BY DEF Alike, Step
<1>2. Honest(s, a, r) => Honest(t, a, r)
  BY DEF Alike, Honest
<1>3. SetUp(s) => SetUp(t)
  BY DEF Alike, SetUp, InSetup
<1>4. Shown(s, a, r) => Shown(t, a, r)
  BY DEF Alike, Shown
<1> QED BY <1>1, <1>2, <1>3, <1>4 DEF Own

\* The reports it has added are true.
SaysSo(s, t, a, r) ==
    \A x \in Lines(t.up) \ Lines(s.up) :
        x.type = "end" /\ x.id = a => x.winner = r /\ r # NoOne

LEMMA HonestStep ==
    ASSUME NEW s, NEW t, t \in ClientState, NEW a, a \in Nat, NEW r,
           Honest(s, a, r), Step(s, t), SaysSo(s, t, a, r)
    PROVE  Honest(t, a, r)
<1>1. /\ s.pending.id <= a /\ s.active.id <= a /\ s.result.id <= a /\ 0 <= a
      /\ \A x \in Lines(s.up) :
            x.id <= a /\ (x.type = "end" /\ x.id = a => x.winner = r /\ r # NoOne)
  BY DEF Honest
<1>2. t.pending.id \in {s.pending.id, 0}
  BY BlankIs DEF Step
<1>3. /\ t.active.id \in {s.active.id, 0}
      /\ t.result.id \in {s.result.id, s.active.id, s.pending.id, 0}
      /\ \A x \in Lines(t.up) :
            x \in Lines(s.up) \/ x.id \in {s.pending.id, s.active.id, s.result.id, 0}
  BY DEF Step
<1>4. t.pending.id <= a /\ t.active.id <= a /\ t.result.id <= a
  BY <1>1, <1>2, <1>3
<1>5. ASSUME NEW x \in Lines(t.up)
      PROVE  x.id <= a /\ (x.type = "end" /\ x.id = a => x.winner = r /\ r # NoOne)
  <2>1. CASE x \in Lines(s.up)
    BY <1>1, <2>1
  <2>2. CASE x \notin Lines(s.up)
    BY <1>1, <1>3, <2>2 DEF SaysSo
  <2> QED BY <2>1, <2>2
<1> QED BY <1>4, <1>5 DEF Honest

\* With no match in setup, and none in play that may still be reported.
LEMMA ToldIsOwn ==
    ASSUME NEW t, NEW a \in Nat \ {0}, NEW r, Honest(t, a, r), t.pending = NoPending,
           t.active.id # a \/ t.active.reported
    PROVE  Own(t, a, r)
<1>1. SetUp(t)
  BY BlankIs DEF SetUp
<1> QED BY <1>1 DEF Own, Shown

LEMMA SendLineIs ==
    ASSUME NEW s \in ClientState, NEW type \in UpType, NEW m \in Nat, NEW w \in Winner,
           NEW t, t = SendLine(s, type, m, w)
    PROVE  /\ t \in ClientState
           /\ t.link = s.link /\ t.screen = s.screen /\ t.opening = s.opening
           /\ t.queued = s.queued /\ t.pending = s.pending /\ t.tries = s.tries
           /\ t.net = s.net /\ t.active = s.active /\ t.seen = s.seen
           /\ t.correcting = s.correcting /\ t.result = s.result
           /\ \A x \in Lines(t.up) :
                 x \in Lines(s.up) \/ (x.type = type /\ x.id = m /\ x.winner = w)
           /\ type # "queue" => \A n : NoQueueAfter(s.up, n) => NoQueueAfter(t.up, n)
<1> DEFINE x == Message(type, m, w, "none")
<1>1. x \in UpLine /\ x.type = type /\ x.id = m /\ x.winner = w
  BY DEF Message, UpLine, Line, Offer
<1>2. s.up \in Seq(UpLine)
  BY StateIs
<1> HIDE DEF x
<1>3. CASE s.link
  <2>1. t = [s EXCEPT !.up = Append(s.up, x)]
    BY <1>3 DEF SendLine, x
  <2>2. Append(s.up, x) \in Seq(UpLine) /\ Lines(Append(s.up, x)) = Lines(s.up) \cup {x}
    BY <1>1, <1>2, LinesOfAppend
  <2>3. /\ t \in ClientState /\ t.up = Append(s.up, x)
        /\ t.link = s.link /\ t.screen = s.screen /\ t.opening = s.opening
        /\ t.queued = s.queued /\ t.pending = s.pending /\ t.tries = s.tries
        /\ t.net = s.net /\ t.active = s.active /\ t.seen = s.seen
        /\ t.correcting = s.correcting /\ t.result = s.result
    BY <2>1, <2>2 DEF ClientState
  <2>4. ASSUME type # "queue", NEW n, NoQueueAfter(s.up, n)
        PROVE  NoQueueAfter(t.up, n)
    <3>1. NoQueueAfter(Append(s.up, x), n)
      BY <1>1, <1>2, <2>4, NoQueueInAppend
    <3> QED BY <2>3, <3>1
  <2>5. \A y \in Lines(t.up) : y \in Lines(s.up) \/ y = x
    BY <2>2, <2>3
  <2> QED BY <1>1, <2>3, <2>4, <2>5
<1>4. CASE ~ s.link
  BY <1>4 DEF SendLine
<1> QED BY <1>3, <1>4

LEMMA SendLineOrder ==
    ASSUME NEW s \in ClientState, NEW type \in UpType, NEW m \in Nat, NEW w \in Winner,
           type # "queue", NEW n, NoQueueAfter(s.up, n)
    PROVE  NoQueueAfter(SendLine(s, type, m, w).up, n)
<1> DEFINE t == SendLine(s, type, m, w)
<1>1. type # "queue" => \A i : NoQueueAfter(s.up, i) => NoQueueAfter(t.up, i)
  BY SendLineIs
<1> HIDE DEF t
<1>2. NoQueueAfter(t.up, n)
  BY <1>1
<1> QED BY <1>2 DEF t

LEMMA OpenHubIs ==
    ASSUME NEW s \in ClientState
    PROVE  Alike(s, OpenHub(s))
<1>1. [s EXCEPT !.opening = TRUE] \in ClientState
  BY DEF ClientState
<1>2. Alike(s, [s EXCEPT !.opening = TRUE])
  BY <1>1 DEF Alike, ClientState
<1>3. Alike(s, s)
  BY DEF Alike
<1> QED BY <1>2, <1>3 DEF OpenHub

LEMMA ReturnToHubIs ==
    ASSUME NEW s \in ClientState
    PROVE  Alike(s, ReturnToHub(s))
  BY DEF ReturnToHub, OpenHub, Alike, ClientState

LEMMA StopNetIs ==
    ASSUME NEW s \in ClientState
    PROVE  LET t == StopNet(s)
           IN /\ t \in ClientState /\ t.net = "off" /\ ~ t.correcting
              /\ t.link = s.link /\ t.up = s.up /\ t.screen = s.screen
              /\ t.pending = s.pending /\ t.active = s.active /\ t.seen = s.seen
              /\ t.result = s.result
  BY DEF StopNet, ClientState

LEMMA ClearMatchIs ==
    ASSUME NEW s \in ClientState
    PROVE  LET t == ClearMatch(s)
           IN /\ t \in ClientState /\ t.pending = NoPending /\ t.active = NoActive
              /\ t.up = s.up /\ t.result = s.result /\ t.net = s.net /\ t.seen = s.seen
  BY BlankIs DEF ClearMatch, ClientState

LEMMA ProvisionalIs ==
    ASSUME NEW s \in ClientState, NEW w \in Winner
    PROVE  LET t == Provisional(s, w)
           IN /\ t \in ClientState /\ t.result.id = s.active.id /\ t.up = s.up
              /\ t.pending = s.pending /\ t.active = s.active /\ t.net = s.net
              /\ t.seen = s.seen /\ t.correcting = s.correcting /\ t.screen = s.screen
  BY StateIs, BlankIs DEF Provisional, ClientState

\* A match given up: whatever was said and shown of it, nothing is left to report.
LEMMA GivenUp ==
    ASSUME NEW s, NEW t, NEW a \in Nat \ {0}, NEW r, Honest(s, a, r),
           t \in ClientState, t.up = s.up, t.pending = NoPending, t.active = NoActive,
           t.result.id \in {s.result.id, s.active.id, s.pending.id, 0}
    PROVE  Step(s, t) /\ Own(t, a, r)
<1>1. Step(s, t)
  BY BlankIs DEF Step
<1>2. Honest(t, a, r)
  <2>1. a \in Nat /\ SaysSo(s, t, a, r)
    BY DEF SaysSo
  <2> QED BY <1>1, <2>1, HonestStep
<1> QED BY <1>1, <1>2, ToldIsOwn, BlankIs

LEMMA AbortSetupKeeps ==
    ASSUME NEW s \in ClientState, NEW a \in Nat \ {0}, NEW r, Honest(s, a, r)
    PROVE  Step(s, AbortSetup(s)) /\ Own(AbortSetup(s), a, r)
<1> DEFINE t == SendLine(s, "abort", s.pending.id, NoOne)
           u == StopNet(t)
           v == ClearMatch(u)
<1>1. s.pending.id \in Nat /\ NoOne \in Winner /\ "abort" \in UpType
  BY StateIs DEF Winner, UpType
<1>2. /\ t \in ClientState /\ t.pending = s.pending /\ t.active = s.active
      /\ t.result = s.result
      /\ \A x \in Lines(t.up) :
            x \in Lines(s.up) \/ (x.type = "abort" /\ x.id = s.pending.id)
  BY <1>1, SendLineIs
<1> HIDE DEF t
<1>3. Step(s, t)
  BY <1>2 DEF Step
<1>4. Honest(t, a, r)
  <2>1. a \in Nat /\ SaysSo(s, t, a, r)
    BY <1>2 DEF SaysSo
  <2> QED BY <1>2, <1>3, <2>1, HonestStep
<1>5. u \in ClientState /\ u.up = t.up /\ u.result = t.result
  BY <1>2, StopNetIs
<1> HIDE DEF u
<1>6. /\ v \in ClientState /\ v.pending = NoPending /\ v.active = NoActive
      /\ v.up = t.up /\ v.result = t.result
  BY <1>5, ClearMatchIs
<1> HIDE DEF v
<1>7. Step(t, v) /\ Own(v, a, r)
  BY <1>4, <1>6, GivenUp
<1>8. Alike(v, OpenHub(v))
  BY <1>6, OpenHubIs
<1>9. Step(v, OpenHub(v)) /\ Own(OpenHub(v), a, r)
  BY <1>7, <1>8, AlikeKeeps
<1>10. OpenHub(v).pending = NoPending
  BY <1>6, <1>8 DEF Alike
<1>11. Step(s, OpenHub(v))
  BY <1>3, <1>6, <1>7, <1>9, <1>10, StepAgain
<1>12. AbortSetup(s) = OpenHub(v)
  BY DEF AbortSetup, v, u, t
<1> QED BY <1>9, <1>11, <1>12

-----------------------------------------------------------------------------
(* A hook keeps what a client knows, and takes up no match. *)
Keeps(s, t, a, r) == Step(s, t) /\ Own(t, a, r)

LEMMA OwnIs ==
    ASSUME NEW s, NEW a, NEW r, Own(s, a, r)
    PROVE  /\ s \in ClientState /\ Honest(s, a, r) /\ SetUp(s) /\ Shown(s, a, r)
           /\ s.pending.id = 0 => s.pending = NoPending
           /\ s.pending.id # 0 => InSetup(s)
           /\ s.pending.id # 0 /\ s.active.id # 0 => s.pending.stage = "link"
  BY DEF Own, Honest, SetUp, InSetup

LEMMA KeepsAgain ==
    ASSUME NEW s, NEW t, NEW u, NEW a, NEW r, Step(s, t), Keeps(t, u, a, r)
    PROVE  Keeps(s, u, a, r)
<1>1. Step(t, u) /\ Own(u, a, r)
  BY DEF Keeps
<1>2. u.pending.id = 0 => u.pending = NoPending
  BY <1>1, OwnIs
<1> QED BY <1>1, <1>2, StepAgain DEF Keeps

LEMMA AlikeAgain ==
    ASSUME NEW s, NEW t, NEW u, NEW a, NEW r, Keeps(s, t, a, r), Alike(t, u)
    PROVE  Keeps(s, u, a, r)
<1>1. Step(s, t) /\ Keeps(t, u, a, r)
  BY AlikeKeeps DEF Keeps
<1> QED BY <1>1, KeepsAgain

\* It may be a match in setup of which nothing is shown any more, or none.
LEMMA SetUpStays ==
    ASSUME NEW s, NEW t, SetUp(s), t.pending = s.pending,
           t.active.id = s.active.id, t.result.id \in {s.result.id, s.active.id, 0},
           t.correcting => s.correcting, t.seen = s.seen \/ t.seen = NoOne,
           t.net = s.net \/ s.pending.stage = "link",
           s.pending.id \in Nat,
           \A x \in Lines(t.up) : x \in Lines(s.up) \/ x.id < s.pending.id \/ s.pending.id = 0,
           \A n : NoQueueAfter(s.up, n) => NoQueueAfter(t.up, n)
    PROVE  SetUp(t)
<1>1. CASE s.pending.id = 0
  BY <1>1 DEF SetUp
<1>2. CASE s.pending.id # 0
  <2>1. InSetup(s)
    BY <1>2 DEF SetUp
  <2>2. /\ t.active.id < t.pending.id /\ t.result.id < t.pending.id /\ ~ t.correcting
        /\ t.pending.stage # "link" => t.net = "linked" /\ t.active.id = 0 /\ t.seen = NoOne
    BY <1>2, <2>1 DEF InSetup
  <2>3. ASSUME NEW x \in Lines(t.up), x.id = t.pending.id
        PROVE  x.type = "started" /\ t.pending.stage = "ready"
    <3>1. ~ x.id < s.pending.id
      BY <2>3
    <3> QED BY <1>2, <2>1, <2>3, <3>1 DEF InSetup
  <2>4. NoQueueAfter(t.up, t.pending.id)
    BY <2>1 DEF InSetup
  <2>5. InSetup(t)
    BY <2>2, <2>3, <2>4 DEF InSetup
  <2> QED BY <2>5 DEF SetUp
<1> QED BY <1>1, <1>2

LEMMA PollCompletionKeeps ==
    ASSUME NEW s, NEW t, NEW a \in Nat \ {0}, NEW r, Own(s, a, r), t = PollCompletion(s)
    PROVE  /\ Keeps(s, t, a, r)
           /\ t.pending = s.pending /\ t.net = s.net /\ t.active.id = s.active.id
           /\ t.screen = s.screen /\ t.correcting = s.correcting
           /\ t = s \/ t.active.reported
<1>0. /\ s \in ClientState /\ Honest(s, a, r) /\ SetUp(s) /\ Shown(s, a, r)
      /\ s.pending.id # 0 => s.active.id < s.pending.id
      /\ s.pending.id # 0 /\ s.active.id # 0 => s.pending.stage = "link"
  BY OwnIs DEF InSetup
<1>1. CASE s.active.id = 0 \/ s.active.reported \/ s.correcting \/ s.seen = NoOne
  <2>1. t = s
    BY <1>1 DEF PollCompletion
  <2> QED BY <2>1, StepSelf DEF Keeps
<1>2. CASE ~ (s.active.id = 0 \/ s.active.reported \/ s.correcting \/ s.seen = NoOne)
  <2> DEFINE u == SendLine(s, "end", s.active.id, s.seen)
             v == [u EXCEPT !.active.reported = TRUE, !.active.awaiting = TRUE]
  <2>1. "end" \in UpType /\ s.active.id \in Nat /\ s.seen \in Winner /\ s.pending.id \in Nat
    BY <1>0, StateIs DEF UpType
  <2>2. /\ u \in ClientState /\ u.pending = s.pending /\ u.net = s.net
        /\ u.active = s.active /\ u.screen = s.screen /\ u.seen = s.seen
        /\ u.correcting = s.correcting /\ u.result = s.result
        /\ \A x \in Lines(u.up) : \/ x \in Lines(s.up)
                                  \/ /\ x.type = "end" /\ x.id = s.active.id
                                     /\ x.winner = s.seen
    BY <1>0, <2>1, SendLineIs
  <2>20. ASSUME NEW n, NoQueueAfter(s.up, n)
         PROVE  NoQueueAfter(u.up, n)
    BY <1>0, <2>1, <2>20, SendLineOrder
  <2> HIDE DEF u
  <2>3. /\ v \in ClientState /\ v.pending = u.pending /\ v.net = u.net /\ v.up = u.up
        /\ v.active.id = u.active.id /\ v.active.reported /\ v.screen = u.screen
        /\ v.seen = u.seen /\ v.correcting = u.correcting /\ v.result = u.result
    BY <2>2 DEF ClientState
  <2> HIDE DEF v
  <2>4. t = IF s.result.id = 0 THEN Provisional(v, s.seen) ELSE v
    BY <1>2 DEF PollCompletion, u, v
  <2>5. /\ t \in ClientState /\ t.pending = u.pending /\ t.net = u.net /\ t.up = u.up
        /\ t.active.id = u.active.id /\ t.active.reported /\ t.screen = u.screen
        /\ t.seen = u.seen /\ t.correcting = u.correcting
        /\ t.result.id \in {s.result.id, s.active.id}
    <3>1. CASE s.result.id = 0
      <4>1. t = Provisional(v, s.seen)
        BY <2>4, <3>1
      <4>2. /\ t \in ClientState /\ t.result.id = v.active.id /\ t.up = v.up
            /\ t.pending = v.pending /\ t.active = v.active /\ t.net = v.net
            /\ t.seen = v.seen /\ t.correcting = v.correcting /\ t.screen = v.screen
        BY <2>1, <2>3, <4>1, ProvisionalIs
      <4> QED BY <2>2, <2>3, <4>2
    <3>2. CASE s.result.id # 0
      BY <2>2, <2>3, <2>4, <3>2
    <3> QED BY <3>1, <3>2
  <2>6. Step(s, t)
    BY <1>2, <2>2, <2>5 DEF Step
  <2>7. Honest(t, a, r)
    <3>1. SaysSo(s, t, a, r)
      BY <1>0, <1>2, <2>2, <2>5 DEF SaysSo, Shown
    <3> QED BY <1>0, <2>5, <2>6, <3>1, HonestStep
  <2>8. SetUp(t)
    <3>1. \A x \in Lines(t.up) : x \in Lines(s.up) \/ x.id < s.pending.id \/ s.pending.id = 0
      BY <1>0, <2>2, <2>5
    <3> QED BY <1>0, <2>1, <2>2, <2>20, <2>5, <3>1, SetUpStays
  <2>9. Shown(t, a, r)
    BY <2>5 DEF Shown
  <2> QED BY <2>2, <2>5, <2>6, <2>7, <2>8, <2>9 DEF Keeps, Own
<1> QED BY <1>1, <1>2

LEMMA TransportFailureKeeps ==
    ASSUME NEW s, NEW a \in Nat \ {0}, NEW r, Own(s, a, r),
           s.active.id # 0 \/ s.pending.id = 0
    PROVE  Keeps(s, TransportFailure(s), a, r)
<1> DEFINE t == PollCompletion(s)
           f == SendLine(s, "failure", s.active.id, NoOne)
<1>0. s \in ClientState /\ Honest(s, a, r) /\ s.active.id \in Nat /\ s.pending.id \in Nat
  BY OwnIs, StateIs
<1>1. /\ Keeps(s, t, a, r) /\ t.pending = s.pending /\ t.active.id = s.active.id
      /\ t = s \/ t.active.reported
  BY PollCompletionKeeps
<1> HIDE DEF t
<1>2. CASE t.active.id = 0 \/ t.active.reported
  <2>1. Own(t, a, r) /\ t \in ClientState /\ Honest(t, a, r) /\ SetUp(t)
    BY <1>1, OwnIs DEF Keeps
  <2>2. /\ StopNet(t) \in ClientState /\ StopNet(t).up = t.up /\ ~ StopNet(t).correcting
        /\ StopNet(t).pending = t.pending /\ StopNet(t).active = t.active
        /\ StopNet(t).result = t.result /\ StopNet(t).seen = t.seen
    BY <2>1, StopNetIs
  <2>3. Step(t, StopNet(t))
    BY <2>2 DEF Step
  <2>4. Honest(StopNet(t), a, r)
    BY <2>1, <2>2 DEF Honest
  <2>5. t.pending.id = 0 \/ t.pending.stage = "link"
    BY <1>1, <2>1, OwnIs
  <2>6. SetUp(StopNet(t))
    BY <2>1, <2>2, <2>5 DEF SetUp, InSetup
  <2>7. Shown(StopNet(t), a, r)
    BY <1>2, <2>2 DEF Shown
  <2>8. Keeps(t, StopNet(t), a, r)
    BY <2>3, <2>4, <2>6, <2>7 DEF Keeps, Own
  <2>9. Keeps(s, StopNet(t), a, r)
    BY <1>1, <2>8, KeepsAgain DEF Keeps
  <2> QED BY <1>2, <2>9 DEF TransportFailure, t
<1>3. CASE ~ (t.active.id = 0 \/ t.active.reported)
  <2> DEFINE g == StopNet(f)
             h == Provisional(g, NoOne)
             i == ClearMatch(h)
  <2>1. NoOne \in Winner /\ "failure" \in UpType
    BY DEF Winner, UpType
  <2>2. /\ f \in ClientState /\ f.pending = s.pending /\ f.active = s.active
        /\ f.result = s.result
        /\ \A x \in Lines(f.up) :
              x \in Lines(s.up) \/ (x.type = "failure" /\ x.id = s.active.id)
    BY <1>0, <2>1, SendLineIs
  <2> HIDE DEF f
  <2>3. Step(s, f)
    BY <2>2 DEF Step
  <2>4. Honest(f, a, r)
    <3>1. a \in Nat /\ SaysSo(s, f, a, r)
      BY <2>2 DEF SaysSo
    <3> QED BY <1>0, <2>2, <2>3, <3>1, HonestStep
  <2>5. g \in ClientState /\ g.up = f.up /\ g.active = f.active
    BY <2>2, StopNetIs
  <2> HIDE DEF g
  <2>6. h \in ClientState /\ h.up = f.up /\ h.result.id = f.active.id
    BY <2>1, <2>5, ProvisionalIs
  <2> HIDE DEF h
  <2>7. /\ i \in ClientState /\ i.up = f.up /\ i.pending = NoPending /\ i.active = NoActive
        /\ i.result.id = f.active.id
    BY <2>6, ClearMatchIs
  <2> HIDE DEF i
  <2>8. Keeps(f, i, a, r)
    BY <2>4, <2>7, GivenUp DEF Keeps
  <2>9. Keeps(s, ReturnToHub(i), a, r)
    BY <2>3, <2>7, <2>8, KeepsAgain, AlikeAgain, ReturnToHubIs
  <2>10. TransportFailure(s) = ReturnToHub(i)
    BY <1>3 DEF TransportFailure, t, f, g, h, i
  <2> QED BY <2>9, <2>10
<1> QED BY <1>2, <1>3

LEMMA OpponentIs ==
    ASSUME NEW c \in Client
    PROVE  /\ Opponent(c) \in Client /\ Opponent(c) # c /\ Opponent(c) \in Winner
           /\ Client = {c, Opponent(c)}
<1>1. PICK a, b \in Client : a # b /\ Client = {a, b}
  BY ClientAssumption
<1>2. \E d \in Client : d # c
  BY <1>1
<1>3. Opponent(c) \in Client /\ Opponent(c) # c
  BY <1>2 DEF Opponent
<1> QED BY <1>1, <1>3 DEF Winner

LEMMA ForfeitKeeps ==
    ASSUME NEW c \in Client, NEW s, NEW a \in Nat \ {0}, NEW r, Own(s, a, r)
    PROVE  Keeps(s, Forfeit(c, s), a, r)
<1> DEFINE t == IF s.active.reported THEN s ELSE SendLine(s, "abort", s.active.id, NoOne)
           u == Provisional(StopNet(t), Opponent(c))
           v == [u EXCEPT !.active.reported = TRUE, !.pending = NoPending, !.tries = 0]
<1>0. /\ s \in ClientState /\ Honest(s, a, r) /\ s.active.id \in Nat
      /\ NoOne \in Winner /\ "abort" \in UpType
  BY OwnIs, StateIs DEF Winner, UpType
<1>1. /\ t \in ClientState /\ t.pending = s.pending /\ t.active = s.active
      /\ t.result = s.result
      /\ \A x \in Lines(t.up) :
            x \in Lines(s.up) \/ (x.type = "abort" /\ x.id = s.active.id)
  <2>1. CASE s.active.reported
    BY <1>0, <2>1
  <2>2. CASE ~ s.active.reported
    BY <1>0, <2>2, SendLineIs
  <2> QED BY <2>1, <2>2
<1> HIDE DEF t
<1>2. u \in ClientState /\ u.up = t.up /\ u.result.id = t.active.id /\ u.active = t.active
  <2>1. StopNet(t) \in ClientState /\ StopNet(t).up = t.up /\ StopNet(t).active = t.active
    BY <1>1, StopNetIs
  <2> QED BY <2>1, OpponentIs, ProvisionalIs
<1> HIDE DEF u
<1>3. /\ v \in ClientState /\ v.up = t.up /\ v.result.id = t.active.id
      /\ v.active.id = t.active.id /\ v.active.reported /\ v.pending = NoPending
  BY <1>2, BlankIs DEF ClientState
<1> HIDE DEF v
<1>4. Step(s, v)
  BY <1>1, <1>3 DEF Step
<1>5. Honest(v, a, r)
  <2>1. a \in Nat /\ SaysSo(s, v, a, r)
    BY <1>1, <1>3 DEF SaysSo
  <2> QED BY <1>0, <1>3, <1>4, <2>1, HonestStep
<1>6. Keeps(s, v, a, r)
  BY <1>3, <1>4, <1>5, ToldIsOwn DEF Keeps
<1>7. Forfeit(c, s) = ReturnToHub(v)
  BY DEF Forfeit, t, u, v
<1> QED BY <1>3, <1>6, <1>7, AlikeAgain, ReturnToHubIs

LEMMA ClearedKeeps ==
    ASSUME NEW s \in ClientState, NEW a \in Nat \ {0}, NEW r, Honest(s, a, r)
    PROVE  /\ Keeps(s, ClearMatch(StopNet(s)), a, r)
           /\ Keeps(s, OpenHub(ClearMatch(StopNet(s))), a, r)
<1> DEFINE t == StopNet(s)
           u == ClearMatch(t)
<1>1. t \in ClientState /\ t.up = s.up /\ t.result = s.result
  BY StopNetIs
<1> HIDE DEF t
<1>2. /\ u \in ClientState /\ u.up = s.up /\ u.result = s.result
      /\ u.pending = NoPending /\ u.active = NoActive
  BY <1>1, ClearMatchIs
<1> HIDE DEF u
<1>3. Keeps(s, u, a, r)
  BY <1>2, GivenUp DEF Keeps
<1>4. Keeps(s, OpenHub(u), a, r)
  BY <1>2, <1>3, AlikeAgain, OpenHubIs
<1> QED BY <1>3, <1>4 DEF u, t

LEMMA DisconnectedKeeps ==
    ASSUME NEW s, NEW a \in Nat \ {0}, NEW r, Own(s, a, r)
    PROVE  Keeps(s, Disconnected(s), a, r)
<1> DEFINE t == [s EXCEPT !.link = FALSE, !.queued = FALSE]
           interrupted == s.pending.id # 0 \/ (s.active.id # 0 /\ ~ s.active.reported)
<1>0. s \in ClientState /\ Honest(s, a, r) /\ SetUp(s) /\ Shown(s, a, r)
  BY OwnIs
<1>1. Alike(s, t) /\ t.active = s.active /\ t.result = s.result
  BY <1>0 DEF Alike, ClientState
<1>2. Keeps(s, t, a, r) /\ t \in ClientState /\ Honest(t, a, r)
  BY <1>0, <1>1, AlikeKeeps DEF Keeps, Alike
<1> HIDE DEF t
<1>3. CASE ~ interrupted
  <2> DEFINE kept == IF s.result.confirmed
                     THEN [s.result EXCEPT !.rematch = "none"] ELSE NoResult
             u == [t EXCEPT !.result = kept]
  <2>1. /\ kept \in [id : Nat, outcome : Winner, confirmed : BOOLEAN, rematch : Offer]
        /\ kept.id \in {s.result.id, 0}
    BY <1>0, StateIs, BlankIs DEF Offer
  <2> HIDE DEF kept
  <2>2. /\ u \in ClientState /\ u.up = t.up /\ u.pending = t.pending /\ u.active = t.active
        /\ u.seen = t.seen /\ u.correcting = t.correcting /\ u.result.id = kept.id
    BY <1>2, <2>1 DEF ClientState
  <2> HIDE DEF u
  <2>3. u.pending.id = 0 /\ u.pending = NoPending
    BY <1>0, <1>1, <1>3, <2>2, OwnIs DEF Alike
  <2>4. Step(t, u)
    BY <1>1, <2>1, <2>2, <2>3 DEF Step
  <2>5. Honest(u, a, r)
    <3>1. a \in Nat /\ SaysSo(t, u, a, r)
      BY <2>2 DEF SaysSo
    <3> QED BY <1>2, <2>2, <2>4, <3>1, HonestStep
  <2>6. SetUp(u)
    BY <2>3, BlankIs DEF SetUp
  <2>7. Shown(u, a, r)
    BY <1>0, <1>1, <2>2 DEF Shown, Alike
  <2>8. Keeps(t, u, a, r)
    BY <2>4, <2>5, <2>6, <2>7 DEF Keeps, Own
  <2>9. Disconnected(s) = u
    BY <1>3 DEF Disconnected, t, u, kept
  <2> QED BY <1>2, <2>8, <2>9, KeepsAgain DEF Keeps
<1>4. CASE interrupted /\ Presenting(s)
  <2> DEFINE v == [t EXCEPT !.active.awaiting = TRUE]
             w == PollCompletion(v)
             x == [w EXCEPT !.active.reported = TRUE]
  <2>1. Alike(t, v)
    BY <1>2 DEF Alike, ClientState
  <2> HIDE DEF v
  <2>2. Keeps(t, v, a, r) /\ Own(v, a, r)
    BY <1>2, <2>1, AlikeKeeps DEF Keeps
  <2>3. Keeps(v, w, a, r)
    BY <2>2, PollCompletionKeeps
  <2> HIDE DEF w
  <2>4. w \in ClientState /\ Honest(w, a, r) /\ SetUp(w) /\ w.pending.id \in Nat
    BY <2>3, OwnIs, StateIs DEF Keeps
  <2>5. /\ x \in ClientState /\ x.up = w.up /\ x.pending = w.pending /\ x.net = w.net
        /\ x.active.id = w.active.id /\ x.active.reported /\ x.seen = w.seen
        /\ x.correcting = w.correcting /\ x.result = w.result
    BY <2>4 DEF ClientState
  <2> HIDE DEF x
  <2>6. Step(w, x)
    BY <2>5 DEF Step
  <2>7. Honest(x, a, r)
    BY <2>4, <2>5 DEF Honest
  <2>8. SetUp(x)
    BY <2>4, <2>5, SetUpStays
  <2>9. Shown(x, a, r)
    BY <2>5 DEF Shown
  <2>10. Keeps(w, x, a, r)
    BY <2>6, <2>7, <2>8, <2>9 DEF Keeps, Own
  <2>11. Keeps(s, x, a, r)
    BY <1>2, <2>2, <2>3, <2>10, KeepsAgain DEF Keeps
  <2>12. Disconnected(s) = x
    BY <1>4 DEF Disconnected, t, v, w, x
  <2> QED BY <2>11, <2>12
<1>5. CASE interrupted /\ ~ Presenting(s)
  <2>1. Keeps(t, OpenHub(ClearMatch(StopNet(t))), a, r)
    BY <1>2, ClearedKeeps
  <2>2. Disconnected(s) = OpenHub(ClearMatch(StopNet(t)))
    BY <1>5 DEF Disconnected, t
  <2> QED BY <1>2, <2>1, <2>2, KeepsAgain DEF Keeps
<1> QED BY <1>3, <1>4, <1>5

\* What is on its way to the server may be lost with the connection.
LEMMA DropKeeps ==
    ASSUME NEW s, NEW a \in Nat \ {0}, NEW r, Own(s, a, r), NEW kept \in {<< >>, s.up}
    PROVE  Keeps(s, [Disconnected(s) EXCEPT
                        !.up = Append(kept, Message("close", 0, NoOne, "none"))], a, r)
<1> DEFINE u == Disconnected(s)
           x == Message("close", 0, NoOne, "none")
           t == [u EXCEPT !.up = Append(kept, x)]
<1>0. /\ s \in ClientState /\ Honest(s, a, r) /\ s.up \in Seq(UpLine)
      /\ s.pending.id # 0 => InSetup(s)
  BY OwnIs, StateIs
<1>1. x \in UpLine /\ x.type = "close" /\ x.id = 0
  BY DEF Message, UpLine, Line, UpType, Offer, Winner
<1> HIDE DEF x
<1>2. kept \in Seq(UpLine) /\ Lines(kept) \subseteq Lines(s.up)
  <2>1. CASE kept = s.up
    BY <1>0, <2>1
  <2>2. CASE kept = << >>
    <3>1. << >> \in Seq(UpLine)
      OBVIOUS
    <3> QED BY <2>2, <3>1, NoLines
  <2> QED BY <2>1, <2>2
<1>3. Append(kept, x) \in Seq(UpLine) /\ Lines(Append(kept, x)) = Lines(kept) \cup {x}
  BY <1>1, <1>2, LinesOfAppend
<1>4. Step(s, u) /\ Own(u, a, r)
  BY DisconnectedKeeps DEF Keeps
<1> HIDE DEF u
<1>5. u \in ClientState /\ SetUp(u) /\ Shown(u, a, r) /\ (u.pending.id # 0 => InSetup(u))
  BY <1>4, OwnIs
<1>6. /\ t \in ClientState /\ t.up = Append(kept, x) /\ t.pending = u.pending
      /\ t.net = u.net /\ t.active = u.active /\ t.seen = u.seen
      /\ t.correcting = u.correcting /\ t.result = u.result
  BY <1>3, <1>5 DEF ClientState
<1> HIDE DEF t
<1>7. \A y \in Lines(t.up) : y \in Lines(s.up) \/ y = x
  BY <1>2, <1>3, <1>6
<1>8. Step(s, t)
  BY <1>1, <1>4, <1>6, <1>7 DEF Step
<1>9. Honest(t, a, r)
  <2>1. a \in Nat /\ SaysSo(s, t, a, r)
    BY <1>1, <1>7 DEF SaysSo
  <2> QED BY <1>0, <1>6, <1>8, <2>1, HonestStep
<1>10. ASSUME t.pending.id # 0
       PROVE  InSetup(t)
  <2>1. /\ t.pending.id = s.pending.id
        /\ s.pending.stage = "ready" => t.pending.stage = "ready"
    BY <1>8, <1>10, BlankIs DEF Step
  <2>2. InSetup(s) /\ InSetup(u)
    BY <1>0, <1>5, <1>6, <1>10, <2>1
  <2>3. \A y \in Lines(t.up) : y.id = t.pending.id =>
            y.type = "started" /\ t.pending.stage = "ready"
    BY <1>1, <1>7, <1>10, <2>1, <2>2 DEF InSetup
  <2>4. NoQueueAfter(t.up, t.pending.id)
    <3>1. NoQueueAfter(kept, t.pending.id)
      <4>1. CASE kept = s.up
        BY <2>1, <2>2, <4>1 DEF InSetup
      <4>2. CASE kept = << >>
        <5>1. 1 .. Len(kept) = {}
          BY <4>2
        <5> QED BY <5>1 DEF NoQueueAfter
      <4> QED BY <4>1, <4>2
    <3>2. x.type # "queue"
      BY <1>1
    <3> QED BY <1>1, <1>2, <1>6, <3>1, <3>2, NoQueueInAppend
  <2> QED BY <1>6, <2>2, <2>3, <2>4 DEF InSetup
<1>11. SetUp(t)
  BY <1>5, <1>6, <1>10 DEF SetUp
<1>12. Shown(t, a, r)
  BY <1>5, <1>6 DEF Shown
<1>13. Keeps(s, t, a, r)
  BY <1>8, <1>9, <1>11, <1>12 DEF Keeps, Own
<1> QED BY <1>13 DEF t, u, x

-----------------------------------------------------------------------------
(* What the server's messages make of a client's state. *)

LEMMA CurrentIs ==
    ASSUME NEW s \in ClientState
    PROVE  /\ Current(s) \in {s.pending.id, s.active.id, s.result.id}
           /\ s.pending.id # 0 => Current(s) = s.pending.id
           /\ s.pending.id = 0 /\ s.active.id # 0 => Current(s) = s.active.id
  BY DEF Current

\* The server's commit finds a client that waits at its start barrier.
LEMMA MatchCommittedKeeps ==
    ASSUME NEW s, NEW q, NEW a \in Nat \ {0}, NEW r, Own(s, a, r),
           s.pending.id # 0 => s.pending.stage = "ready" /\ Heard(q, "started", s.pending.id),
           q # << >>
    PROVE  Moves(s, q, MatchCommitted(s), Tail(q), r) /\ Own(MatchCommitted(s), a, r)
<1>0. s \in ClientState /\ Honest(s, a, r) /\ SetUp(s) /\ Shown(s, a, r)
  BY OwnIs
<1>1. CASE s.pending.id = 0
  <2>1. MatchCommitted(s) = s
    BY <1>1 DEF MatchCommitted
  <2> QED BY <2>1, StepSelf, StepMoves
<1>2. CASE s.pending.id # 0
  <2> DEFINE t == [s EXCEPT !.pending.committed = TRUE]
  <2>1. /\ t \in ClientState /\ t.up = s.up /\ t.net = s.net /\ t.active = s.active
        /\ t.seen = s.seen /\ t.correcting = s.correcting /\ t.result = s.result
        /\ t.pending.id = s.pending.id /\ t.pending.stage = s.pending.stage
        /\ t.pending.committed
    BY <1>0 DEF ClientState
  <2> HIDE DEF t
  <2>2. Moves(s, q, t, Tail(q), r)
    BY <1>2, <2>1 DEF Moves
  <2>3. Honest(t, a, r) /\ Shown(t, a, r)
    BY <1>0, <2>1 DEF Honest, Shown
  <2>4. SetUp(t)
    BY <1>0, <1>2, <2>1 DEF SetUp, InSetup
  <2>5. MatchCommitted(s) = t
    BY <1>2 DEF MatchCommitted, t
  <2> QED BY <2>2, <2>3, <2>4, <2>5 DEF Own
<1> QED BY <1>1, <1>2

LEMMA MatchResultKeeps ==
    ASSUME NEW s, NEW m \in DownLine, NEW a \in Nat \ {0}, NEW r, Own(s, a, r),
           m.id = Current(s), s.pending.id # 0 => s.pending.stage = "ready"
    PROVE  Keeps(s, MatchResult(s, m), a, r)
<1> DEFINE atBarrier == s.pending.id # 0 /\ s.pending.committed
           rematch == IF m.rematch = "available" /\ s.result.rematch = "none" THEN "available"
                      ELSE IF m.rematch = "available" \/ s.result.rematch = "starting"
                      THEN s.result.rematch ELSE "none"
           news == [id |-> m.id, outcome |-> m.winner, confirmed |-> TRUE, rematch |-> rematch]
           shown == [s EXCEPT !.result = news]
           back == IF s.result.id = 0 THEN ReturnToHub(shown) ELSE shown
<1>0. s \in ClientState /\ Honest(s, a, r) /\ SetUp(s) /\ Shown(s, a, r)
  BY OwnIs
<1>1. m.id \in Nat /\ m.winner \in Winner /\ m.rematch \in Offer
  BY DEF DownLine, Line
<1>2. rematch \in Offer
  BY <1>0, StateIs DEF Offer
<1> HIDE DEF rematch
<1>3. /\ news \in [id : Nat, outcome : Winner, confirmed : BOOLEAN, rematch : Offer]
      /\ news.id = m.id
  BY <1>1, <1>2
<1> HIDE DEF news
<1>4. /\ shown \in ClientState /\ shown.up = s.up /\ shown.pending = s.pending
      /\ shown.net = s.net /\ shown.active = s.active /\ shown.seen = s.seen
      /\ shown.correcting = s.correcting /\ shown.result.id = m.id
  BY <1>0, <1>3 DEF ClientState
<1>5. m.id \in {s.pending.id, s.active.id, s.result.id}
  BY <1>0, CurrentIs
<1> HIDE DEF shown
<1>6. CASE s.result.id = 0 /\ s.active.id = 0 /\ ~ atBarrier
  <2>1. MatchResult(s, m) = s
    BY <1>6 DEF MatchResult
  <2> QED BY <2>1, StepSelf DEF Keeps
<1>7. CASE ~ (s.result.id = 0 /\ s.active.id = 0 /\ ~ atBarrier) /\ Presenting(s)
  <2> DEFINE t == [shown EXCEPT !.active.awaiting = TRUE]
  <2>1. s.pending.id = 0 /\ s.pending = NoPending
    BY <1>7, OwnIs DEF Presenting
  <2>2. /\ t \in ClientState /\ t.up = s.up /\ t.pending = s.pending
        /\ t.active.id = s.active.id /\ t.active.reported = s.active.reported
        /\ t.seen = s.seen /\ t.correcting = s.correcting /\ t.result.id = m.id
    BY <1>4 DEF ClientState
  <2> HIDE DEF t
  <2>3. Step(s, t)
    BY <1>5, <2>1, <2>2 DEF Step
  <2>4. Honest(t, a, r)
    <3>1. a \in Nat /\ SaysSo(s, t, a, r)
      BY <2>2 DEF SaysSo
    <3> QED BY <1>0, <2>2, <2>3, <3>1, HonestStep
  <2>5. SetUp(t)
    BY <2>1, <2>2, BlankIs DEF SetUp
  <2>6. Shown(t, a, r)
    BY <1>0, <2>2 DEF Shown
  <2>7. MatchResult(s, m) = t
    BY <1>7 DEF MatchResult, t, shown, news, rematch
  <2> QED BY <2>3, <2>4, <2>5, <2>6, <2>7 DEF Keeps, Own
<1>8. CASE ~ (s.result.id = 0 /\ s.active.id = 0 /\ ~ atBarrier) /\ ~ Presenting(s)
  <2> DEFINE t == ClearMatch(StopNet(back))
  <2>1. back \in ClientState /\ back.up = s.up /\ back.result.id = m.id
    BY <1>4, ReturnToHubIs DEF Alike
  <2> HIDE DEF back
  <2>2. StopNet(back) \in ClientState /\ StopNet(back).up = s.up
        /\ StopNet(back).result = back.result
    BY <2>1, StopNetIs
  <2>3. /\ t \in ClientState /\ t.up = s.up /\ t.pending = NoPending /\ t.active = NoActive
        /\ t.result.id = m.id
    BY <2>1, <2>2, ClearMatchIs
  <2> HIDE DEF t
  <2>4. Keeps(s, t, a, r)
    BY <1>0, <1>5, <2>3, GivenUp DEF Keeps
  <2>5. MatchResult(s, m) = t
    BY <1>8 DEF MatchResult, t, back, shown, news, rematch
  <2> QED BY <2>4, <2>5
<1> QED BY <1>6, <1>7, <1>8

LEMMA MatchAbortedKeeps ==
    ASSUME NEW s, NEW a \in Nat \ {0}, NEW r, Own(s, a, r)
    PROVE  Keeps(s, MatchAborted(s), a, r)
<1> DEFINE t == [s EXCEPT !.result = NoResult]
<1>0. /\ s \in ClientState /\ Honest(s, a, r) /\ SetUp(s) /\ Shown(s, a, r)
      /\ s.pending.id \in Nat
  BY OwnIs, StateIs
<1>1. /\ t \in ClientState /\ t.up = s.up /\ t.pending = s.pending /\ t.net = s.net
      /\ t.active = s.active /\ t.seen = s.seen /\ t.correcting = s.correcting
      /\ t.result.id = 0
  BY <1>0, BlankIs DEF ClientState
<1> HIDE DEF t
<1>2. Step(s, t)
  BY <1>1 DEF Step
<1>3. Honest(t, a, r)
  <2>1. a \in Nat /\ SaysSo(s, t, a, r)
    BY <1>1 DEF SaysSo
  <2> QED BY <1>0, <1>1, <1>2, <2>1, HonestStep
<1>4. SetUp(t)
  BY <1>0, <1>1, SetUpStays
<1>5. Shown(t, a, r)
  BY <1>0, <1>1 DEF Shown
<1>6. Keeps(s, t, a, r)
  BY <1>2, <1>3, <1>4, <1>5 DEF Keeps, Own
<1>7. CASE Presenting(s)
  <2>1. Alike(t, [t EXCEPT !.active.awaiting = TRUE])
    BY <1>1 DEF Alike, ClientState
  <2>2. MatchAborted(s) = [t EXCEPT !.active.awaiting = TRUE]
    BY <1>7 DEF MatchAborted, t
  <2> QED BY <1>6, <2>1, <2>2, AlikeAgain
<1>8. CASE ~ Presenting(s)
  <2>1. MatchAborted(s) = OpenHub(ClearMatch(StopNet(t)))
    BY <1>8 DEF MatchAborted, t
  <2>2. Keeps(t, OpenHub(ClearMatch(StopNet(t))), a, r)
    BY <1>1, <1>3, ClearedKeeps
  <2> QED BY <1>2, <2>1, <2>2, KeepsAgain
<1> QED BY <1>7, <1>8

LEMMA RematchNewsKeeps ==
    ASSUME NEW s, NEW m \in DownLine, NEW a \in Nat \ {0}, NEW r, Own(s, a, r)
    PROVE  Keeps(s, RematchNews(s, m), a, r)
<1>0. s \in ClientState /\ m.rematch \in Offer
  BY OwnIs DEF DownLine, Line
<1>1. Alike(s, [s EXCEPT !.result.rematch = m.rematch])
  BY <1>0 DEF Alike, ClientState
<1>2. Keeps(s, s, a, r)
  BY StepSelf DEF Keeps
<1> QED BY <1>1, <1>2, AlikeAgain DEF RematchNews

\* The next message, if it is no match found.
LEMMA HandleLineMoves ==
    ASSUME NEW s, NEW q, NEW a \in Nat \ {0}, NEW r, Own(s, a, r), Feed(s, q, a),
           q # << >>, Head(q).type # "found",
           \A m \in 1 .. a : Evidence(s, q, m) => Passed(s, q, m)
    PROVE  /\ Moves(s, q, HandleLine(s, Head(q)), Tail(q), r)
           /\ Own(HandleLine(s, Head(q)), a, r)
<1> DEFINE m == Head(q)
           t == HandleLine(s, m)
<1>0. /\ s \in ClientState /\ s.pending.id \in Nat /\ s.pending.id <= a
      /\ q \in Seq(DownLine) /\ m \in DownLine /\ m \in Lines(q)
  BY OwnIs, StateIs, LinesOfTail DEF Feed, Honest
<1> HIDE DEF m
<1>1. ASSUME NEW u, Keeps(s, u, a, r), t = u
      PROVE  Moves(s, q, t, Tail(q), r) /\ Own(t, a, r)
  BY <1>1, StepMoves DEF Keeps
<1>2. CASE m.id # Current(s)
  <2>1. t = s
    BY <1>2 DEF HandleLine
  <2>2. Keeps(s, s, a, r)
    BY StepSelf DEF Keeps
  <2> HIDE DEF t
  <2> QED BY <1>1, <2>1, <2>2 DEF t, m
<1>3. CASE m.id = Current(s)
  <2>1. s.pending.id # 0 => m.id = s.pending.id
    BY <1>0, <1>3, CurrentIs
  <2>2. ASSUME m.type \in {"started", "result"}, s.pending.id # 0
        PROVE  s.pending.stage = "ready" /\ Heard(q, m.type, s.pending.id)
    <3>1. Heard(q, m.type, s.pending.id)
      BY <1>0, <2>1, <2>2 DEF Heard
    <3>2. Evidence(s, q, s.pending.id) /\ s.pending.id \in 1 .. a
      BY <1>0, <2>2, <3>1 DEF Evidence
    <3>3. Passed(s, q, s.pending.id)
      BY <3>2
    <3> QED BY <3>1, <3>3 DEF Passed
  <2>3. CASE m.type = "started"
    <3>1. t = MatchCommitted(s)
      BY <1>3, <2>3 DEF HandleLine
    <3>2. s.pending.id # 0 => s.pending.stage = "ready" /\ Heard(q, "started", s.pending.id)
      BY <2>2, <2>3
    <3> HIDE DEF t
    <3>3. Moves(s, q, t, Tail(q), r) /\ Own(t, a, r)
      BY <3>1, <3>2, MatchCommittedKeeps
    <3> QED BY <3>3 DEF t, m
  <2>4. CASE m.type = "result"
    <3>1. t = MatchResult(s, m)
      BY <1>3, <2>4 DEF HandleLine
    <3> HIDE DEF t
    <3>2. Moves(s, q, t, Tail(q), r) /\ Own(t, a, r)
      BY <1>0, <1>1, <1>3, <2>2, <2>4, <3>1, MatchResultKeeps
    <3> QED BY <3>2 DEF t, m
  <2>5. CASE m.type = "abort"
    <3>1. t = MatchAborted(s)
      BY <1>3, <2>5 DEF HandleLine
    <3> HIDE DEF t
    <3>2. Moves(s, q, t, Tail(q), r) /\ Own(t, a, r)
      BY <1>1, <3>1, MatchAbortedKeeps
    <3> QED BY <3>2 DEF t, m
  <2>6. CASE m.type = "rematch"
    <3>1. t = RematchNews(s, m)
      BY <1>3, <2>6 DEF HandleLine
    <3> HIDE DEF t
    <3>2. Moves(s, q, t, Tail(q), r) /\ Own(t, a, r)
      BY <1>0, <1>1, <3>1, RematchNewsKeeps
    <3> QED BY <3>2 DEF t, m
  <2>7. m.type \in {"started", "result", "abort", "rematch"}
    BY <1>0 DEF DownLine, Line, DownType, m
  <2> QED BY <2>3, <2>4, <2>5, <2>6, <2>7
<1> QED BY <1>2, <1>3

-----------------------------------------------------------------------------
(* A match found. *)

\* The match found at the head of q is taken up, or given up at once.
Takes(s, q, t) ==
    /\ q # << >> /\ Head(q).type = "found"
    /\ \/ t.pending = NoPending
       \/ t.pending.id = Head(q).id /\ ~ t.pending.committed
    /\ t.active.id \in {s.active.id, 0} /\ t.result.id \in {s.result.id, 0}
    /\ \A x \in Lines(t.up) : x \in Lines(s.up) \/ (x.type = "abort" /\ x.id = Head(q).id)

LEMMA FoundIs ==
    ASSUME NEW s \in ClientState, NEW q, NEW a \in Nat \ {0}, Feed(s, q, a),
           q # << >>, Head(q).type = "found"
    PROVE  LET f == Head(q).id
           IN /\ f \in 1 .. a /\ s.pending.id < f /\ s.active.id < f /\ s.result.id < f
              /\ \A y \in Lines(s.up) : y.id < f
              /\ \A x \in Lines(Tail(q)) : x.type = "found" => f < x.id
              /\ \A n : Passed(s, q, n) => n # f
<1> DEFINE m == Head(q)
<1>1. /\ q \in Seq(DownLine) /\ m \in DownLine /\ m \in Lines(q) /\ 1 \in 1 .. Len(q)
      /\ m = q[1] /\ Len(q) \in Nat /\ Len(Tail(q)) = Len(q) - 1
      /\ \A i \in 1 .. Len(Tail(q)) : i + 1 \in 1 .. Len(q) /\ Tail(q)[i] = q[i + 1]
  BY LinesOfTail DEF Feed
<1>2. m.id \in Nat /\ m.id <= a /\ s.pending.id \in Nat
  BY <1>1, StateIs DEF Feed, DownLine, Line
<1>3. /\ s.pending.id < m.id /\ s.active.id < m.id /\ s.result.id < m.id
      /\ \A y \in Lines(s.up) : y.id < m.id
  BY <1>1 DEF Feed
<1>4. ASSUME NEW x \in Lines(Tail(q)), x.type = "found"
      PROVE  m.id < x.id
  <2>1. PICK i \in 1 .. Len(Tail(q)) : x = Tail(q)[i]
    BY <1>4 DEF Lines
  <2>2. i + 1 \in 1 .. Len(q) /\ x = q[i + 1] /\ 1 < i + 1
    BY <1>1, <2>1
  <2> QED BY <1>1, <1>4, <2>2 DEF Feed
<1>5. ASSUME NEW n, Passed(s, q, n)
      PROVE  n # m.id
  BY <1>1, <1>5 DEF Passed, Heard
<1> QED BY <1>2, <1>3, <1>4, <1>5

LEMMA FeedTakes ==
    ASSUME NEW s \in ClientState, NEW q, NEW t \in ClientState, NEW a \in Nat \ {0},
           Feed(s, q, a), Takes(s, q, t)
    PROVE  /\ Feed(t, Tail(q), a)
           /\ \A type, n : Heard(Tail(q), type, n) => Heard(q, type, n)
           /\ \A n \in 1 .. a : Evidence(t, Tail(q), n) => Evidence(s, q, n)
           /\ \A n \in 1 .. a : Passed(s, q, n) => Passed(t, Tail(q), n) /\ t.pending.id # n
           /\ t.pending.id # 0 => t.pending.id = Head(q).id /\ ~ t.pending.committed
<1> DEFINE p == Tail(q)
           f == Head(q).id
<1>1. /\ f \in 1 .. a /\ s.pending.id < f /\ s.active.id < f /\ s.result.id < f
      /\ \A y \in Lines(s.up) : y.id < f
      /\ \A x \in Lines(p) : x.type = "found" => f < x.id
      /\ \A n : Passed(s, q, n) => n # f
  BY FoundIs DEF Takes
<1>2. /\ p \in Seq(DownLine) /\ Lines(p) \subseteq Lines(q)
      /\ \A i, j \in 1 .. Len(p) : i < j /\ p[j].type = "found" => p[i].id < p[j].id
  BY FewerLines DEF Feed, Takes
<1>3. \A x \in Lines(p) : x.id \in Nat
  <2> TAKE x \in Lines(p)
  <2>1. PICK i \in 1 .. Len(p) : x = p[i]
    BY DEF Lines
  <2>2. p[i] \in DownLine
    BY <1>2
  <2> QED BY <2>1, <2>2 DEF DownLine, Line
<1>4. /\ t.pending.id \in {f, 0} /\ t.active.id \in {s.active.id, 0}
      /\ t.result.id \in {s.result.id, 0}
      /\ \A y \in Lines(t.up) : y \in Lines(s.up) \/ (y.type = "abort" /\ y.id = f)
      /\ t.pending.id # 0 => t.pending.id = f /\ ~ t.pending.committed
  BY BlankIs DEF Takes
<1>5. \A type, n : Heard(p, type, n) => Heard(q, type, n)
  BY <1>2 DEF Heard
<1> HIDE DEF p, f
<1>6. ASSUME NEW x \in Lines(p), x.type = "found"
      PROVE  /\ t.pending.id < x.id /\ t.active.id < x.id /\ t.result.id < x.id
             /\ \A y \in Lines(t.up) : y.id < x.id
  <2>1. f < x.id /\ x.id \in Nat /\ f \in Nat /\ 0 < x.id
    BY <1>1, <1>3, <1>6
  <2>2. s.active.id < x.id /\ s.result.id < x.id
    BY <1>1, <2>1, StateIs
  <2>3. ASSUME NEW y \in Lines(t.up) PROVE y.id < x.id
    <3>1. CASE y.id = f
      BY <2>1, <3>1
    <3>2. CASE y \in Lines(s.up)
      <4>1. x \in Lines(q)
        BY <1>2
      <4> QED BY <1>6, <3>2, <4>1 DEF Feed
    <3> QED BY <1>4, <3>1, <3>2
  <2> QED BY <1>4, <2>1, <2>2, <2>3
<1>7. Feed(t, p, a)
  <2>1. \A x \in Lines(p) : x.id <= a
    BY <1>2 DEF Feed
  <2> QED BY <1>2, <1>6, <2>1 DEF Feed
<1>8. ASSUME NEW n \in 1 .. a, Evidence(t, p, n)
      PROVE  Evidence(s, q, n)
  <2>1. ~ (t.pending.committed /\ t.pending.id = n)
    BY <1>4
  <2>2. t.active.id = n => s.active.id = n
    BY <1>4
  <2>3. Heard(t.up, "end", n) => Heard(s.up, "end", n)
    BY <1>4 DEF Heard
  <2> QED BY <1>5, <1>8, <2>1, <2>2, <2>3 DEF Evidence
<1>9. ASSUME NEW n \in 1 .. a, Passed(s, q, n)
      PROVE  Passed(t, p, n) /\ t.pending.id # n
  BY <1>1, <1>4, <1>5, <1>9 DEF Passed
<1> QED BY <1>4, <1>5, <1>7, <1>8, <1>9 DEF p, f

LEMMA WorldTakes ==
    ASSUME NEW k, NEW dn, NEW sv, NEW r, World(k, dn, sv, r),
           NEW c \in Client, NEW t, Takes(k[c], dn[c], t), Own(t, sv.id, r)
    PROVE  World([k EXCEPT ![c] = t], [dn EXCEPT ![c] = Tail(dn[c])], sv, r)
<1> DEFINE s == k[c]
           q == dn[c]
           p == Tail(dn[c])
           a == sv.id
           f == Head(dn[c]).id
<1>1. /\ ServerSane(sv, r) /\ a \in Nat \ {0} /\ s \in ClientState
      /\ Mine(c, s, q, sv, r) /\ Feed(s, q, a)
      /\ \A d, e \in Client : Ours(k[d], dn[d], k[e], dn[e], a, r)
  BY WorldParts
<1>2. t \in ClientState
  BY DEF Own, Honest
<1>3. /\ Feed(t, p, a)
      /\ \A type, n : Heard(p, type, n) => Heard(q, type, n)
      /\ \A n \in 1 .. a : Evidence(t, p, n) => Evidence(s, q, n)
      /\ \A n \in 1 .. a : Passed(s, q, n) => Passed(t, p, n) /\ t.pending.id # n
      /\ t.pending.id # 0 => t.pending.id = f /\ ~ t.pending.committed
  BY <1>1, <1>2, FeedTakes
<1>4. f \in 1 .. a /\ \A n : Passed(s, q, n) => n # f
  BY <1>1, FoundIs DEF Takes
<1>5. a \in 1 .. a
  BY <1>1
<1>6. Ours(s, q, s, q, a, r)
  BY <1>1
<1>7. ~ Heard(q, "started", f)
  BY <1>4, <1>6 DEF Ours, Evidence
<1>8. \A u, o : Ours(s, q, u, o, a, r) => Ours(t, p, u, o, a, r)
  <2> SUFFICES ASSUME NEW u, NEW o, Ours(s, q, u, o, a, r)
               PROVE  Ours(t, p, u, o, a, r)
    OBVIOUS
  <2>1. Heard(t.up, "end", a) => Heard(s.up, "end", a)
    BY DEF Takes, Heard
  <2>2. t.active.id = a => s.active.id = a
    BY <1>1 DEF Takes
  <2> QED BY <1>3, <2>1, <2>2 DEF Ours
<1>9. \A u, o : Ours(u, o, s, q, a, r) => Ours(u, o, t, p, a, r)
  <2> SUFFICES ASSUME NEW u, NEW o, Ours(u, o, s, q, a, r)
               PROVE  Ours(u, o, t, p, a, r)
    OBVIOUS
  <2>1. \A n \in 1 .. a : Evidence(u, o, n) => Passed(s, q, n)
    BY DEF Ours
  <2>2. ASSUME (u.active.id = a /\ r # NoOne) \/ Heard(u.up, "end", a)
        PROVE  t.pending.id # a
    <3>1. Evidence(u, o, a)
      BY <2>2 DEF Evidence
    <3> QED BY <1>3, <1>5, <2>1, <3>1
  <2> QED BY <1>3, <2>1, <2>2 DEF Ours
<1>10. Mine(c, t, p, sv, r)
  <2>1. Evidence(t, p, a) => sv.phase # "setup"
    BY <1>1, <1>3, <1>5 DEF Mine
  <2>2. Resolved(sv) => Passed(t, p, a)
    BY <1>1, <1>3, <1>5 DEF Mine
  <2>3. ~ (t.pending.id # 0 /\ (t.pending.committed \/ Heard(p, "started", t.pending.id)))
    BY <1>3, <1>7
  <2>4. c \in sv.ready => Passed(t, p, a) /\ t.pending.id # a
    BY <1>1, <1>3, <1>5 DEF Mine
  <2>5. c \in sv.votes => t.pending.id # a /\ ~ Heard(p, "found", a)
    <3>1. c \in sv.votes => ~ Heard(q, "found", a)
      BY <1>1 DEF Mine
    <3>2. Heard(q, "found", f)
      <4>1. q \in Seq(DownLine) /\ q # << >> /\ Head(q).type = "found"
        BY <1>1 DEF Feed, Takes
      <4>2. Head(q) \in Lines(q)
        BY <4>1, LinesOfTail
      <4> QED BY <4>1, <4>2 DEF Heard
    <3>3. c \in sv.votes => f # a
      BY <3>1, <3>2
    <3> QED BY <1>1, <1>3, <3>1, <3>3
  <2> QED BY <1>3, <2>1, <2>2, <2>3, <2>4, <2>5 DEF Mine
<1>11. Ours(t, p, t, p, a, r)
  BY <1>6, <1>8, <1>9
<1>12. \A d \in Client : Ours(k[d], dn[d], t, p, a, r) /\ Ours(t, p, k[d], dn[d], a, r)
  BY <1>1, <1>8, <1>9
<1> QED BY <1>10, <1>11, <1>12, WorldAt

LEMMA NewPendingIs ==
    ASSUME NEW f \in Nat
    PROVE  LET new == [NoPending EXCEPT !.id = f]
           IN /\ new \in [id : Nat, stage : {"link", "prepared", "released", "ready"},
                         committed : BOOLEAN]
              /\ new.id = f /\ new.stage = "link" /\ ~ new.committed
  BY DEF NoPending

LEMMA MatchFoundTakes ==
    ASSUME NEW s, NEW q, NEW a \in Nat \ {0}, NEW r, Own(s, a, r), Feed(s, q, a),
           q # << >>, Head(q).type = "found"
    PROVE  Takes(s, q, MatchFound(s, Head(q))) /\ Own(MatchFound(s, Head(q)), a, r)
<1> DEFINE f == Head(q).id
           t == [s EXCEPT !.pending = [NoPending EXCEPT !.id = f], !.tries = 1,
                          !.net = "open", !.correcting = FALSE, !.result = NoResult,
                          !.queued = FALSE]
<1>0. s \in ClientState /\ Honest(s, a, r) /\ s.active.id \in Nat
  BY OwnIs, StateIs
<1>1. /\ f \in 1 .. a /\ f \in Nat /\ s.active.id < f
      /\ \A y \in Lines(s.up) : y.id < f
  BY <1>0, FoundIs
<1> HIDE DEF f
<1>2. /\ [NoPending EXCEPT !.id = f] \in
            [id : Nat, stage : {"link", "prepared", "released", "ready"}, committed : BOOLEAN]
      /\ [NoPending EXCEPT !.id = f].id = f /\ [NoPending EXCEPT !.id = f].stage = "link"
      /\ ~ [NoPending EXCEPT !.id = f].committed
  BY <1>1, NewPendingIs
<1>3. /\ t \in ClientState /\ t.up = s.up /\ t.active = s.active /\ t.seen = s.seen
      /\ t.result.id = 0 /\ ~ t.correcting
      /\ t.pending.id = f /\ t.pending.stage = "link" /\ ~ t.pending.committed
  BY <1>0, <1>2, BlankIs DEF ClientState
<1> HIDE DEF t
<1>4. Honest(t, a, r)
  BY <1>0, <1>1, <1>3 DEF Honest
<1>5. SetUp(t)
  <2>1. NoQueueAfter(t.up, f)
    <3> SUFFICES ASSUME NEW i \in 1 .. Len(t.up), t.up[i].id = f PROVE FALSE
      BY DEF NoQueueAfter
    <3>1. t.up[i] \in Lines(s.up)
      BY <1>3 DEF Lines
    <3> QED BY <1>1, <3>1
  <2>2. InSetup(t)
    BY <1>1, <1>3, <2>1 DEF InSetup
  <2> QED BY <1>1, <1>3, <2>2 DEF SetUp
<1>6. Shown(t, a, r)
  BY <1>0, <1>1, <1>3 DEF Shown
<1>7. Own(t, a, r)
  BY <1>4, <1>5, <1>6 DEF Own
<1>8. Alike(t, OpenHub(t))
  BY <1>3, OpenHubIs
<1>9. MatchFound(s, Head(q)) = OpenHub(t)
  BY DEF MatchFound, t, f
<1>10. Takes(s, q, OpenHub(t))
  BY <1>3, <1>8 DEF Takes, Alike, f
<1> QED BY <1>7, <1>8, <1>9, <1>10, AlikeKeeps

LEMMA MatchRefusedTakes ==
    ASSUME NEW s, NEW q, NEW a \in Nat \ {0}, NEW r, Own(s, a, r), Feed(s, q, a),
           q # << >>, Head(q).type = "found"
    PROVE  Takes(s, q, MatchRefused(s, Head(q))) /\ Own(MatchRefused(s, Head(q)), a, r)
<1> DEFINE f == Head(q).id
           t == [s EXCEPT !.pending = [NoPending EXCEPT !.id = f]]
           u == AbortSetup(t)
           v == [u EXCEPT !.queued = FALSE]
<1>0. s \in ClientState /\ Honest(s, a, r) /\ s.active.id \in Nat
  BY OwnIs, StateIs
<1>1. f \in 1 .. a /\ f \in Nat
  BY <1>0, FoundIs
<1> HIDE DEF f
<1>2. /\ [NoPending EXCEPT !.id = f] \in
            [id : Nat, stage : {"link", "prepared", "released", "ready"}, committed : BOOLEAN]
      /\ [NoPending EXCEPT !.id = f].id = f
  BY <1>1, NewPendingIs
<1>3. /\ t \in ClientState /\ t.up = s.up /\ t.active = s.active /\ t.result = s.result
      /\ t.pending.id = f
  BY <1>0, <1>2 DEF ClientState
<1> HIDE DEF t
<1>4. Honest(t, a, r)
  BY <1>0, <1>1, <1>3 DEF Honest
<1>5. Own(u, a, r)
  BY <1>3, <1>4, AbortSetupKeeps
<1>6. /\ u.pending = NoPending /\ u.active.id = 0 /\ u.result.id = s.result.id
      /\ \A x \in Lines(u.up) : x \in Lines(s.up) \/ (x.type = "abort" /\ x.id = f)
  <2> DEFINE b == SendLine(t, "abort", t.pending.id, NoOne)
  <2>1. "abort" \in UpType /\ NoOne \in Winner /\ t.pending.id \in Nat
    BY <1>1, <1>3 DEF UpType, Winner
  <2>2. /\ b \in ClientState /\ b.result = t.result
        /\ \A x \in Lines(b.up) : x \in Lines(t.up) \/ (x.type = "abort" /\ x.id = t.pending.id)
    BY <1>3, <2>1, SendLineIs
  <2> HIDE DEF b
  <2>3. /\ StopNet(b) \in ClientState /\ StopNet(b).up = b.up
        /\ StopNet(b).result = b.result
    BY <2>2, StopNetIs
  <2> DEFINE e == ClearMatch(StopNet(b))
  <2>4. /\ e \in ClientState /\ e.pending = NoPending /\ e.active = NoActive
        /\ e.up = b.up /\ e.result = b.result
    BY <2>3, ClearMatchIs
  <2> HIDE DEF e
  <2>5. Alike(e, OpenHub(e))
    BY <2>4, OpenHubIs
  <2>6. u = OpenHub(e)
    BY DEF AbortSetup, u, e, b
  <2> HIDE DEF u
  <2> QED BY <1>3, <2>2, <2>4, <2>5, <2>6, BlankIs DEF Alike
<1>7. u \in ClientState
  BY <1>5, OwnIs
<1> HIDE DEF u
<1>8. Alike(u, v)
  BY <1>7 DEF Alike, ClientState
<1> HIDE DEF v
<1>9. Own(v, a, r)
  BY <1>5, <1>8, AlikeKeeps
<1>10. Takes(s, q, v)
  BY <1>6, <1>8 DEF Takes, Alike, f
<1>11. MatchRefused(s, Head(q)) = v
  BY DEF MatchRefused, v, u, t, f
<1> QED BY <1>9, <1>10, <1>11

-----------------------------------------------------------------------------
(* The update hooks, as steps of one client. *)

LEMMA FreshAttemptKeeps ==
    ASSUME NEW s, NEW a \in Nat \ {0}, NEW r, Own(s, a, r),
           s.pending.id # 0, s.pending.stage # "ready"
    PROVE  Keeps(s, FreshAttempt(s), a, r)
<1> DEFINE new == [NoPending EXCEPT !.id = s.pending.id]
           t == [s EXCEPT !.net = "open", !.tries = s.tries + 1, !.pending = new]
<1>0. /\ s \in ClientState /\ Honest(s, a, r) /\ InSetup(s) /\ Shown(s, a, r)
      /\ s.pending.id \in Nat /\ s.tries \in Nat
  BY OwnIs, StateIs
<1>1. /\ new \in [id : Nat, stage : {"link", "prepared", "released", "ready"},
                  committed : BOOLEAN]
      /\ new.id = s.pending.id /\ new.stage = "link" /\ ~ new.committed
      /\ s.tries + 1 \in Nat
  BY <1>0, NewPendingIs
<1> HIDE DEF new
<1>2. /\ t \in ClientState /\ t.up = s.up /\ t.active = s.active /\ t.seen = s.seen
      /\ t.correcting = s.correcting /\ t.result = s.result /\ t.pending = new
  BY <1>0, <1>1 DEF ClientState
<1> HIDE DEF t
<1>3. Step(s, t)
  BY <1>1, <1>2 DEF Step
<1>4. Honest(t, a, r) /\ Shown(t, a, r)
  BY <1>0, <1>1, <1>2 DEF Honest, Shown
<1>5. SetUp(t)
  BY <1>0, <1>1, <1>2 DEF SetUp, InSetup
<1>6. Keeps(s, t, a, r)
  BY <1>3, <1>4, <1>5 DEF Keeps, Own
<1> QED BY <1>6 DEF t, new, FreshAttempt

LEMMA NextAttemptKeeps ==
    ASSUME NEW s, NEW a \in Nat \ {0}, NEW r, Own(s, a, r),
           s.pending.id # 0, s.pending.stage # "ready"
    PROVE  Keeps(s, NextAttempt(s), a, r)
<1>1. s \in ClientState /\ Honest(s, a, r)
  BY OwnIs
<1>2. Keeps(s, AbortSetup(s), a, r)
  BY <1>1, AbortSetupKeeps DEF Keeps
<1> QED BY <1>2, FreshAttemptKeeps DEF NextAttempt

LEMMA ConnectKeeps ==
    ASSUME NEW s, NEW a \in Nat \ {0}, NEW r, Own(s, a, r)
    PROVE  Keeps(s, [s EXCEPT !.net = "linked"], a, r)
<1> DEFINE t == [s EXCEPT !.net = "linked"]
<1>0. s \in ClientState /\ Honest(s, a, r) /\ SetUp(s) /\ Shown(s, a, r)
  BY OwnIs
<1>1. /\ t \in ClientState /\ t.up = s.up /\ t.pending = s.pending /\ t.active = s.active
      /\ t.seen = s.seen /\ t.correcting = s.correcting /\ t.result = s.result
      /\ t.net = "linked"
  BY <1>0 DEF ClientState
<1> HIDE DEF t
<1>2. Step(s, t)
  BY <1>1 DEF Step
<1>3. Honest(t, a, r) /\ Shown(t, a, r)
  BY <1>0, <1>1 DEF Honest, Shown
<1>4. SetUp(t)
  BY <1>0, <1>1 DEF SetUp, InSetup
<1>5. Keeps(s, t, a, r)
  BY <1>2, <1>3, <1>4 DEF Keeps, Own
<1> QED BY <1>5 DEF t

\* A linked client goes on to a later stage, with nothing left of the match before.
LEMMA StageKeeps ==
    ASSUME NEW s, NEW t \in ClientState, NEW a \in Nat \ {0}, NEW r, Own(s, a, r),
           s.pending.id # 0, s.net = "linked", s.pending.stage # "ready",
           t.up = s.up, t.net = s.net, t.pending.id = s.pending.id,
           t.pending.committed = s.pending.committed, t.result = s.result,
           t.correcting = s.correcting, t.active.id = 0, t.seen = NoOne,
           t.pending.stage # "ready"
    PROVE  Keeps(s, t, a, r)
<1>0. s \in ClientState /\ Honest(s, a, r) /\ SetUp(s) /\ InSetup(s)
  BY OwnIs
<1>1. Step(s, t)
  BY DEF Step
<1>2. Honest(t, a, r)
  <2>1. a \in Nat /\ SaysSo(s, t, a, r)
    BY DEF SaysSo
  <2> QED BY <1>0, <1>1, <2>1, HonestStep
<1>3. SetUp(t)
  <2>1. 0 < s.pending.id
    BY <1>0, StateIs
  <2> QED BY <1>0, <2>1 DEF SetUp, InSetup
<1>4. Shown(t, a, r)
  BY DEF Shown
<1> QED BY <1>1, <1>2, <1>3, <1>4 DEF Keeps, Own

LEMMA ReportReadyKeeps ==
    ASSUME NEW s, NEW a \in Nat \ {0}, NEW r, Own(s, a, r),
           s.pending.id # 0, s.pending.stage = "released"
    PROVE  Keeps(s, [SendLine(s, "started", s.pending.id, NoOne) EXCEPT
                        !.pending.stage = "ready"], a, r)
<1> DEFINE u == SendLine(s, "started", s.pending.id, NoOne)
           t == [u EXCEPT !.pending.stage = "ready"]
<1>0. /\ s \in ClientState /\ Honest(s, a, r) /\ SetUp(s) /\ Shown(s, a, r) /\ InSetup(s)
      /\ s.pending.id \in Nat /\ NoOne \in Winner /\ "started" \in UpType
  BY OwnIs, StateIs DEF Winner, UpType
<1>1. /\ u \in ClientState /\ u.pending = s.pending /\ u.net = s.net /\ u.active = s.active
      /\ u.seen = s.seen /\ u.correcting = s.correcting /\ u.result = s.result
      /\ \A x \in Lines(u.up) :
            x \in Lines(s.up) \/ (x.type = "started" /\ x.id = s.pending.id)
  BY <1>0, SendLineIs
<1>2. NoQueueAfter(u.up, s.pending.id)
  BY <1>0, SendLineOrder DEF InSetup
<1> HIDE DEF u
<1>3. /\ t \in ClientState /\ t.up = u.up /\ t.net = u.net /\ t.active = u.active
      /\ t.seen = u.seen /\ t.correcting = u.correcting /\ t.result = u.result
      /\ t.pending.id = s.pending.id /\ t.pending.committed = s.pending.committed
      /\ t.pending.stage = "ready"
  BY <1>1 DEF ClientState
<1> HIDE DEF t
<1>4. Step(s, t)
  BY <1>1, <1>3 DEF Step
<1>5. Honest(t, a, r)
  <2>1. a \in Nat /\ SaysSo(s, t, a, r)
    BY <1>1, <1>3 DEF SaysSo
  <2> QED BY <1>0, <1>3, <1>4, <2>1, HonestStep
<1>6. SetUp(t)
  <2>1. \A x \in Lines(t.up) : x.id = t.pending.id => x.type = "started"
    BY <1>0, <1>1, <1>3 DEF InSetup
  <2>2. InSetup(t)
    BY <1>0, <1>1, <1>2, <1>3, <2>1 DEF InSetup
  <2> QED BY <1>3, <2>2 DEF SetUp
<1>7. Shown(t, a, r)
  BY <1>0, <1>1, <1>3 DEF Shown
<1>8. Keeps(s, t, a, r)
  BY <1>4, <1>5, <1>6, <1>7 DEF Keeps, Own
<1> QED BY <1>8 DEF t, u

\* With no match in setup, what is shown may change as long as it is real.
LEMMA ShownKeeps ==
    ASSUME NEW s, NEW t \in ClientState, NEW a \in Nat \ {0}, NEW r, Own(s, a, r),
           s.pending.id = 0, t.up = s.up, t.pending = s.pending,
           t.active.id = s.active.id, t.result.id \in {s.result.id, 0},
           Shown(t, a, r)
    PROVE  Keeps(s, t, a, r)
<1>0. s \in ClientState /\ Honest(s, a, r) /\ s.pending = NoPending
  BY OwnIs
<1>1. Step(s, t)
  BY <1>0 DEF Step
<1>2. Honest(t, a, r)
  <2>1. a \in Nat /\ SaysSo(s, t, a, r)
    BY DEF SaysSo
  <2> QED BY <1>0, <1>1, <2>1, HonestStep
<1>3. SetUp(t)
  BY <1>0, BlankIs DEF SetUp
<1> QED BY <1>1, <1>2, <1>3 DEF Keeps, Own

\* The hub or the menu is on, and no game shows its end.
LEMMA UnseenKeeps ==
    ASSUME NEW s, NEW t \in ClientState, NEW a \in Nat \ {0}, NEW r, Own(s, a, r),
           t.up = s.up, t.pending = s.pending, t.active = s.active, t.result = s.result,
           t.net = s.net, t.correcting = s.correcting, t.seen = NoOne
    PROVE  Keeps(s, t, a, r)
<1>0. s \in ClientState /\ Honest(s, a, r) /\ SetUp(s) /\ s.pending.id \in Nat
  BY OwnIs, StateIs
<1>1. Step(s, t)
  BY DEF Step
<1>2. Honest(t, a, r)
  BY <1>0 DEF Honest
<1>3. SetUp(t)
  BY <1>0, SetUpStays
<1>4. Shown(t, a, r)
  BY DEF Shown
<1> QED BY <1>1, <1>2, <1>3, <1>4 DEF Keeps, Own

\* hooks_online_on_pre_swap.
LEMMA PreSwapKeeps ==
    ASSUME NEW c \in Client, NEW s0, NEW a \in Nat \ {0}, NEW r, Own(s0, a, r)
    PROVE  LET s == [s0 EXCEPT !.opening = FALSE, !.screen = "hub", !.seen = NoOne]
               left == IF s.active.id # 0 /\ ~ s.active.reported THEN Forfeit(c, s) ELSE s
           IN Keeps(s0, IF s.pending.id # 0 THEN s ELSE ClearMatch(StopNet(left)), a, r)
<1> DEFINE s == [s0 EXCEPT !.opening = FALSE, !.screen = "hub", !.seen = NoOne]
           left == IF s.active.id # 0 /\ ~ s.active.reported THEN Forfeit(c, s) ELSE s
<1>1. s0 \in ClientState
  BY OwnIs
<1>2. /\ s \in ClientState /\ s.up = s0.up /\ s.pending = s0.pending
      /\ s.active = s0.active /\ s.result = s0.result /\ s.net = s0.net
      /\ s.correcting = s0.correcting /\ s.seen = NoOne
  BY <1>1 DEF ClientState, Winner
<1> HIDE DEF s
<1>3. Keeps(s0, s, a, r)
  BY <1>2, UnseenKeeps
<1>4. Keeps(s, s, a, r)
  BY <1>3, StepSelf DEF Keeps
<1>5. Keeps(s, left, a, r)
  BY <1>3, <1>4, ForfeitKeeps DEF Keeps
<1> HIDE DEF left
<1>6. Keeps(left, ClearMatch(StopNet(left)), a, r)
  BY <1>5, ClearedKeeps, OwnIs DEF Keeps
<1>7. Keeps(s0, ClearMatch(StopNet(left)), a, r)
  BY <1>3, <1>5, <1>6, KeepsAgain DEF Keeps
<1>8. Keeps(s0, IF s.pending.id # 0 THEN s ELSE ClearMatch(StopNet(left)), a, r)
  BY <1>3, <1>7
<1> QED BY <1>8 DEF left, s

\* hooked_state_switch.
LEMMA NativeReturnKeeps ==
    ASSUME NEW s0, NEW a \in Nat \ {0}, NEW r, Own(s0, a, r)
    PROVE  LET s == PollCompletion(s0)
               main == [s EXCEPT !.screen = "main", !.seen = NoOne]
           IN /\ Keeps(s0, main, a, r)
              /\ Keeps(s0, OpenHub(ClearMatch(StopNet(main))), a, r)
<1> DEFINE s == PollCompletion(s0)
           main == [s EXCEPT !.screen = "main", !.seen = NoOne]
<1>1. Keeps(s0, s, a, r)
  BY PollCompletionKeeps
<1>2. s \in ClientState
  BY <1>1, OwnIs DEF Keeps
<1> HIDE DEF s
<1>3. /\ main \in ClientState /\ main.up = s.up /\ main.pending = s.pending
      /\ main.active = s.active /\ main.result = s.result /\ main.net = s.net
      /\ main.correcting = s.correcting /\ main.seen = NoOne
  BY <1>2 DEF ClientState, Winner
<1> HIDE DEF main
<1>4. Keeps(s, main, a, r)
  BY <1>1, <1>3, UnseenKeeps DEF Keeps
<1>5. Keeps(s0, main, a, r)
  BY <1>1, <1>4, KeepsAgain DEF Keeps
<1>6. Keeps(main, OpenHub(ClearMatch(StopNet(main))), a, r)
  BY <1>5, ClearedKeeps, OwnIs DEF Keeps
<1>7. Keeps(s0, OpenHub(ClearMatch(StopNet(main))), a, r)
  BY <1>5, <1>6, KeepsAgain DEF Keeps
<1> QED BY <1>5, <1>7 DEF main, s

\* A line about the active match or the toast, or about none.
LEMMA SendLineKeeps ==
    ASSUME NEW s, NEW a \in Nat \ {0}, NEW r, Own(s, a, r),
           NEW type \in {"rematch", "decline", "queue"}, NEW m \in {s.result.id, 0},
           type = "queue" => s.pending.id = 0
    PROVE  Keeps(s, SendLine(s, type, m, NoOne), a, r)
<1> DEFINE t == SendLine(s, type, m, NoOne)
<1>0. /\ s \in ClientState /\ Honest(s, a, r) /\ SetUp(s) /\ Shown(s, a, r)
      /\ s.pending.id \in Nat /\ m \in Nat /\ NoOne \in Winner /\ type \in UpType
      /\ s.pending.id # 0 => m < s.pending.id
  BY OwnIs, StateIs DEF Winner, UpType, InSetup
<1>1. /\ t \in ClientState /\ t.pending = s.pending /\ t.net = s.net /\ t.active = s.active
      /\ t.seen = s.seen /\ t.correcting = s.correcting /\ t.result = s.result
      /\ \A x \in Lines(t.up) : x \in Lines(s.up) \/ (x.type = type /\ x.id = m)
  BY <1>0, SendLineIs
<1>2. ASSUME type # "queue", NEW n, NoQueueAfter(s.up, n)
      PROVE  NoQueueAfter(t.up, n)
  BY <1>0, <1>2, SendLineOrder
<1> HIDE DEF t
<1>3. Step(s, t)
  BY <1>1 DEF Step
<1>4. Honest(t, a, r)
  <2>1. a \in Nat /\ SaysSo(s, t, a, r)
    BY <1>1 DEF SaysSo
  <2> QED BY <1>0, <1>1, <1>3, <2>1, HonestStep
<1>5. SetUp(t)
  <2>1. CASE s.pending.id = 0
    BY <1>0, <1>1, <2>1 DEF SetUp
  <2>2. CASE s.pending.id # 0
    <3>1. \A n : NoQueueAfter(s.up, n) => NoQueueAfter(t.up, n)
      BY <1>2, <2>2
    <3>2. \A x \in Lines(t.up) : x \in Lines(s.up) \/ x.id < s.pending.id \/ s.pending.id = 0
      BY <1>0, <1>1, <2>2
    <3> QED BY <1>0, <1>1, <3>1, <3>2, SetUpStays
  <2> QED BY <2>1, <2>2
<1>6. Shown(t, a, r)
  BY <1>0, <1>1 DEF Shown
<1>7. Keeps(s, t, a, r)
  BY <1>3, <1>4, <1>5, <1>6 DEF Keeps, Own
<1> QED BY <1>7 DEF t

-----------------------------------------------------------------------------
(* The server, and what it sends. *)

\* A client with more to read of the match it knows of, and nothing found.
LEMMA FeedMore ==
    ASSUME NEW s, NEW q, NEW o \in Seq(DownLine), NEW a, Feed(s, q, a),
           \A x \in Lines(o) : x.type # "found" /\ x.id <= a
    PROVE  /\ Feed(s, q \o o, a) /\ Lines(q \o o) = Lines(q) \cup Lines(o)
           /\ \A n : Heard(q \o o, "found", n) <=> Heard(q, "found", n)
           /\ \A n : Passed(s, q \o o, n) <=> Passed(s, q, n)
<1>1. q \in Seq(DownLine)
  BY DEF Feed
<1>2. q \o o \in Seq(DownLine) /\ Lines(q \o o) = Lines(q) \cup Lines(o)
  BY <1>1, LinesOfConcat
<1>3. /\ Len(q \o o) = Len(q) + Len(o) /\ Len(q) \in Nat /\ Len(o) \in Nat
      /\ \A i \in 1 .. Len(q) + Len(o) :
            (q \o o)[i] = IF i <= Len(q) THEN q[i] ELSE o[i - Len(q)]
  BY <1>1, ConcatProperties, LenProperties
<1>4. ASSUME NEW i \in 1 .. Len(q \o o), NEW j \in 1 .. Len(q \o o),
             i < j, (q \o o)[j].type = "found"
      PROVE  (q \o o)[i].id < (q \o o)[j].id
  <2>1. j <= Len(q)
    <3> SUFFICES ASSUME ~ j <= Len(q) PROVE FALSE
      OBVIOUS
    <3>1. j - Len(q) \in 1 .. Len(o) /\ (q \o o)[j] = o[j - Len(q)]
      BY <1>3
    <3>2. (q \o o)[j] \in Lines(o)
      BY <3>1 DEF Lines
    <3> QED BY <1>4, <3>2
  <2>2. /\ i \in 1 .. Len(q) /\ j \in 1 .. Len(q)
        /\ (q \o o)[i] = q[i] /\ (q \o o)[j] = q[j]
    BY <1>3, <1>4, <2>1
  <2> QED BY <1>4, <2>2 DEF Feed
<1>5. \A n : Heard(q \o o, "found", n) <=> Heard(q, "found", n)
  BY <1>2 DEF Heard
<1>6. \A n : Passed(s, q \o o, n) <=> Passed(s, q, n)
  BY <1>5 DEF Passed
<1>7. ASSUME NEW x \in Lines(q \o o)
      PROVE  x.id <= a /\ (x.type = "found" => x \in Lines(q))
  BY <1>2, <1>7 DEF Feed
<1>8. Feed(s, q \o o, a)
  <2>1. \A x \in Lines(q \o o) : x.type = "found" =>
            /\ s.pending.id < x.id /\ s.active.id < x.id /\ s.result.id < x.id
            /\ \A y \in Lines(s.up) : y.id < x.id
    BY <1>7 DEF Feed
  <2> QED BY <1>2, <1>4, <1>7, <2>1 DEF Feed
<1> QED BY <1>2, <1>5, <1>6, <1>8

\* What the server may send in a match, given where its clients are.
News1(k, dn, sv, d, x) ==
    /\ x.type # "found" /\ x.id <= sv.id
    /\ x.type \in {"started", "result"} =>
          /\ x.id = sv.id /\ sv.phase # "setup"
          /\ \A e \in Client : Passed(k[e], dn[e], sv.id)
    /\ x.type = "started" /\ k[d].pending.id = sv.id => Idle(k[d]) /\ d \notin sv.queue

\* How the server may change its mind of a match, given where its clients are.
Turn(k, dn, sv, sv2, r) ==
    /\ ServerSane(sv2, r) /\ sv2.id = sv.id
    /\ sv2.phase = "setup" => sv.phase = "setup"
    /\ Resolved(sv2) => \A e \in Client : Passed(k[e], dn[e], sv.id)
    /\ \A d \in sv2.ready : \/ d \in sv.ready
                            \/ /\ Passed(k[d], dn[d], sv.id)
                               /\ k[d].pending.id = sv.id => Idle(k[d])
    /\ \A d \in sv2.votes : \/ d \in sv.votes
                            \/ k[d].pending.id # sv.id /\ ~ Heard(dn[d], "found", sv.id)
    /\ \A d \in sv2.queue : \/ d \in sv.queue
                            \/ ~ (k[d].pending.id # 0
                                  /\ (k[d].pending.committed
                                      \/ Heard(dn[d], "started", k[d].pending.id)))

\* What is on its way once the server in state sv has sent its news.
Sent(dn, sv, news) ==
    [d \in Client |-> IF d \in sv.online THEN dn[d] \o news[d] ELSE dn[d]]
SentAll(dn, sv, f) ==
    [d \in Client |-> IF d \in sv.online THEN Append(dn[d], f) ELSE dn[d]]

LEMMA WorldTurns ==
    ASSUME NEW k, NEW dn, NEW sv, NEW r, World(k, dn, sv, r),
           NEW sv2, Turn(k, dn, sv, sv2, r), NEW news \in [Client -> Seq(DownLine)],
           \A d \in Client : \A x \in Lines(news[d]) : News1(k, dn, sv2, d, x)
    PROVE  World(k, Sent(dn, sv2, news), sv2, r)
<1> DEFINE a == sv.id
           dn2 == [d \in Client |-> IF d \in sv2.online THEN dn[d] \o news[d] ELSE dn[d]]
<1>1. /\ sv.id \in Nat \ {0} /\ r \in Winner /\ ServerSane(sv2, r) /\ sv2.id = a
      /\ k \in [Client -> ClientState] /\ dn \in [Client -> Seq(DownLine)]
      /\ \A d \in Client : /\ Mine(d, k[d], dn[d], sv, r) /\ Own(k[d], a, r)
                           /\ Feed(k[d], dn[d], a)
      /\ \A d, e \in Client : Ours(k[d], dn[d], k[e], dn[e], a, r)
  BY WorldParts DEF Turn
<1>2. ASSUME NEW d \in Client
      PROVE  /\ Feed(k[d], dn2[d], a)
             /\ \A x \in Lines(dn2[d]) : x \in Lines(dn[d]) \/ News1(k, dn, sv2, d, x)
             /\ \A n : Heard(dn2[d], "found", n) <=> Heard(dn[d], "found", n)
             /\ \A n : Passed(k[d], dn2[d], n) <=> Passed(k[d], dn[d], n)
  <2>1. CASE d \in sv2.online
    <3>1. dn2[d] = dn[d] \o news[d]
      BY <2>1
    <3>2. \A x \in Lines(news[d]) : x.type # "found" /\ x.id <= a
      BY <1>1 DEF News1
    <3>3. news[d] \in Seq(DownLine) /\ Feed(k[d], dn[d], a)
      BY <1>1
    <3> DEFINE o == dn[d] \o news[d]
    <3> HIDE DEF dn2
    <3>4. /\ Feed(k[d], o, a) /\ Lines(o) = Lines(dn[d]) \cup Lines(news[d])
          /\ \A n : Heard(o, "found", n) <=> Heard(dn[d], "found", n)
          /\ \A n : Passed(k[d], o, n) <=> Passed(k[d], dn[d], n)
      BY <3>2, <3>3, FeedMore
    <3> HIDE DEF o
    <3>5. dn2[d] = o
      BY <3>1 DEF o
    <3> QED BY <3>4, <3>5
  <2>2. CASE d \notin sv2.online
    <3>1. dn2[d] = dn[d]
      BY <2>2
    <3> HIDE DEF dn2
    <3> QED BY <1>1, <3>1
  <2> QED BY <2>1, <2>2
<1>3. dn2 \in [Client -> Seq(DownLine)]
  <2>1. \A d \in Client : dn2[d] \in Seq(DownLine)
    BY <1>2 DEF Feed
  <2> QED BY <2>1
<1> HIDE DEF dn2
<1>4. ASSUME NEW d \in Client, NEW n \in 1 .. a, Evidence(k[d], dn2[d], n)
      PROVE  \/ Evidence(k[d], dn[d], n)
             \/ /\ n = a /\ sv2.phase # "setup"
                /\ \A e \in Client : Passed(k[e], dn[e], a)
  <2>1. CASE Heard(dn2[d], "started", n) \/ Heard(dn2[d], "result", n)
    <3>1. PICK x \in Lines(dn2[d]) : x.type \in {"started", "result"} /\ x.id = n
      BY <2>1 DEF Heard
    <3>2. CASE x \in Lines(dn[d])
      BY <3>1, <3>2 DEF Evidence, Heard
    <3>3. CASE News1(k, dn, sv2, d, x)
      BY <1>1, <3>1, <3>3 DEF News1
    <3> QED BY <1>2, <3>2, <3>3
  <2>2. CASE ~ (Heard(dn2[d], "started", n) \/ Heard(dn2[d], "result", n))
    BY <1>4, <2>2 DEF Evidence
  <2> QED BY <2>1, <2>2
<1>5. a \in 1 .. a
  BY <1>1
<1>6. ASSUME NEW d \in Client
      PROVE  Mine(d, k[d], dn2[d], sv2, r)
  <2>0. Mine(d, k[d], dn[d], sv, r)
    BY <1>1
  <2>1. Evidence(k[d], dn2[d], a) => sv2.phase # "setup"
    <3>1. Evidence(k[d], dn[d], a) => sv.phase # "setup"
      BY <2>0 DEF Mine
    <3> QED BY <1>4, <1>5, <3>1 DEF Turn
  <2>2. Resolved(sv2) => Passed(k[d], dn2[d], a)
    BY <1>2 DEF Turn
  <2>3. ASSUME k[d].pending.id # 0,
               k[d].pending.committed \/ Heard(dn2[d], "started", k[d].pending.id)
        PROVE  k[d].pending.id = a /\ Idle(k[d]) /\ d \notin sv2.queue
    <3>1. CASE k[d].pending.committed \/ Heard(dn[d], "started", k[d].pending.id)
      <4>1. k[d].pending.id = a /\ Idle(k[d]) /\ d \notin sv.queue
        BY <2>0, <2>3, <3>1 DEF Mine
      <4> QED BY <2>3, <3>1, <4>1 DEF Turn
    <3>2. CASE ~ (k[d].pending.committed \/ Heard(dn[d], "started", k[d].pending.id))
      <4>1. PICK x \in Lines(dn2[d]) : x.type = "started" /\ x.id = k[d].pending.id
        BY <2>3, <3>2 DEF Heard
      <4>2. x \notin Lines(dn[d])
        BY <3>2, <4>1 DEF Heard
      <4>3. News1(k, dn, sv2, d, x)
        BY <1>2, <4>2
      <4> QED BY <1>1, <4>1, <4>3 DEF News1
    <3> QED BY <3>1, <3>2
  <2>4. d \in sv2.ready => Passed(k[d], dn2[d], a) /\ (k[d].pending.id = a => Idle(k[d]))
    <3>1. d \in sv.ready => Passed(k[d], dn[d], a) /\ (k[d].pending.id = a => Idle(k[d]))
      BY <2>0 DEF Mine
    <3> QED BY <1>2, <3>1 DEF Turn
  <2>5. d \in sv2.votes => k[d].pending.id # a /\ ~ Heard(dn2[d], "found", a)
    <3>1. d \in sv.votes => k[d].pending.id # a /\ ~ Heard(dn[d], "found", a)
      BY <2>0 DEF Mine
    <3> QED BY <1>2, <3>1 DEF Turn
  <2> QED BY <1>1, <1>2, <2>1, <2>2, <2>3, <2>4, <2>5 DEF Mine
<1>7. ASSUME NEW d \in Client, NEW e \in Client
      PROVE  Ours(k[d], dn2[d], k[e], dn2[e], a, r)
  <2>0. Ours(k[d], dn[d], k[e], dn[e], a, r)
    BY <1>1
  <2>1. ASSUME NEW n \in 1 .. a, Evidence(k[d], dn2[d], n)
        PROVE  Passed(k[e], dn2[e], n)
    <3>1. Passed(k[e], dn[e], n)
      BY <1>4, <2>0, <2>1 DEF Ours
    <3> QED BY <1>2, <3>1
  <2> QED BY <2>0, <2>1 DEF Ours
<1>8. World(k, dn2, sv2, r)
  BY <1>1, <1>3, <1>6, <1>7 DEF World
<1> QED BY <1>8 DEF dn2, Sent

\* The next match, found once neither client is at the start barrier.
LEMMA WorldNext ==
    ASSUME NEW k, NEW dn, NEW sv, NEW r, World(k, dn, sv, r),
           NEW sv2, ServerSane(sv2, r), sv2.id = sv.id + 1, sv2.phase = "setup",
           sv2.outcome = NoOne, sv2.ready = {}, sv2.votes = {},
           NEW f \in DownLine, f.type = "found", f.id = sv.id + 1,
           \A d \in Client : ~ (k[d].pending.id # 0
                                /\ (k[d].pending.committed
                                    \/ Heard(dn[d], "started", k[d].pending.id)))
    PROVE  World(k, SentAll(dn, sv2, f), sv2, r)
<1> DEFINE a == sv.id
           b == sv2.id
           dn2 == [d \in Client |-> IF d \in sv2.online THEN Append(dn[d], f) ELSE dn[d]]
<1>1. /\ a \in Nat \ {0} /\ r \in Winner
      /\ k \in [Client -> ClientState] /\ dn \in [Client -> Seq(DownLine)]
      /\ \A d \in Client : /\ k[d] \in ClientState /\ Own(k[d], a, r)
                           /\ Feed(k[d], dn[d], a)
      /\ \A d, e \in Client : Ours(k[d], dn[d], k[e], dn[e], a, r)
  BY WorldParts
<1>2. ASSUME NEW d \in Client
      PROVE  Lines(dn2[d]) \subseteq Lines(dn[d]) \cup {f} /\ Feed(k[d], dn2[d], b)
  <2>1. dn[d] \in Seq(DownLine) /\ Feed(k[d], dn[d], a) /\ k[d] \in ClientState
    BY <1>1
  <2>2. /\ k[d].pending.id <= a /\ k[d].active.id <= a /\ k[d].result.id <= a
        /\ \A y \in Lines(k[d].up) : y.id <= a
    BY <1>1 DEF Own, Honest
  <2>3. /\ k[d].pending.id \in Nat /\ k[d].active.id \in Nat /\ k[d].result.id \in Nat
        /\ k[d].up \in Seq(UpLine)
    BY <2>1, StateIs
  <2>4. \A y \in Lines(k[d].up) : y.id \in Nat
    <3> TAKE y \in Lines(k[d].up)
    <3>1. PICK i \in 1 .. Len(k[d].up) : y = k[d].up[i]
      BY DEF Lines
    <3>2. k[d].up[i] \in UpLine
      BY <2>3
    <3> QED BY <3>1, <3>2 DEF UpLine, Line
  <2>5. \A y \in Lines(dn[d]) : y.id \in Nat /\ y.id <= a
    <3> TAKE y \in Lines(dn[d])
    <3>1. PICK i \in 1 .. Len(dn[d]) : y = dn[d][i]
      BY DEF Lines
    <3>2. dn[d][i] \in DownLine
      BY <2>1
    <3> QED BY <2>1, <3>1, <3>2 DEF DownLine, Line, Feed
  <2>6. CASE d \in sv2.online
    <3>1. dn2[d] = Append(dn[d], f)
      BY <2>6
    <3> HIDE DEF dn2
    <3>2. dn2[d] \in Seq(DownLine) /\ Lines(dn2[d]) = Lines(dn[d]) \cup {f}
      BY <2>1, <3>1, LinesOfAppend
    <3>3. /\ Len(dn2[d]) = Len(dn[d]) + 1 /\ Len(dn[d]) \in Nat
          /\ \A i \in 1 .. Len(dn[d]) : dn2[d][i] = dn[d][i]
          /\ dn2[d][Len(dn[d]) + 1] = f
      BY <2>1, <3>1, AppendProperties, LenProperties
    <3>4. ASSUME NEW i \in 1 .. Len(dn2[d]), NEW j \in 1 .. Len(dn2[d]),
                 i < j, dn2[d][j].type = "found"
          PROVE  dn2[d][i].id < dn2[d][j].id
      <4>1. i \in 1 .. Len(dn[d]) /\ dn2[d][i] = dn[d][i]
        BY <3>3, <3>4
      <4>2. CASE j = Len(dn[d]) + 1
        <5>1. dn[d][i] \in Lines(dn[d])
          BY <4>1 DEF Lines
        <5> QED BY <1>1, <2>5, <3>3, <4>1, <4>2, <5>1
      <4>3. CASE j # Len(dn[d]) + 1
        <5>1. j \in 1 .. Len(dn[d])
          BY <3>3, <4>3
        <5> QED BY <2>1, <3>3, <3>4, <4>1, <5>1 DEF Feed
      <4> QED BY <4>2, <4>3
    <3>5. ASSUME NEW x \in Lines(dn2[d])
          PROVE  /\ x.id <= b
                 /\ x.type = "found" =>
                       /\ k[d].pending.id < x.id /\ k[d].active.id < x.id
                       /\ k[d].result.id < x.id
                       /\ \A y \in Lines(k[d].up) : y.id < x.id
      <4>1. CASE x \in Lines(dn[d])
        BY <1>1, <2>1, <2>5, <4>1 DEF Feed
      <4>2. CASE x = f
        BY <1>1, <2>2, <2>3, <2>4, <4>2
      <4> QED BY <3>2, <4>1, <4>2
    <3>6. Feed(k[d], dn2[d], b)
      BY <3>2, <3>4, <3>5 DEF Feed
    <3> QED BY <3>2, <3>6
  <2>7. CASE d \notin sv2.online
    <3>1. dn2[d] = dn[d]
      BY <2>7
    <3> HIDE DEF dn2
    <3>2. \A x \in Lines(dn[d]) : x.id <= b
      BY <1>1, <2>5
    <3>3. Feed(k[d], dn[d], b)
      BY <2>1, <3>2 DEF Feed
    <3> QED BY <3>1, <3>3
  <2> QED BY <2>6, <2>7
<1>3. dn2 \in [Client -> Seq(DownLine)]
  <2>1. \A d \in Client : dn2[d] \in Seq(DownLine)
    BY <1>2 DEF Feed
  <2> QED BY <2>1
<1> HIDE DEF dn2
<1>4. \A d \in Client : \A type, n : type # "found" =>
          (Heard(dn2[d], type, n) => Heard(dn[d], type, n))
  BY <1>2 DEF Heard
<1>5. ASSUME NEW d \in Client, NEW n, Evidence(k[d], dn2[d], n)
      PROVE  Evidence(k[d], dn[d], n)
  BY <1>4, <1>5 DEF Evidence
<1>6. ASSUME NEW d \in Client
      PROVE  /\ ~ Evidence(k[d], dn2[d], b) /\ ~ Heard(k[d].up, "end", b)
             /\ k[d].active.id # b /\ k[d].pending.id # b
  <2>1. /\ k[d].pending.id <= a /\ k[d].active.id <= a
        /\ \A x \in Lines(k[d].up) : x.id <= a
    BY <1>1 DEF Own, Honest
  <2>2. \A x \in Lines(dn[d]) : x.id <= a
    BY <1>1 DEF Feed
  <2>3. b \in Nat /\ ~ b <= a
    BY <1>1
  <2>4. ~ Evidence(k[d], dn[d], b)
    BY <2>1, <2>2, <2>3 DEF Evidence, Heard
  <2> QED BY <1>5, <2>1, <2>3, <2>4 DEF Heard
<1>7. ASSUME NEW d \in Client
      PROVE  Own(k[d], b, r)
  <2>1. /\ k[d] \in ClientState /\ k[d].pending.id <= a /\ k[d].active.id <= a
        /\ k[d].result.id <= a /\ \A x \in Lines(k[d].up) : x.id <= a
        /\ k[d].pending.id \in Nat /\ k[d].active.id \in Nat /\ k[d].result.id \in Nat
        /\ k[d].up \in Seq(UpLine)
    BY <1>1, StateIs DEF Own, Honest
  <2>2. \A x \in Lines(k[d].up) : x.id \in Nat
    <3> TAKE y \in Lines(k[d].up)
    <3>1. PICK i \in 1 .. Len(k[d].up) : y = k[d].up[i]
      BY DEF Lines
    <3>2. k[d].up[i] \in UpLine
      BY <2>1
    <3> QED BY <3>1, <3>2 DEF UpLine, Line
  <2>3. Honest(k[d], b, r)
    BY <1>1, <2>1, <2>2 DEF Honest
  <2>4. Shown(k[d], b, r)
    BY <1>6 DEF Shown
  <2> QED BY <1>1, <2>3, <2>4 DEF Own
<1>8. ASSUME NEW d \in Client
      PROVE  Mine(d, k[d], dn2[d], sv2, r)
  <2>1. ~ (k[d].pending.id # 0
           /\ (k[d].pending.committed \/ Heard(dn2[d], "started", k[d].pending.id)))
    <3>1. "started" # "found"
      OBVIOUS
    <3> QED BY <1>4, <3>1
  <2>2. ~ Resolved(sv2)
    BY DEF Resolved
  <2> QED BY <1>2, <1>6, <1>7, <2>1, <2>2 DEF Mine
<1>9. ASSUME NEW d \in Client, NEW e \in Client
      PROVE  Ours(k[d], dn2[d], k[e], dn2[e], b, r)
  <2>1. ASSUME NEW n \in 1 .. b, Evidence(k[d], dn2[d], n)
        PROVE  Passed(k[e], dn2[e], n)
    <3>1. n # b /\ n \in 1 .. a /\ n # f.id
      BY <1>1, <1>6, <2>1
    <3>2. Passed(k[e], dn[e], n)
      BY <1>1, <1>5, <2>1, <3>1 DEF Ours
    <3>3. Heard(dn2[e], "found", n) => Heard(dn[e], "found", n)
      BY <1>2, <3>1 DEF Heard
    <3> QED BY <3>2, <3>3 DEF Passed
  <2> QED BY <1>6, <2>1 DEF Ours
<1>10. World(k, dn2, sv2, r)
  BY <1>1, <1>3, <1>8, <1>9 DEF World
<1> QED BY <1>10 DEF dn2, SentAll

\* A decided game, or one begun anew: what each client says and shows still holds.
LEMMA WorldReal ==
    ASSUME NEW k, NEW dn, NEW sv, NEW r, World(k, dn, sv, r), NEW w \in Winner,
           \A d \in Client : Own(k[d], sv.id, w),
           \A d, e \in Client :
               (k[d].active.id = sv.id /\ w # NoOne) \/ Heard(k[d].up, "end", sv.id)
                   => k[e].pending.id # sv.id
    PROVE  World(k, dn, sv, w)
<1>1. ServerSane(sv, w)
  BY DEF World, ServerSane
<1>2. \A d \in Client : Mine(d, k[d], dn[d], sv, w)
  BY DEF World, Mine
<1>3. \A d, e \in Client : Ours(k[d], dn[d], k[e], dn[e], sv.id, w)
  BY DEF World, Ours
<1> QED BY <1>1, <1>2, <1>3 DEF World

-----------------------------------------------------------------------------
(* What the server does with the line it reads, the clients being in states k. *)

LEMMA OneLine ==
    ASSUME NEW S, NEW x \in S
    PROVE  <<x>> \in Seq(S) /\ Lines(<<x>>) = {x}
<1>1. Lines(<<x>>) = {<<x>>[i] : i \in 1 .. 1}
  BY DEF Lines
<1>2. 1 .. 1 = {1}
  OBVIOUS
<1>3. Lines(<<x>>) = {<<x>>[1]}
  BY <1>1, <1>2
<1> QED BY <1>3

LEMMA QuietIs == Quiet \in [Client -> Seq(DownLine)] /\ \A d \in Client : Lines(Quiet[d]) = {}
<1>1. << >> \in Seq(DownLine)
  OBVIOUS
<1> QED BY <1>1, NoLines DEF Quiet

LEMMA ToAllIs ==
    ASSUME NEW m \in DownLine
    PROVE  ToAll(m) \in [Client -> Seq(DownLine)] /\ \A d \in Client : Lines(ToAll(m)[d]) = {m}
  BY OneLine DEF ToAll

LEMMA ToIs ==
    ASSUME NEW m \in DownLine, NEW c \in Client
    PROVE  /\ To(c, m) \in [Client -> Seq(DownLine)]
           /\ \A d \in Client : \A x \in Lines(To(c, m)[d]) : d = c /\ x = m
<1>1. <<m>> \in Seq(DownLine) /\ Lines(<<m>>) = {m}
  BY OneLine
<1>2. To(c, m) \in [Client -> Seq(DownLine)]
  BY <1>1, QuietIs DEF To
<1>3. To(c, m)[c] = <<m>> /\ \A d \in Client \ {c} : To(c, m)[d] = Quiet[d]
  BY <1>1, QuietIs DEF To
<1> HIDE DEF Quiet
<1>4. ASSUME NEW d \in Client, NEW x \in Lines(To(c, m)[d])
      PROVE  d = c /\ x = m
  <2>1. CASE d = c
    BY <1>1, <1>3, <1>4, <2>1
  <2>2. CASE d # c
    BY <1>3, <1>4, <2>2, QuietIs
  <2> QED BY <2>1, <2>2
<1> QED BY <1>2, <1>4

LEMMA ServesKeeps ==
    ASSUME NEW k, World(k, down, server, real), NEW t, Turn(k, down, server, t, real),
           NEW news \in [Client -> Seq(DownLine)], Serves(t, news),
           \A d \in Client : \A x \in Lines(news[d]) : News1(k, down, t, d, x)
    PROVE  World(k, down', server', real)
<1>1. World(k, Sent(down, t, news), t, real)
  BY WorldTurns
<1>2. server' = t /\ down' = Sent(down, t, news)
  BY DEF Serves, Sent
<1> QED BY <1>1, <1>2

LEMMA SaneIs ==
    ASSUME NEW sv, NEW r, ServerSane(sv, r)
    PROVE  /\ sv \in ServerState /\ r \in Winner /\ sv.id \in Nat \ {0}
           /\ sv.phase \in {"setup", "playing", "over"} /\ sv.online \in SUBSET Client
           /\ sv.ready \in SUBSET Client /\ sv.said \in [Client -> Winner]
           /\ sv.failed \in SUBSET Client /\ sv.outcome \in Winner /\ sv.told \in SUBSET Client
           /\ sv.offer \in BOOLEAN /\ sv.votes \in SUBSET Client /\ sv.queue \in SUBSET Client
           /\ sv.phase = "over" => sv.ready = {}
           /\ sv.phase # "over" =>
                 sv.queue = {} /\ sv.votes = {} /\ ~ sv.offer /\ sv.outcome = NoOne
  BY DEF ServerSane, ServerState

\* Where the match stands as it was, nothing has to be known of its clients.
LEMMA TurnSame ==
    ASSUME NEW k, World(k, down, server, real), NEW t, ServerSane(t, real),
           t.id = server.id, t.phase = server.phase \/ t.phase = "over",
           Resolved(t) => Resolved(server),
           t.ready \subseteq server.ready, t.votes \subseteq server.votes,
           t.queue \subseteq server.queue
    PROVE  Turn(k, down, server, t, real)
<1>1. Resolved(server) => \A e \in Client : Passed(k[e], down[e], server.id)
  BY DEF World, Mine
<1> QED BY <1>1 DEF Turn

LEMMA NewsIs ==
    ASSUME NEW k, NEW sv, NEW d, NEW x,
           x.type \in {"abort", "rematch"}, x.id <= sv.id
    PROVE  News1(k, down, sv, d, x)
  BY DEF News1

LEMMA IgnoreKeeps ==
    ASSUME NEW k, World(k, down, server, real), Ignore
    PROVE  World(k, down', server', real)
<1>1. ServerSane(server, real)
  BY DEF World
<1>2. Turn(k, down, server, server, real)
  BY <1>1, TurnSame
<1>3. \A d \in Client : \A x \in Lines(Quiet[d]) : News1(k, down, server, d, x)
  BY QuietIs
<1> QED BY <1>2, <1>3, QuietIs, ServesKeeps DEF Ignore

LEMMA OverIs ==
    ASSUME NEW w \in Winner, NEW offer \in BOOLEAN, NEW online \in SUBSET Client,
           ServerSane(server, real)
    PROVE  LET t == Over(w, offer, online)
           IN /\ ServerSane(t, real) /\ t.id = server.id /\ t.phase = "over"
              /\ t.outcome = w /\ t.ready = {} /\ t.votes = {} /\ t.queue = server.queue
<1> DEFINE t == Over(w, offer, online)
<1>1. [c \in Client |-> NoOne] \in [Client -> Winner] /\ server \in ServerState
  BY SaneIs DEF Winner
<1>2. /\ t \in ServerState /\ t.id = server.id /\ t.phase = "over"
      /\ t.outcome = w /\ t.ready = {} /\ t.votes = {} /\ t.queue = server.queue
  BY <1>1 DEF Over, ServerState
<1> HIDE DEF t
<1>3. real \in Winner
  BY SaneIs
<1>4. ServerSane(t, real)
  BY <1>2, <1>3 DEF ServerSane
<1> QED BY <1>2, <1>4 DEF t

LEMMA MessageIs ==
    ASSUME NEW type \in DownType, NEW m \in Nat, NEW w \in Winner, NEW state \in Offer
    PROVE  /\ Message(type, m, w, state) \in DownLine
           /\ Message(type, m, w, state).type = type /\ Message(type, m, w, state).id = m
  BY DEF Message, DownLine, Line

LEMMA CancelKeeps ==
    ASSUME NEW k, World(k, down, server, real), NEW online \in SUBSET Client, Cancel(online)
    PROVE  World(k, down', server', real)
<1> DEFINE t == Over(NoOne, FALSE, online)
           x == AbortOf(server.id)
<1>1. ServerSane(server, real) /\ NoOne \in Winner /\ server.id \in Nat
  BY SaneIs DEF World, Winner
<1>2. /\ ServerSane(t, real) /\ t.id = server.id /\ t.phase = "over"
      /\ t.outcome = NoOne /\ t.ready = {} /\ t.votes = {} /\ t.queue = server.queue
  BY <1>1, OverIs
<1>3. x \in DownLine /\ x.type = "abort" /\ x.id = server.id
  BY <1>1, MessageIs DEF AbortOf, DownType, Offer
<1>4. Serves(t, ToAll(x))
  BY DEF Cancel
<1> HIDE DEF t, x
<1>5. Turn(k, down, server, t, real)
  BY <1>2, TurnSame DEF Resolved
<1>6. ToAll(x) \in [Client -> Seq(DownLine)] /\ \A d \in Client : Lines(ToAll(x)[d]) = {x}
  BY <1>3, ToAllIs
<1>7. \A d \in Client : News1(k, down, t, d, x)
  BY <1>1, <1>2, <1>3, NewsIs
<1>8. \A d \in Client : \A y \in Lines(ToAll(x)[d]) : News1(k, down, t, d, y)
  BY <1>6, <1>7
<1> QED BY <1>4, <1>5, <1>6, <1>8, ServesKeeps

\* A winner is named only of a match that has been played.
LEMMA FinishKeeps ==
    ASSUME NEW k, World(k, down, server, real), NEW w \in Winner,
           NEW online \in SUBSET Client, server.phase = "playing", Finish(w, online)
    PROVE  World(k, down', server', real)
<1> DEFINE offer == online = Client /\ server.id < course.matches
           t == Over(w, offer, online)
           x == ResultOf(server.id, w, offer)
<1>1. ServerSane(server, real) /\ server.id \in Nat /\ offer \in BOOLEAN
  BY SaneIs DEF World
<1>2. Serves(t, ToAll(x))
  BY DEF Finish
<1>3. x \in DownLine /\ x.type = "result" /\ x.id = server.id
  BY <1>1, MessageIs DEF ResultOf, DownType, Offer
<1> HIDE DEF offer
<1>4. /\ ServerSane(t, real) /\ t.id = server.id /\ t.phase = "over"
      /\ t.ready = {} /\ t.votes = {} /\ t.queue = server.queue
  BY <1>1, OverIs
<1> HIDE DEF t, x
<1>5. \A e \in Client : Passed(k[e], down[e], server.id)
  BY DEF World, Mine, Resolved
<1>6. Turn(k, down, server, t, real)
  BY <1>4, TurnSame DEF Resolved
<1>7. ToAll(x) \in [Client -> Seq(DownLine)] /\ \A d \in Client : Lines(ToAll(x)[d]) = {x}
  BY <1>3, ToAllIs
<1>8. \A d \in Client : News1(k, down, t, d, x)
  BY <1>1, <1>3, <1>4, <1>5 DEF News1
<1>9. \A d \in Client : \A y \in Lines(ToAll(x)[d]) : News1(k, down, t, d, y)
  BY <1>7, <1>8
<1> QED BY <1>2, <1>6, <1>7, <1>9, ServesKeeps

\* The same match, and a line to all, or to one, that settles nothing.
LEMMA TellsKeep ==
    ASSUME NEW k, World(k, down, server, real), NEW t, ServerSane(t, real),
           t.id = server.id, t.phase = server.phase, t.outcome = server.outcome,
           t.ready \subseteq server.ready, t.votes \subseteq server.votes,
           t.queue \subseteq server.queue,
           NEW news \in [Client -> Seq(DownLine)], Serves(t, news),
           \A d \in Client : \A x \in Lines(news[d]) :
               x.type \in {"abort", "rematch"} /\ x.id <= server.id
    PROVE  World(k, down', server', real)
<1>1. Turn(k, down, server, t, real)
  BY TurnSame DEF Resolved
<1>2. \A d \in Client : \A x \in Lines(news[d]) : News1(k, down, t, d, x)
  BY NewsIs
<1> QED BY <1>1, <1>2, ServesKeeps

\* What the server may take for granted of a line m that client c has sent.
Popped(k, c, m) ==
    /\ m \in UpLine /\ m.id <= server.id
    /\ m.type = "started" /\ m.id = server.id =>
          /\ Passed(k[c], down[c], server.id)
          /\ k[c].pending.id = server.id => Idle(k[c])
    /\ m.type # "started" /\ m.id = server.id =>
          k[c].pending.id # server.id /\ ~ Heard(down[c], "found", server.id)
    /\ m.type = "queue" =>
          ~ (k[c].pending.id # 0
             /\ (k[c].pending.committed \/ Heard(down[c], "started", k[c].pending.id)))

LEMMA OnStartedKeeps ==
    ASSUME NEW k, World(k, down, server, real), NEW c \in Client, NEW m, Popped(k, c, m),
           m.type = "started", OnStarted(c, m)
    PROVE  World(k, down', server', real)
<1> DEFINE ready == server.ready \cup {c}
           commit == Message("started", server.id, NoOne, "none")
           t == [server EXCEPT !.ready = ready]
           u == [server EXCEPT !.ready = ready, !.phase = "playing"]
<1>1. /\ ServerSane(server, real) /\ server \in ServerState /\ server.id \in Nat
      /\ NoOne \in Winner /\ real \in Winner /\ ready \in SUBSET Client
      /\ \A d \in Client : Mine(d, k[d], down[d], server, real)
  BY SaneIs DEF World, Winner
<1>2. commit \in DownLine /\ commit.type = "started" /\ commit.id = server.id
  BY <1>1, MessageIs DEF DownType, Offer
<1> HIDE DEF commit
<1>3. CASE ~ Running(m)
  BY <1>3, IgnoreKeeps DEF OnStarted
<1>4. CASE Running(m)
  <2>1. m.id = server.id /\ server.phase # "over"
    BY <1>4 DEF Running
  <2>2. server.queue = {} /\ server.votes = {} /\ ~ server.offer /\ server.outcome = NoOne
    BY <1>1, <2>1, SaneIs
  <2>3. /\ Passed(k[c], down[c], server.id)
        /\ k[c].pending.id = server.id => Idle(k[c])
    BY <2>1 DEF Popped
  <2>4. \A d \in ready : /\ Passed(k[d], down[d], server.id)
                         /\ k[d].pending.id = server.id => Idle(k[d])
    BY <1>1, <2>3 DEF Mine
  <2>5. Resolved(server) => \A e \in Client : Passed(k[e], down[e], server.id)
    BY <1>1 DEF Mine
  <2>6. /\ ServerSane(t, real) /\ t.id = server.id /\ t.phase = server.phase
        /\ t.outcome = server.outcome /\ t.ready = ready /\ t.votes = {} /\ t.queue = {}
    BY <1>1, <2>1, <2>2 DEF ServerSane, ServerState
  <2>7. /\ ServerSane(u, real) /\ u.id = server.id /\ u.phase = "playing"
        /\ u.ready = ready /\ u.votes = {} /\ u.queue = {}
    BY <1>1, <2>1, <2>2 DEF ServerSane, ServerState
  <2>8. /\ server.phase = "playing" => Serves(t, To(c, commit))
        /\ server.phase # "playing" /\ ready = Client => Serves(u, ToAll(commit))
        /\ server.phase # "playing" /\ ready # Client => Serves(t, Quiet)
    BY <1>4 DEF OnStarted, t, u, commit
  <2> HIDE DEF t, u, ready
  <2>9. Turn(k, down, server, t, real)
    BY <2>4, <2>5, <2>6 DEF Turn, Resolved
  <2>10. CASE server.phase = "playing"
    <3>1. \A e \in Client : Passed(k[e], down[e], server.id)
      BY <2>5, <2>10 DEF Resolved
    <3>2. News1(k, down, t, c, commit)
      BY <1>1, <1>2, <2>3, <2>6, <2>10, <3>1 DEF News1
    <3>3. To(c, commit) \in [Client -> Seq(DownLine)]
          /\ \A d \in Client : \A x \in Lines(To(c, commit)[d]) : d = c /\ x = commit
      BY <1>2, ToIs
    <3>4. \A d \in Client : \A x \in Lines(To(c, commit)[d]) : News1(k, down, t, d, x)
      BY <3>2, <3>3
    <3> QED BY <2>8, <2>9, <2>10, <3>3, <3>4, ServesKeeps
  <2>11. CASE server.phase # "playing" /\ ready = Client
    <3>1. \A e \in Client : Passed(k[e], down[e], server.id)
      BY <2>4, <2>11
    <3>2. Turn(k, down, server, u, real)
      BY <2>4, <2>7, <3>1 DEF Turn
    <3>3. \A d \in Client : News1(k, down, u, d, commit)
      BY <1>1, <1>2, <2>4, <2>7, <2>11, <3>1 DEF News1
    <3>4. ToAll(commit) \in [Client -> Seq(DownLine)]
          /\ \A d \in Client : Lines(ToAll(commit)[d]) = {commit}
      BY <1>2, ToAllIs
    <3>5. \A d \in Client : \A x \in Lines(ToAll(commit)[d]) : News1(k, down, u, d, x)
      BY <3>3, <3>4
    <3> QED BY <2>8, <2>11, <3>2, <3>4, <3>5, ServesKeeps
  <2>12. CASE server.phase # "playing" /\ ready # Client
    <3>1. \A d \in Client : \A x \in Lines(Quiet[d]) : News1(k, down, t, d, x)
      BY QuietIs
    <3> QED BY <2>8, <2>9, <2>12, <3>1, QuietIs, ServesKeeps
  <2> QED BY <2>10, <2>11, <2>12
<1> QED BY <1>3, <1>4

LEMMA OnAbortKeeps ==
    ASSUME NEW k, World(k, down, server, real), NEW c \in Client, NEW m, OnAbort(c, m)
    PROVE  World(k, down', server', real)
<1>1. server.online \in SUBSET Client /\ server.phase \in {"setup", "playing", "over"}
  BY SaneIs DEF World
<1>2. CASE ~ Running(m)
  BY <1>2, IgnoreKeeps DEF OnAbort
<1>3. CASE Running(m) /\ server.phase = "setup"
  BY <1>1, <1>3, CancelKeeps DEF OnAbort
<1>4. CASE Running(m) /\ server.phase # "setup"
  <2>1. server.phase = "playing" /\ Finish(Opponent(c), server.online)
    BY <1>1, <1>4 DEF Running, OnAbort
  <2> QED BY <1>1, <2>1, OpponentIs, FinishKeeps
<1> QED BY <1>2, <1>3, <1>4

LEMMA ReplayKeeps ==
    ASSUME NEW k, World(k, down, server, real), NEW c \in Client, NEW m, Replay(c, m)
    PROVE  World(k, down', server', real)
<1> DEFINE x == IF server.outcome = NoOne THEN AbortOf(m.id)
                ELSE ResultOf(m.id, server.outcome, server.offer)
<1>1. /\ ServerSane(server, real) /\ server.id \in Nat /\ server.outcome \in Winner
      /\ server.phase \in {"setup", "playing", "over"}
      /\ \A d \in Client : Mine(d, k[d], down[d], server, real)
  BY SaneIs DEF World
<1>2. CASE ~ (m.id = server.id /\ c \in server.told)
  BY <1>2, IgnoreKeeps DEF Replay
<1>3. CASE m.id = server.id /\ c \in server.told
  <2>1. /\ x \in DownLine /\ x.id = server.id
        /\ x.type = IF server.outcome = NoOne THEN "abort" ELSE "result"
    <3>1. CASE server.outcome = NoOne
      BY <1>1, <1>3, <3>1, MessageIs DEF AbortOf, DownType, Offer, Winner
    <3>2. CASE server.outcome # NoOne
      BY <1>1, <1>3, <3>2, MessageIs DEF ResultOf, DownType, Offer
    <3> QED BY <3>1, <3>2
  <2>2. Serves(server, To(c, x))
    BY <1>3 DEF Replay
  <2> HIDE DEF x
  <2>3. Turn(k, down, server, server, real)
    BY <1>1, TurnSame
  <2>4. News1(k, down, server, c, x)
    <3>1. CASE server.outcome = NoOne
      BY <1>1, <2>1, <3>1, NewsIs
    <3>2. CASE server.outcome # NoOne
      <4>1. \A e \in Client : Passed(k[e], down[e], server.id)
        BY <1>1, <3>2 DEF Mine, Resolved
      <4>2. server.phase # "setup"
        BY <1>1, <3>2, SaneIs
      <4> QED BY <1>1, <2>1, <3>2, <4>1, <4>2 DEF News1
    <3> QED BY <3>1, <3>2
  <2>5. To(c, x) \in [Client -> Seq(DownLine)]
        /\ \A d \in Client : \A y \in Lines(To(c, x)[d]) : d = c /\ y = x
    BY <2>1, ToIs
  <2>6. \A d \in Client : \A y \in Lines(To(c, x)[d]) : News1(k, down, server, d, y)
    BY <2>4, <2>5
  <2> QED BY <2>2, <2>3, <2>5, <2>6, ServesKeeps
<1> QED BY <1>2, <1>3

LEMMA OnEndKeeps ==
    ASSUME NEW k, World(k, down, server, real), NEW c \in Client, NEW m \in UpLine, OnEnd(c, m)
    PROVE  World(k, down', server', real)
<1> DEFINE said == [server.said EXCEPT ![c] = m.winner]
           t == [server EXCEPT !.said = said, !.failed = server.failed \ {c}]
<1>1. /\ ServerSane(server, real) /\ server \in ServerState /\ real \in Winner
      /\ server.online \in SUBSET Client /\ server.phase \in {"setup", "playing", "over"}
      /\ server.said \in [Client -> Winner] /\ server.failed \in SUBSET Client
      /\ m.winner \in Winner
  BY SaneIs DEF World, UpLine, Line
<1>2. CASE ~ Running(m)
  BY <1>2, ReplayKeeps DEF OnEnd
<1>3. CASE Running(m) /\ server.phase = "setup"
  BY <1>1, <1>3, CancelKeeps DEF OnEnd
<1>4. CASE Running(m) /\ server.phase # "setup"
  <2>1. server.phase = "playing"
    BY <1>1, <1>4 DEF Running
  <2>2. said \in [Client -> Winner]
    BY <1>1
  <2>3. \/ Ignore \/ Serves(t, Quiet) \/ Finish(m.winner, server.online)
        \/ Cancel(server.online)
    BY <1>4 DEF OnEnd
  <2> HIDE DEF said
  <2>4. /\ t \in ServerState /\ t.id = server.id /\ t.phase = server.phase
        /\ t.outcome = server.outcome /\ t.ready = server.ready /\ t.votes = server.votes
        /\ t.queue = server.queue /\ t.offer = server.offer
    BY <1>1, <2>2 DEF ServerState
  <2> HIDE DEF t
  <2>5. ServerSane(t, real)
    BY <1>1, <2>4 DEF ServerSane
  <2>6. Serves(t, Quiet) => World(k, down', server', real)
    BY <2>4, <2>5, QuietIs, TellsKeep
  <2> QED BY <1>1, <2>1, <2>3, <2>6, IgnoreKeeps, FinishKeeps, CancelKeeps
<1> QED BY <1>2, <1>3, <1>4

LEMMA OnFailureKeeps ==
    ASSUME NEW k, World(k, down, server, real), NEW c \in Client, NEW m, OnFailure(c, m)
    PROVE  World(k, down', server', real)
<1> DEFINE t == [server EXCEPT !.failed = server.failed \cup {c}]
<1>1. /\ ServerSane(server, real) /\ server \in ServerState /\ real \in Winner
      /\ server.online \in SUBSET Client /\ server.failed \in SUBSET Client
  BY SaneIs DEF World
<1>2. \/ Replay(c, m) \/ Cancel(server.online) \/ Ignore \/ Serves(t, Quiet)
  BY DEF OnFailure
<1>3. /\ t \in ServerState /\ t.id = server.id /\ t.phase = server.phase
      /\ t.outcome = server.outcome /\ t.ready = server.ready /\ t.votes = server.votes
      /\ t.queue = server.queue /\ t.offer = server.offer
  BY <1>1 DEF ServerState
<1> HIDE DEF t
<1>4. ServerSane(t, real)
  BY <1>1, <1>3 DEF ServerSane
<1>5. Serves(t, Quiet) => World(k, down', server', real)
  BY <1>3, <1>4, QuietIs, TellsKeep
<1> QED BY <1>1, <1>2, <1>5, IgnoreKeeps, ReplayKeeps, CancelKeeps

\* News of a rematch, of a match the server knows.
LEMMA NewsLine ==
    ASSUME NEW m \in Nat, NEW state \in Offer
    PROVE  News(m, state) \in DownLine /\ News(m, state).type = "rematch" /\ News(m, state).id = m
  BY MessageIs DEF News, DownType, Winner

LEMMA AppendToConcat ==
    ASSUME NEW p \in Seq(DownLine), NEW q \in Seq(DownLine), NEW x \in DownLine
    PROVE  Append(p \o q, x) = p \o Append(q, x)
<1>1. p \o q \in Seq(DownLine) /\ <<x>> \in Seq(DownLine)
  BY ConcatProperties
<1>2. Append(p \o q, x) = (p \o q) \o <<x>>
  BY <1>1, AppendIsConcat
<1>3. Append(q, x) = q \o <<x>>
  BY AppendIsConcat
<1>4. (p \o q) \o <<x>> = p \o (q \o <<x>>)
  BY <1>1, ConcatAssociative
<1> QED BY <1>2, <1>3, <1>4

LEMMA NewMatchKeeps ==
    ASSUME NEW k, World(k, down, server, real), server.phase = "over",
           NEW o \in [Client -> Seq(DownLine)],
           \A d \in Client : \A x \in Lines(o[d]) : x.type = "rematch" /\ x.id <= server.id,
           NEW news, \A d \in Client : news[d] = Append(o[d], FoundNext), Serves(NewMatch, news),
           \A d \in Client : ~ (k[d].pending.id # 0
                                /\ (k[d].pending.committed
                                    \/ Heard(down[d], "started", k[d].pending.id)))
    PROVE  World(k, down', server', real)
<1> DEFINE dn == Sent(down, server, o)
           dn2 == SentAll(dn, NewMatch, FoundNext)
<1>1. /\ ServerSane(server, real) /\ server \in ServerState /\ real \in Winner
      /\ server.id \in Nat \ {0} /\ server.ready = {} /\ NoOne \in Winner
      /\ down \in [Client -> Seq(DownLine)]
  BY SaneIs DEF World, Winner
<1>2. World(k, dn, server, real)
  <2>1. Turn(k, down, server, server, real)
    BY <1>1, TurnSame
  <2>2. \A d \in Client : \A x \in Lines(o[d]) : News1(k, down, server, d, x)
    BY NewsIs
  <2> QED BY <2>1, <2>2, WorldTurns
<1>3. FoundNext \in DownLine /\ FoundNext.type = "found" /\ FoundNext.id = server.id + 1
  <2>1. server.id + 1 \in Nat
    BY <1>1
  <2> QED BY <1>1, <2>1, MessageIs DEF FoundNext, DownType, Offer
<1>4. /\ NewMatch \in ServerState /\ NewMatch.id = server.id + 1 /\ NewMatch.phase = "setup"
      /\ NewMatch.outcome = NoOne /\ NewMatch.ready = {} /\ NewMatch.votes = {}
      /\ NewMatch.queue = {} /\ ~ NewMatch.offer /\ NewMatch.online = server.online
  <2>1. server.id + 1 \in Nat \ {0}
    BY <1>1
  <2> QED BY <1>1, <2>1 DEF NewMatch, ServerState
<1>5. ServerSane(NewMatch, real)
  BY <1>1, <1>4 DEF ServerSane
<1>6. ASSUME NEW d \in Client
      PROVE  /\ dn[d] = IF d \in server.online THEN down[d] \o o[d] ELSE down[d]
             /\ \A n : Heard(dn[d], "started", n) => Heard(down[d], "started", n)
  <2>1. dn[d] = IF d \in server.online THEN down[d] \o o[d] ELSE down[d]
    BY DEF Sent
  <2> HIDE DEF dn
  <2>2. Lines(down[d] \o o[d]) = Lines(down[d]) \cup Lines(o[d])
    BY <1>1, LinesOfConcat
  <2>3. "started" # "rematch"
    OBVIOUS
  <2>4. \A x \in Lines(dn[d]) : x \in Lines(down[d]) \/ x.type = "rematch"
    BY <2>1, <2>2
  <2> QED BY <2>1, <2>3, <2>4 DEF Heard
<1> HIDE DEF dn
<1>7. \A d \in Client : ~ (k[d].pending.id # 0
                           /\ (k[d].pending.committed
                               \/ Heard(dn[d], "started", k[d].pending.id)))
  BY <1>6
<1>8. World(k, dn2, NewMatch, real)
  BY <1>2, <1>3, <1>4, <1>5, <1>7, WorldNext
<1>9. server' = NewMatch /\ down' = dn2
  <2>1. /\ server' = NewMatch
        /\ down' = [d \in Client |-> IF d \in NewMatch.online THEN down[d] \o news[d]
                                     ELSE down[d]]
    BY DEF Serves
  <2> HIDE DEF FoundNext, NewMatch
  <2>2. dn2 = [d \in Client |-> IF d \in NewMatch.online THEN Append(dn[d], FoundNext)
                                ELSE dn[d]]
    BY DEF SentAll
  <2>3. ASSUME NEW d \in Client
        PROVE  (IF d \in NewMatch.online THEN down[d] \o news[d] ELSE down[d])
                 = IF d \in NewMatch.online THEN Append(dn[d], FoundNext) ELSE dn[d]
    <3>1. CASE d \in NewMatch.online
      <4>1. dn[d] = down[d] \o o[d]
        BY <1>4, <1>6, <3>1
      <4>2. Append(down[d] \o o[d], FoundNext) = down[d] \o Append(o[d], FoundNext)
        <5>1. down[d] \in Seq(DownLine) /\ o[d] \in Seq(DownLine)
          BY <1>1
        <5> HIDE DEF FoundNext
        <5> QED BY <1>3, <5>1, AppendToConcat
      <4> QED BY <3>1, <4>1, <4>2
    <3>2. CASE d \notin NewMatch.online
      BY <1>4, <1>6, <3>2
    <3> QED BY <3>1, <3>2
  <2> QED BY <2>1, <2>2, <2>3
<1> QED BY <1>8, <1>9

LEMMA NewsToBoth ==
    ASSUME NEW x \in DownLine
    PROVE  /\ [e \in Client |-> <<x>>] \in [Client -> Seq(DownLine)]
           /\ \A d \in Client : Lines([e \in Client |-> <<x>>][d]) = {x}
  BY OneLine

LEMMA OnRematchKeeps ==
    ASSUME NEW k, World(k, down, server, real), NEW c \in Client, NEW m, Popped(k, c, m),
           m.type = "rematch", OnRematch(c, m)
    PROVE  World(k, down', server', real)
<1> DEFINE d == Opponent(c)
           none == News(m.id, "none")
           t == [server EXCEPT !.offer = FALSE]
           u == [server EXCEPT !.votes = {c}]
           waiting == [Quiet EXCEPT ![c] = <<News(m.id, "waiting")>>,
                                    ![d] = <<News(m.id, "offered")>>]
<1>1. /\ ServerSane(server, real) /\ server \in ServerState /\ real \in Winner
      /\ server.id \in Nat /\ m.id \in Nat /\ m.id <= server.id
      /\ \A e \in Client : Mine(e, k[e], down[e], server, real)
  BY SaneIs DEF World, Popped, UpLine, Line
<1>2. none \in DownLine /\ none.type = "rematch" /\ none.id = m.id
  BY <1>1, NewsLine DEF Offer
<1> HIDE DEF none
<1>3. CASE ~ OnOffer(m)
  <2>1. Serves(server, To(c, none))
    BY <1>3 DEF OnRematch, none
  <2>2. To(c, none) \in [Client -> Seq(DownLine)]
        /\ \A e \in Client : \A x \in Lines(To(c, none)[e]) : e = c /\ x = none
    BY <1>2, ToIs
  <2>3. \A e \in Client : \A x \in Lines(To(c, none)[e]) :
            x.type \in {"abort", "rematch"} /\ x.id <= server.id
    BY <1>1, <1>2, <2>2
  <2> QED BY <1>1, <2>1, <2>2, <2>3, TellsKeep
<1>4. CASE OnOffer(m)
  <2>1. server.offer /\ m.id = server.id /\ server.phase = "over"
    BY <1>1, <1>4, SaneIs DEF OnOffer
  <2>2. k[c].pending.id # server.id /\ ~ Heard(down[c], "found", server.id)
    BY <2>1 DEF Popped
  <2>3. \/ Serves(t, ToAll(none))
        \/ Serves(u, waiting)
        \/ /\ server.votes \cup {c} = Client
           /\ Serves(NewMatch, [e \in Client |-> <<News(m.id, "starting"), FoundNext>>])
    BY <1>4 DEF OnRematch, none
  <2>4. CASE Serves(t, ToAll(none))
    <3>1. /\ t \in ServerState /\ t.id = server.id /\ t.phase = server.phase
          /\ t.outcome = server.outcome /\ t.ready = server.ready /\ t.votes = server.votes
          /\ t.queue = server.queue /\ ~ t.offer
      BY <1>1 DEF ServerState
    <3> HIDE DEF t
    <3>2. ServerSane(t, real)
      BY <1>1, <3>1 DEF ServerSane
    <3>3. ToAll(none) \in [Client -> Seq(DownLine)]
          /\ \A e \in Client : Lines(ToAll(none)[e]) = {none}
      BY <1>2, ToAllIs
    <3>4. \A e \in Client : \A x \in Lines(ToAll(none)[e]) :
              x.type \in {"abort", "rematch"} /\ x.id <= server.id
      BY <1>1, <1>2, <3>3
    <3> QED BY <2>4, <3>1, <3>2, <3>3, <3>4, TellsKeep
  <2>5. CASE Serves(u, waiting)
    <3>1. /\ u \in ServerState /\ u.id = server.id /\ u.phase = server.phase
          /\ u.outcome = server.outcome /\ u.ready = server.ready /\ u.votes = {c}
          /\ u.queue = server.queue
      BY <1>1 DEF ServerState
    <3> HIDE DEF u
    <3>2. ServerSane(u, real)
      BY <1>1, <2>1, <3>1 DEF ServerSane
    <3>3. Turn(k, down, server, u, real)
      <4>1. Resolved(u) => \A e \in Client : Passed(k[e], down[e], server.id)
        BY <1>1, <3>1 DEF Mine, Resolved
      <4> QED BY <2>1, <2>2, <3>1, <3>2, <4>1 DEF Turn
    <3>4. /\ News(m.id, "waiting") \in DownLine /\ News(m.id, "waiting").type = "rematch"
          /\ News(m.id, "waiting").id = m.id
          /\ News(m.id, "offered") \in DownLine /\ News(m.id, "offered").type = "rematch"
          /\ News(m.id, "offered").id = m.id
      BY <1>1, NewsLine DEF Offer
    <3>5. /\ <<News(m.id, "waiting")>> \in Seq(DownLine)
          /\ Lines(<<News(m.id, "waiting")>>) = {News(m.id, "waiting")}
          /\ <<News(m.id, "offered")>> \in Seq(DownLine)
          /\ Lines(<<News(m.id, "offered")>>) = {News(m.id, "offered")}
      BY <3>4, OneLine
    <3> DEFINE aw == <<News(m.id, "waiting")>>
               bo == <<News(m.id, "offered")>>
    <3>6. waiting = [Quiet EXCEPT ![c] = aw, ![d] = bo]
      OBVIOUS
    <3>7. d \in Client /\ d # c /\ Client = {c, d}
      BY OpponentIs
    <3> HIDE DEF aw, bo, d, waiting
    <3>8. /\ waiting \in [Client -> Seq(DownLine)] /\ waiting[c] = aw /\ waiting[d] = bo
      <4>1. Quiet \in [Client -> Seq(DownLine)] /\ aw \in Seq(DownLine) /\ bo \in Seq(DownLine)
        BY <3>5, QuietIs DEF aw, bo
      <4> QED BY <3>6, <3>7, <4>1
    <3>9. \A e \in Client : \A x \in Lines(waiting[e]) :
              x.type \in {"abort", "rematch"} /\ x.id <= u.id
      <4> TAKE e \in Client
      <4>1. waiting[e] \in {aw, bo}
        BY <3>7, <3>8
      <4>2. \A x \in Lines(aw) \cup Lines(bo) : x.type = "rematch" /\ x.id = m.id
        BY <3>4, <3>5 DEF aw, bo
      <4>3. Lines(waiting[e]) \subseteq Lines(aw) \cup Lines(bo)
        BY <4>1
      <4> QED BY <1>1, <3>1, <4>2, <4>3
    <3>10. \A e \in Client : \A x \in Lines(waiting[e]) : News1(k, down, u, e, x)
      BY <3>9, NewsIs
    <3> QED BY <2>5, <3>3, <3>8, <3>10, ServesKeeps
  <2>6. CASE /\ server.votes \cup {c} = Client
             /\ Serves(NewMatch, [e \in Client |-> <<News(m.id, "starting"), FoundNext>>])
    <3> DEFINE x == News(m.id, "starting")
               o == [e \in Client |-> <<x>>]
               news == [e \in Client |-> <<x, FoundNext>>]
    <3>1. x \in DownLine /\ x.type = "rematch" /\ x.id = m.id
      BY <1>1, NewsLine DEF Offer
    <3>2. Serves(NewMatch, news)
      BY <2>6
    <3> HIDE DEF x
    <3>3. \A e \in Client : news[e] = Append(<<x>>, FoundNext) /\ o[e] = <<x>>
      OBVIOUS
    <3>4. o \in [Client -> Seq(DownLine)] /\ \A e \in Client : Lines(o[e]) = {x}
      BY <3>1, NewsToBoth
    <3>5. \A e \in Client : ~ (k[e].pending.id # 0
                               /\ (k[e].pending.committed
                                   \/ Heard(down[e], "started", k[e].pending.id)))
      <4> TAKE e \in Client
      <4>1. k[e].pending.id # server.id
        BY <1>1, <2>2, <2>6 DEF Mine
      <4> QED BY <1>1, <4>1 DEF Mine
    <3>6. \A e \in Client : \A y \in Lines(o[e]) : y.type = "rematch" /\ y.id <= server.id
      BY <1>1, <3>1, <3>4
    <3> HIDE DEF o, news
    <3> QED BY <2>1, <3>2, <3>3, <3>4, <3>5, <3>6, NewMatchKeeps
  <2> QED BY <2>3, <2>4, <2>5, <2>6
<1> QED BY <1>3, <1>4

LEMMA OnDeclineKeeps ==
    ASSUME NEW k, World(k, down, server, real), NEW c \in Client, NEW m, Popped(k, c, m),
           OnDecline(c, m)
    PROVE  World(k, down', server', real)
<1> DEFINE none == News(m.id, "none")
           t == [server EXCEPT !.offer = FALSE]
<1>1. /\ ServerSane(server, real) /\ server \in ServerState /\ real \in Winner
      /\ m.id \in Nat /\ m.id <= server.id
  BY SaneIs DEF World, Popped, UpLine, Line
<1>2. none \in DownLine /\ none.type = "rematch" /\ none.id = m.id
  BY <1>1, NewsLine DEF Offer
<1>3. Serves(t, ToAll(none)) \/ Serves(server, To(c, none))
  BY DEF OnDecline
<1> HIDE DEF none
<1>4. To(c, none) \in [Client -> Seq(DownLine)]
      /\ \A e \in Client : \A x \in Lines(To(c, none)[e]) : e = c /\ x = none
  BY <1>2, ToIs
<1>5. ToAll(none) \in [Client -> Seq(DownLine)]
      /\ \A e \in Client : Lines(ToAll(none)[e]) = {none}
  BY <1>2, ToAllIs
<1>6. CASE Serves(server, To(c, none))
  <2>1. \A e \in Client : \A x \in Lines(To(c, none)[e]) :
            x.type \in {"abort", "rematch"} /\ x.id <= server.id
    BY <1>1, <1>2, <1>4
  <2> QED BY <1>1, <1>4, <1>6, <2>1, TellsKeep
<1>7. CASE Serves(t, ToAll(none))
  <2>1. /\ t \in ServerState /\ t.id = server.id /\ t.phase = server.phase
        /\ t.outcome = server.outcome /\ t.ready = server.ready /\ t.votes = server.votes
        /\ t.queue = server.queue /\ ~ t.offer
    BY <1>1 DEF ServerState
  <2> HIDE DEF t
  <2>2. ServerSane(t, real)
    BY <1>1, <2>1 DEF ServerSane
  <2>3. \A e \in Client : \A x \in Lines(ToAll(none)[e]) :
            x.type \in {"abort", "rematch"} /\ x.id <= server.id
    BY <1>1, <1>2, <1>5
  <2> QED BY <1>5, <1>7, <2>1, <2>2, <2>3, TellsKeep
<1> QED BY <1>3, <1>6, <1>7

LEMMA OnQueueKeeps ==
    ASSUME NEW k, World(k, down, server, real), NEW c \in Client, NEW m, Popped(k, c, m),
           m.type = "queue", OnQueue(c)
    PROVE  World(k, down', server', real)
<1> DEFINE closed == IF server.offer THEN <<News(server.id, "none")>> ELSE << >>
           o == [e \in Client |-> closed]
           news == [e \in Client |-> Append(closed, FoundNext)]
           t == [server EXCEPT !.queue = {c}, !.offer = FALSE, !.votes = {}]
<1>1. /\ ServerSane(server, real) /\ server \in ServerState /\ real \in Winner
      /\ server.id \in Nat /\ server.ready \in SUBSET Client
      /\ \A e \in Client : Mine(e, k[e], down[e], server, real)
  BY SaneIs DEF World
<1>2. ~ (k[c].pending.id # 0
         /\ (k[c].pending.committed \/ Heard(down[c], "started", k[c].pending.id)))
  BY DEF Popped
<1>3. /\ closed \in Seq(DownLine)
      /\ \A x \in Lines(closed) : x.type = "rematch" /\ x.id = server.id
  <2>1. /\ News(server.id, "none") \in DownLine /\ News(server.id, "none").type = "rematch"
        /\ News(server.id, "none").id = server.id
    BY <1>1, NewsLine DEF Offer
  <2>2. /\ <<News(server.id, "none")>> \in Seq(DownLine)
        /\ Lines(<<News(server.id, "none")>>) = {News(server.id, "none")}
    BY <2>1, OneLine
  <2>3. << >> \in Seq(DownLine) /\ Lines(<< >>) = {}
    BY NoLines
  <2>4. CASE server.offer
    BY <2>1, <2>2, <2>4
  <2>5. CASE ~ server.offer
    BY <2>3, <2>5
  <2> QED BY <2>4, <2>5
<1>4. \/ Ignore
      \/ server.phase = "over" /\ server.queue \cup {c} = Client /\ Serves(NewMatch, news)
      \/ server.phase = "over" /\ Serves(t, o)
  BY DEF OnQueue
<1> HIDE DEF closed
<1>5. /\ o \in [Client -> Seq(DownLine)] /\ \A e \in Client : o[e] = closed
      /\ \A e \in Client : news[e] = Append(o[e], FoundNext)
  BY <1>3
<1> HIDE DEF o, news
<1>6. \A e \in Client : \A x \in Lines(o[e]) : x.type = "rematch" /\ x.id <= server.id
  BY <1>1, <1>3, <1>5
<1>7. CASE server.phase = "over" /\ server.queue \cup {c} = Client /\ Serves(NewMatch, news)
  <2>1. \A e \in Client : ~ (k[e].pending.id # 0
                             /\ (k[e].pending.committed
                                 \/ Heard(down[e], "started", k[e].pending.id)))
    <3> TAKE e \in Client
    <3>1. CASE e = c
      BY <1>2, <3>1
    <3>2. CASE e # c
      <4>1. e \in server.queue
        BY <1>7, <3>2
      <4> QED BY <1>1, <4>1 DEF Mine
    <3> QED BY <3>1, <3>2
  <2> QED BY <1>5, <1>6, <1>7, <2>1, NewMatchKeeps
<1>8. CASE server.phase = "over" /\ Serves(t, o)
  <2>1. /\ t \in ServerState /\ t.id = server.id /\ t.phase = server.phase
        /\ t.outcome = server.outcome /\ t.ready = server.ready /\ t.votes = {}
        /\ t.queue = {c}
    BY <1>1 DEF ServerState
  <2> HIDE DEF t
  <2>2. ServerSane(t, real)
    BY <1>1, <1>8, <2>1 DEF ServerSane
  <2>3. Turn(k, down, server, t, real)
    <3>1. Resolved(t) => \A e \in Client : Passed(k[e], down[e], server.id)
      BY <1>1, <2>1 DEF Mine, Resolved
    <3> QED BY <1>2, <2>1, <2>2, <3>1 DEF Turn
  <2>4. \A e \in Client : \A x \in Lines(o[e]) : News1(k, down, t, e, x)
    BY <1>6, <2>1, NewsIs
  <2> QED BY <1>5, <1>8, <2>3, <2>4, ServesKeeps
<1> QED BY <1>4, <1>7, <1>8, IgnoreKeeps

LEMMA OnCloseKeeps ==
    ASSUME NEW k, World(k, down, server, real), NEW c \in Client, OnClose(c)
    PROVE  World(k, down', server', real)
<1> DEFINE online == server.online \ {c}
           x == News(server.id, "none")
           t == [server EXCEPT !.online = online, !.queue = server.queue \ {c},
                               !.offer = FALSE, !.votes = {}, !.told = server.told \ {c}]
           u == Over(NoOne, FALSE, {})
<1>1. /\ ServerSane(server, real) /\ server \in ServerState /\ real \in Winner
      /\ server.id \in Nat /\ NoOne \in Winner /\ {} \in SUBSET Client
      /\ online \in SUBSET Client /\ server.queue \in SUBSET Client
      /\ server.told \in SUBSET Client /\ server.votes \in SUBSET Client
  BY SaneIs DEF World, Winner
<1>2. \/ Cancel(online)
      \/ server.phase = "playing" /\ Finish(Opponent(c), online)
      \/ Serves(u, Quiet)
      \/ Serves(t, IF server.offer THEN ToAll(x) ELSE Quiet)
  BY DEF OnClose
<1>3. x \in DownLine /\ x.type = "rematch" /\ x.id = server.id
  BY <1>1, NewsLine DEF Offer
<1> HIDE DEF x
<1>4. /\ t \in ServerState /\ t.id = server.id /\ t.phase = server.phase
      /\ t.outcome = server.outcome /\ t.ready = server.ready /\ t.votes = {}
      /\ t.queue = server.queue \ {c} /\ ~ t.offer
  BY <1>1 DEF ServerState
<1>5. /\ ServerSane(u, real) /\ u.id = server.id /\ u.phase = "over" /\ u.outcome = NoOne
      /\ u.ready = {} /\ u.votes = {} /\ u.queue = server.queue
  <2>1. PICK nobody \in SUBSET Client : nobody = {}
    OBVIOUS
  <2>2. PICK no \in BOOLEAN : no = FALSE
    OBVIOUS
  <2>3. /\ ServerSane(Over(NoOne, no, nobody), real)
        /\ Over(NoOne, no, nobody).id = server.id
        /\ Over(NoOne, no, nobody).phase = "over"
        /\ Over(NoOne, no, nobody).outcome = NoOne
        /\ Over(NoOne, no, nobody).ready = {} /\ Over(NoOne, no, nobody).votes = {}
        /\ Over(NoOne, no, nobody).queue = server.queue
    BY <1>1, OverIs
  <2> QED BY <2>1, <2>2, <2>3
<1> HIDE DEF t, u, online
<1>6. ServerSane(t, real)
  BY <1>1, <1>4 DEF ServerSane
<1>7. CASE Serves(t, IF server.offer THEN ToAll(x) ELSE Quiet)
  <2> DEFINE news == IF server.offer THEN ToAll(x) ELSE Quiet
  <2>1. /\ news \in [Client -> Seq(DownLine)]
        /\ \A e \in Client : Lines(news[e]) \subseteq {x}
    <3>1. CASE server.offer
      BY <1>3, <3>1, ToAllIs
    <3>2. CASE ~ server.offer
      BY <3>2, QuietIs
    <3> QED BY <3>1, <3>2
  <2> HIDE DEF news
  <2>2. \A e \in Client : \A y \in Lines(news[e]) :
            y.type \in {"abort", "rematch"} /\ y.id <= server.id
    BY <1>1, <1>3, <2>1
  <2>3. Serves(t, news)
    BY <1>7 DEF news
  <2> QED BY <1>1, <1>4, <1>6, <2>1, <2>2, <2>3, TellsKeep
<1>8. CASE Serves(u, Quiet)
  <2>1. Turn(k, down, server, u, real)
    BY <1>1, <1>5, TurnSame DEF Resolved
  <2>2. \A e \in Client : \A y \in Lines(Quiet[e]) : News1(k, down, u, e, y)
    BY QuietIs
  <2> QED BY <1>8, <2>1, <2>2, QuietIs, ServesKeeps
<1>9. CASE server.phase = "playing" /\ Finish(Opponent(c), online)
  BY <1>1, <1>9, OpponentIs, FinishKeeps
<1> QED BY <1>1, <1>2, <1>7, <1>8, <1>9, CancelKeeps

-----------------------------------------------------------------------------
(* The actions. *)

LEMMA ClientInvIs ==
    ASSUME ClientInv
    PROVE  /\ World(client, down, server, real) /\ ServerSane(server, real)
           /\ server \in ServerState /\ server.id \in Nat \ {0} /\ real \in Winner
           /\ client \in [Client -> ClientState] /\ down \in [Client -> Seq(DownLine)]
           /\ \A c \in Client :
                 /\ client[c] \in ClientState /\ Mine(c, client[c], down[c], server, real)
                 /\ Own(client[c], server.id, real) /\ Feed(client[c], down[c], server.id)
           /\ \A c, d \in Client :
                 Ours(client[c], down[c], client[d], down[d], server.id, real)
<1>1. World(client, down, server, real)
  BY DEF ClientInv
<1> QED BY <1>1, WorldParts

\* A hook of client c that disturbs nobody.
LEMMA TurnKeeps ==
    ASSUME ClientInv, NEW c \in Client, NEW t, Keeps(client[c], t, server.id, real),
           Turns(c, t), UNCHANGED <<down, server, real>>
    PROVE  ClientInv'
<1>1. World(client, down, server, real) /\ down \in [Client -> Seq(DownLine)]
  BY ClientInvIs
<1>2. Moves(client[c], down[c], t, down[c], real) /\ Own(t, server.id, real)
  BY StepMoves DEF Keeps
<1>3. World([client EXCEPT ![c] = t], [down EXCEPT ![c] = down[c]], server, real)
  BY <1>1, <1>2, WorldMoves
<1>4. [down EXCEPT ![c] = down[c]] = down
  BY <1>1
<1>5. World([client EXCEPT ![c] = t], down, server, real)
  BY <1>3, <1>4
<1>6. client' = [client EXCEPT ![c] = t] /\ down' = down /\ server' = server /\ real' = real
  BY DEF Turns
<1> QED BY <1>5, <1>6 DEF ClientInv

LEMMA ConnectStep ==
    ASSUME ClientInv, NEW c \in Client, Connect(c)
    PROVE  ClientInv'
<1>1. Own(client[c], server.id, real) /\ server.id \in Nat \ {0}
  BY ClientInvIs
<1>2. Keeps(client[c], [client[c] EXCEPT !.net = "linked"], server.id, real)
  BY <1>1, ConnectKeeps
<1>3. Turns(c, [client[c] EXCEPT !.net = "linked"]) /\ UNCHANGED <<down, server, real>>
  BY DEF Connect
<1> QED BY <1>2, <1>3, TurnKeeps

LEMMA RetryStep ==
    ASSUME ClientInv, NEW c \in Client, Retry(c)
    PROVE  ClientInv'
<1>1. Own(client[c], server.id, real) /\ server.id \in Nat \ {0}
  BY ClientInvIs
<1>2. /\ client[c].pending.id # 0 /\ client[c].net = "open"
      /\ Turns(c, NextAttempt(client[c])) /\ UNCHANGED <<down, server, real>>
  BY DEF Retry
<1>3. client[c].pending.stage # "ready"
  BY <1>1, <1>2, OwnIs DEF InSetup
<1>4. Keeps(client[c], NextAttempt(client[c]), server.id, real)
  BY <1>1, <1>2, <1>3, NextAttemptKeeps
<1> QED BY <1>2, <1>4, TurnKeeps

LEMMA SetupTimeoutStep ==
    ASSUME ClientInv, NEW c \in Client, SetupTimeout(c)
    PROVE  ClientInv'
<1>1. Own(client[c], server.id, real) /\ server.id \in Nat \ {0}
  BY ClientInvIs
<1>2. Keeps(client[c], AbortSetup(client[c]), server.id, real)
  BY <1>1, OwnIs, AbortSetupKeeps DEF Keeps
<1>3. Turns(c, AbortSetup(client[c])) /\ UNCHANGED <<down, server, real>>
  BY DEF SetupTimeout
<1> QED BY <1>2, <1>3, TurnKeeps

LEMMA PreSwapStep ==
    ASSUME ClientInv, NEW c \in Client, PreSwap(c)
    PROVE  ClientInv'
<1> DEFINE s == [client[c] EXCEPT !.opening = FALSE, !.screen = "hub", !.seen = NoOne]
           left == IF s.active.id # 0 /\ ~ s.active.reported THEN Forfeit(c, s) ELSE s
           t == IF s.pending.id # 0 THEN s ELSE ClearMatch(StopNet(left))
<1>1. Own(client[c], server.id, real) /\ server.id \in Nat \ {0}
  BY ClientInvIs
<1>2. Keeps(client[c], t, server.id, real)
  BY <1>1, PreSwapKeeps
<1>3. Turns(c, t) /\ UNCHANGED <<down, server, real>>
  BY DEF PreSwap
<1> HIDE DEF t
<1> QED BY <1>2, <1>3, TurnKeeps

\* A frame of the game, and what it shows from then on.
LEMMA FrameStep ==
    ASSUME ClientInv, NEW c \in Client, client[c].pending.id = 0,
           NEW t \in ClientState, t.up = client[c].up, t.pending = client[c].pending,
           t.active = client[c].active, t.result = client[c].result,
           t.correcting \/ t.seen = real,
           Turns(c, t) \/ Turns(c, PollCompletion(t)), UNCHANGED <<down, server, real>>
    PROVE  ClientInv'
<1>1. Own(client[c], server.id, real) /\ server.id \in Nat \ {0}
  BY ClientInvIs
<1>2. Shown(t, server.id, real)
  BY DEF Shown
<1>3. Keeps(client[c], t, server.id, real)
  BY <1>1, <1>2, ShownKeeps
<1>4. Keeps(t, PollCompletion(t), server.id, real)
  BY <1>1, <1>3, PollCompletionKeeps DEF Keeps
<1>5. Keeps(client[c], PollCompletion(t), server.id, real)
  BY <1>3, <1>4, KeepsAgain DEF Keeps
<1> QED BY <1>3, <1>5, TurnKeeps

LEMMA PlayFrameStep ==
    ASSUME ClientInv, NEW c \in Client, PlayFrame(c)
    PROVE  ClientInv'
<1> DEFINE t == [client[c] EXCEPT !.seen = real]
<1>1. client[c] \in ClientState /\ real \in Winner
  BY ClientInvIs
<1>2. /\ t \in ClientState /\ t.up = client[c].up /\ t.pending = client[c].pending
      /\ t.active = client[c].active /\ t.result = client[c].result /\ t.seen = real
  BY <1>1 DEF ClientState
<1>3. /\ client[c].pending.id = 0 /\ Turns(c, PollCompletion(t))
      /\ UNCHANGED <<down, server, real>>
  BY DEF PlayFrame, Playing, Shows
<1> HIDE DEF t
<1> QED BY <1>2, <1>3, FrameStep

LEMMA BeginCorrectionStep ==
    ASSUME ClientInv, NEW c \in Client, NEW w \in Client, BeginCorrection(c, w)
    PROVE  ClientInv'
<1> DEFINE t == [client[c] EXCEPT !.correcting = TRUE, !.seen = w]
<1>1. client[c] \in ClientState /\ w \in Winner
  BY ClientInvIs DEF Winner
<1>2. /\ t \in ClientState /\ t.up = client[c].up /\ t.pending = client[c].pending
      /\ t.active = client[c].active /\ t.result = client[c].result /\ t.correcting
  BY <1>1 DEF ClientState
<1>3. /\ client[c].pending.id = 0 /\ Turns(c, t) /\ UNCHANGED <<down, server, real>>
  BY DEF BeginCorrection, Playing
<1> HIDE DEF t
<1> QED BY <1>2, <1>3, FrameStep

LEMMA EndCorrectionStep ==
    ASSUME ClientInv, NEW c \in Client, EndCorrection(c)
    PROVE  ClientInv'
<1> DEFINE t == [client[c] EXCEPT !.correcting = FALSE, !.seen = real]
<1>1. client[c] \in ClientState /\ real \in Winner
  BY ClientInvIs
<1>2. /\ t \in ClientState /\ t.up = client[c].up /\ t.pending = client[c].pending
      /\ t.active = client[c].active /\ t.result = client[c].result /\ t.seen = real
  BY <1>1 DEF ClientState
<1>3. /\ client[c].pending.id = 0 /\ Turns(c, PollCompletion(t))
      /\ UNCHANGED <<down, server, real>>
  BY DEF EndCorrection, Playing
<1> HIDE DEF t
<1> QED BY <1>2, <1>3, FrameStep

LEMMA NativeReturnStep ==
    ASSUME ClientInv, NEW c \in Client, NativeReturn(c)
    PROVE  ClientInv'
<1> DEFINE s == PollCompletion(client[c])
           main == [s EXCEPT !.screen = "main", !.seen = NoOne]
           hub == OpenHub(ClearMatch(StopNet(main)))
<1>1. Own(client[c], server.id, real) /\ server.id \in Nat \ {0}
  BY ClientInvIs
<1>2. Keeps(client[c], main, server.id, real) /\ Keeps(client[c], hub, server.id, real)
  BY <1>1, NativeReturnKeeps
<1>3. Turns(c, main) \/ Turns(c, hub)
  BY DEF NativeReturn
<1>4. UNCHANGED <<down, server, real>>
  BY DEF NativeReturn
<1> HIDE DEF main, hub
<1> QED BY <1>2, <1>3, <1>4, TurnKeeps

LEMMA AbandonStep ==
    ASSUME ClientInv, NEW c \in Client, Abandon(c)
    PROVE  ClientInv'
<1>1. Own(client[c], server.id, real) /\ server.id \in Nat \ {0}
  BY ClientInvIs
<1>2. /\ client[c].active.id # 0 /\ UNCHANGED <<down, server, real>>
      /\ Turns(c, TransportFailure(client[c])) \/ Turns(c, Forfeit(c, client[c]))
  BY DEF Abandon
<1>3. Keeps(client[c], TransportFailure(client[c]), server.id, real)
  BY <1>1, <1>2, TransportFailureKeeps
<1>4. Keeps(client[c], Forfeit(c, client[c]), server.id, real)
  BY <1>1, ForfeitKeeps
<1> QED BY <1>2, <1>3, <1>4, TurnKeeps

LEMMA TransportFailsStep ==
    ASSUME ClientInv, NEW c \in Client, TransportFails(c)
    PROVE  ClientInv'
<1>1. Own(client[c], server.id, real) /\ server.id \in Nat \ {0}
  BY ClientInvIs
<1>2. UNCHANGED <<down, server, real>>
  BY DEF TransportFails
<1>3. CASE client[c].pending.id = 0
  <2>1. Turns(c, TransportFailure(client[c]))
    BY <1>3 DEF TransportFails
  <2>2. Keeps(client[c], TransportFailure(client[c]), server.id, real)
    BY <1>1, <1>3, TransportFailureKeeps
  <2> QED BY <1>2, <2>1, <2>2, TurnKeeps
<1>4. CASE client[c].pending.id # 0 /\ client[c].pending.stage = "ready"
  <2>1. Turns(c, AbortSetup(client[c]))
    BY <1>4 DEF TransportFails
  <2>2. Keeps(client[c], AbortSetup(client[c]), server.id, real)
    BY <1>1, OwnIs, AbortSetupKeeps DEF Keeps
  <2> QED BY <1>2, <2>1, <2>2, TurnKeeps
<1>5. CASE client[c].pending.id # 0 /\ client[c].pending.stage # "ready"
  <2>1. Turns(c, NextAttempt(client[c]))
    BY <1>5 DEF TransportFails
  <2>2. Keeps(client[c], NextAttempt(client[c]), server.id, real)
    BY <1>1, <1>5, NextAttemptKeeps
  <2> QED BY <1>2, <2>1, <2>2, TurnKeeps
<1> QED BY <1>3, <1>4, <1>5

LEMMA RematchIsAlike ==
    ASSUME NEW s \in ClientState, NEW state \in Offer
    PROVE  Alike(s, [s EXCEPT !.result.rematch = state])
<1> DEFINE t == [s EXCEPT !.result.rematch = state]
<1>1. /\ t \in ClientState /\ t.up = s.up /\ t.pending = s.pending /\ t.net = s.net
      /\ t.active = s.active /\ t.seen = s.seen /\ t.correcting = s.correcting
      /\ t.result = [s.result EXCEPT !.rematch = state]
  BY DEF ClientState
<1>2. t.result.id = s.result.id
  BY <1>1, StateIs
<1> HIDE DEF t
<1>3. Alike(s, t)
  BY <1>1, <1>2 DEF Alike
<1> QED BY <1>3 DEF t

LEMMA AskRematchStep ==
    ASSUME ClientInv, NEW c \in Client, AskRematch(c)
    PROVE  ClientInv'
<1> DEFINE s == client[c]
           spoken == SendLine(s, "rematch", s.result.id, NoOne)
           t == [spoken EXCEPT !.result.rematch = "waiting"]
<1>1. Own(s, server.id, real) /\ server.id \in Nat \ {0}
  BY ClientInvIs
<1>2. Turns(c, t) /\ UNCHANGED <<down, server, real>>
  BY DEF AskRematch
<1>3. Keeps(s, spoken, server.id, real)
  BY <1>1, SendLineKeeps
<1> HIDE DEF spoken
<1>4. spoken \in ClientState /\ "waiting" \in Offer
  BY <1>3, OwnIs DEF Keeps, Offer
<1>5. Alike(spoken, t)
  BY <1>4, RematchIsAlike
<1> HIDE DEF t
<1>6. Keeps(s, t, server.id, real)
  BY <1>3, <1>5, AlikeAgain
<1> QED BY <1>2, <1>6, TurnKeeps

LEMMA KeepsSelf ==
    ASSUME NEW s, NEW a, NEW r, Own(s, a, r)
    PROVE  Keeps(s, s, a, r)
  BY StepSelf DEF Keeps

LEMMA EndRematchStep ==
    ASSUME ClientInv, NEW c \in Client, EndRematch(c)
    PROVE  ClientInv'
<1> DEFINE s == client[c]
<1>1. Own(s, server.id, real) /\ server.id \in Nat \ {0}
  BY ClientInvIs
<1>2. PICK t \in {s, SendLine(s, "decline", s.result.id, NoOne)} :
          Turns(c, [t EXCEPT !.result.rematch = "none"])
  BY DEF EndRematch
<1>3. UNCHANGED <<down, server, real>>
  BY DEF EndRematch
<1>4. Keeps(s, t, server.id, real)
  BY <1>1, <1>2, SendLineKeeps, KeepsSelf
<1>5. t \in ClientState /\ "none" \in Offer
  BY <1>4, OwnIs DEF Keeps, Offer
<1>6. Alike(t, [t EXCEPT !.result.rematch = "none"])
  BY <1>5, RematchIsAlike
<1>7. Keeps(s, [t EXCEPT !.result.rematch = "none"], server.id, real)
  BY <1>4, <1>6, AlikeAgain
<1> QED BY <1>2, <1>3, <1>7, TurnKeeps

\* A player who queues has first declined the rematch that was open.
LEMMA JoinQueueStep ==
    ASSUME ClientInv, NEW c \in Client, JoinQueue(c)
    PROVE  ClientInv'
<1> DEFINE s == client[c]
           declined == IF LiveRematch(s) THEN SendLine(s, "decline", s.result.id, NoOne) ELSE s
           spoken == SendLine(declined, "queue", 0, NoOne)
           toast == IF LiveRematch(s) THEN NoResult ELSE s.result
           t == [spoken EXCEPT !.result = toast, !.queued = TRUE]
<1>1. Own(s, server.id, real) /\ server.id \in Nat \ {0} /\ s \in ClientState
  BY ClientInvIs
<1>2. s.pending.id = 0 /\ Turns(c, t) /\ UNCHANGED <<down, server, real>>
  BY DEF JoinQueue
<1>3. s.result.id \in Nat /\ NoOne \in Winner /\ "decline" \in UpType /\ "queue" \in UpType
  BY <1>1, StateIs DEF Winner, UpType
<1>4. /\ Keeps(s, declined, server.id, real) /\ declined.pending = s.pending
      /\ declined.result = s.result
  <2> DEFINE line == SendLine(s, "decline", s.result.id, NoOne)
  <2>1. Keeps(s, line, server.id, real)
    BY <1>1, SendLineKeeps
  <2>2. line.pending = s.pending /\ line.result = s.result
    BY <1>1, <1>3, SendLineIs
  <2> HIDE DEF line
  <2>3. Keeps(s, s, server.id, real)
    BY <1>1, KeepsSelf
  <2>4. declined = line \/ declined = s
    BY DEF line
  <2> HIDE DEF declined
  <2> QED BY <2>1, <2>2, <2>3, <2>4
<1> HIDE DEF declined
<1>5. Own(declined, server.id, real) /\ declined \in ClientState
  BY <1>4, OwnIs DEF Keeps
<1>6. /\ Keeps(declined, spoken, server.id, real) /\ spoken.pending = s.pending
      /\ spoken.result = s.result
  <2>1. Keeps(declined, spoken, server.id, real)
    BY <1>1, <1>2, <1>4, <1>5, SendLineKeeps
  <2>2. spoken.pending = declined.pending /\ spoken.result = declined.result
    BY <1>3, <1>5, SendLineIs
  <2> QED BY <1>4, <2>1, <2>2
<1> HIDE DEF spoken
<1>7. Keeps(s, spoken, server.id, real)
  BY <1>4, <1>6, KeepsAgain DEF Keeps
<1>8. Own(spoken, server.id, real) /\ spoken \in ClientState
  BY <1>6, OwnIs DEF Keeps
<1>9. /\ toast \in [id : Nat, outcome : Winner, confirmed : BOOLEAN, rematch : Offer]
      /\ toast.id \in {s.result.id, 0}
  BY <1>1, StateIs, BlankIs
<1> HIDE DEF toast
<1>10. /\ t \in ClientState /\ t.up = spoken.up /\ t.pending = spoken.pending
       /\ t.active = spoken.active /\ t.result = toast /\ t.seen = spoken.seen
       /\ t.correcting = spoken.correcting
  BY <1>8, <1>9 DEF ClientState
<1> HIDE DEF t
<1>11. Shown(t, server.id, real)
  BY <1>8, <1>10, OwnIs DEF Shown
<1>12. Keeps(spoken, t, server.id, real)
  BY <1>1, <1>2, <1>6, <1>8, <1>9, <1>10, <1>11, ShownKeeps
<1>13. Keeps(s, t, server.id, real)
  BY <1>7, <1>12, KeepsAgain DEF Keeps
<1> QED BY <1>2, <1>13, TurnKeeps

LEMMA DropStep ==
    ASSUME ClientInv, NEW c \in Client, Drop(c)
    PROVE  ClientInv'
<1> DEFINE s == client[c]
<1>1. /\ World(client, down, server, real) /\ Own(s, server.id, real)
      /\ server.id \in Nat \ {0}
  BY ClientInvIs
<1>2. PICK kept \in {<< >>, s.up} :
          Turns(c, [Disconnected(s) EXCEPT
                       !.up = Append(kept, Message("close", 0, NoOne, "none"))])
  BY DEF Drop
<1> DEFINE t == [Disconnected(s) EXCEPT
                    !.up = Append(kept, Message("close", 0, NoOne, "none"))]
<1>3. Keeps(s, t, server.id, real)
  BY <1>1, DropKeeps
<1>4. Turns(c, t) /\ down' = [down EXCEPT ![c] = << >>] /\ UNCHANGED <<server, real>>
  BY <1>2 DEF Drop
<1> HIDE DEF t
<1>5. Moves(s, down[c], t, << >>, real) /\ Own(t, server.id, real)
  BY <1>3, StepMoves DEF Keeps
<1>6. World([client EXCEPT ![c] = t], [down EXCEPT ![c] = << >>], server, real)
  BY <1>1, <1>5, WorldMoves
<1>7. client' = [client EXCEPT ![c] = t] /\ server' = server /\ real' = real
  BY <1>4 DEF Turns
<1> QED BY <1>4, <1>6, <1>7 DEF ClientInv

LEMMA ReconnectStep ==
    ASSUME ClientInv, NEW c \in Client, Reconnect(c)
    PROVE  ClientInv'
<1> DEFINE s == client[c]
           t == [s EXCEPT !.link = TRUE]
           sv == [server EXCEPT !.online = server.online \cup {c}]
<1>1. /\ World(client, down, server, real) /\ ServerSane(server, real)
      /\ server \in ServerState /\ server.id \in Nat \ {0} /\ s \in ClientState
      /\ down \in [Client -> Seq(DownLine)] /\ Own(s, server.id, real)
  BY ClientInvIs
<1>2. /\ client' = [client EXCEPT ![c] = t] /\ server' = sv
      /\ down' = [down EXCEPT ![c] = << >>] /\ real' = real
  BY DEF Reconnect, Turns
<1>3. /\ sv \in ServerState /\ sv.id = server.id /\ sv.phase = server.phase
      /\ sv.outcome = server.outcome /\ sv.ready = server.ready
      /\ sv.votes = server.votes /\ sv.queue = server.queue /\ sv.offer = server.offer
  BY <1>1 DEF ServerState
<1> HIDE DEF sv
<1>4. World(client, down, sv, real)
  <2>1. ServerSane(sv, real)
    BY <1>1, <1>3 DEF ServerSane
  <2>2. Turn(client, down, server, sv, real)
    BY <1>1, <1>3, <2>1, TurnSame DEF Resolved
  <2>3. World(client, Sent(down, sv, Quiet), sv, real)
    BY <1>1, <2>2, QuietIs, WorldTurns
  <2>4. \A d \in Client : down[d] \o Quiet[d] = down[d]
    <3> TAKE d \in Client
    <3>1. down[d] \in Seq(DownLine) /\ Quiet[d] = << >>
      BY <1>1 DEF Quiet
    <3> QED BY <3>1, ConcatEmptySeq
  <2>5. Sent(down, sv, Quiet) = down
    BY <1>1, <2>4 DEF Sent
  <2> QED BY <2>3, <2>5
<1>5. Alike(s, t)
  BY <1>1 DEF Alike, ClientState
<1> HIDE DEF t
<1>6. Moves(s, down[c], t, << >>, real) /\ Own(t, sv.id, real)
  BY <1>1, <1>3, <1>5, AlikeKeeps, StepMoves
<1>7. World([client EXCEPT ![c] = t], [down EXCEPT ![c] = << >>], sv, real)
  BY <1>4, <1>6, WorldMoves
<1> QED BY <1>2, <1>7 DEF ClientInv

LEMMA ReadLineStep ==
    ASSUME ClientInv, NEW c \in Client, ReadLine(c)
    PROVE  ClientInv'
<1> DEFINE s == client[c]
           q == down[c]
<1>1. /\ World(client, down, server, real) /\ Own(s, server.id, real)
      /\ Feed(s, q, server.id) /\ server.id \in Nat \ {0}
      /\ Ours(s, q, s, q, server.id, real)
  BY ClientInvIs
<1>2. /\ q # << >> /\ down' = [down EXCEPT ![c] = Tail(q)] /\ UNCHANGED <<server, real>>
  BY DEF ReadLine
<1>3. CASE Head(q).type = "found"
  <2> DEFINE t == MatchFound(s, Head(q))
  <2>1. client' = [client EXCEPT ![c] = t]
    BY <1>3 DEF ReadLine, Turns
  <2>2. Takes(s, q, t) /\ Own(t, server.id, real)
    BY <1>1, <1>2, <1>3, MatchFoundTakes
  <2> HIDE DEF t
  <2>3. World([client EXCEPT ![c] = t], [down EXCEPT ![c] = Tail(q)], server, real)
    BY <1>1, <2>2, WorldTakes
  <2> QED BY <1>2, <2>1, <2>3 DEF ClientInv
<1>4. CASE Head(q).type # "found"
  <2> DEFINE t == HandleLine(s, Head(q))
  <2>1. client' = [client EXCEPT ![c] = t]
    BY <1>4 DEF ReadLine, Turns
  <2>2. \A m \in 1 .. server.id : Evidence(s, q, m) => Passed(s, q, m)
    BY <1>1 DEF Ours
  <2>3. Moves(s, q, t, Tail(q), real) /\ Own(t, server.id, real)
    BY <1>1, <1>2, <1>4, <2>2, HandleLineMoves
  <2> HIDE DEF t
  <2>4. World([client EXCEPT ![c] = t], [down EXCEPT ![c] = Tail(q)], server, real)
    BY <1>1, <2>3, WorldMoves
  <2> QED BY <1>2, <2>1, <2>4 DEF ClientInv
<1> QED BY <1>3, <1>4

LEMMA RefuseStep ==
    ASSUME ClientInv, NEW c \in Client, Refuse(c)
    PROVE  ClientInv'
<1> DEFINE s == client[c]
           q == down[c]
           t == MatchRefused(s, Head(q))
<1>1. /\ World(client, down, server, real) /\ Own(s, server.id, real)
      /\ Feed(s, q, server.id) /\ server.id \in Nat \ {0}
  BY ClientInvIs
<1>2. /\ q # << >> /\ Head(q).type = "found" /\ client' = [client EXCEPT ![c] = t]
      /\ down' = [down EXCEPT ![c] = Tail(q)] /\ UNCHANGED <<server, real>>
  BY DEF Refuse, Turns
<1>3. Takes(s, q, t) /\ Own(t, server.id, real)
  BY <1>1, <1>2, MatchRefusedTakes
<1> HIDE DEF t
<1>4. World([client EXCEPT ![c] = t], [down EXCEPT ![c] = Tail(q)], server, real)
  BY <1>1, <1>3, WorldTakes
<1> QED BY <1>2, <1>4 DEF ClientInv

\* The game begins: neither client has played or reported the match, so whoever
\* enters first finds it undecided.
LEMMA EnterGameStep ==
    ASSUME ClientInv, NEW c \in Client, client[c].pending.id # 0,
           EnterGame(c, client[c]), UNCHANGED <<down, server>>
    PROVE  ClientInv'
<1> DEFINE s == client[c]
           a == server.id
           t == [s EXCEPT !.screen = "game", !.pending = NoPending, !.opening = FALSE,
                          !.active = [NoActive EXCEPT !.id = s.pending.id]]
<1>1. /\ World(client, down, server, real) /\ server \in ServerState /\ a \in Nat \ {0}
      /\ s \in ClientState /\ Mine(c, s, down[c], server, real) /\ Own(s, a, real)
      /\ down \in [Client -> Seq(DownLine)] /\ NoOne \in Winner
      /\ \A d \in Client : Own(client[d], a, real)
      /\ \A d, e \in Client : Ours(client[d], down[d], client[e], down[e], a, real)
  BY ClientInvIs DEF Winner
<1>2. s.pending.stage = "ready" /\ s.pending.committed
  BY DEF EnterGame, MayEnter
<1>3. s.pending.id = a
  BY <1>1, <1>2 DEF Mine
<1>4. ASSUME NEW d \in Client
      PROVE  /\ ~ (client[d].active.id = a /\ real # NoOne) /\ ~ Heard(client[d].up, "end", a)
             /\ Own(client[d], a, NoOne)
  <2>1. ~ (client[d].active.id = a /\ real # NoOne) /\ ~ Heard(client[d].up, "end", a)
    BY <1>1, <1>3 DEF Ours
  <2>2. /\ Honest(client[d], a, real) /\ SetUp(client[d]) /\ Shown(client[d], a, real)
    BY <1>1, OwnIs
  <2>3. Honest(client[d], a, NoOne)
    BY <2>1, <2>2 DEF Honest, Heard
  <2>4. Shown(client[d], a, NoOne)
    BY <2>1, <2>2 DEF Shown
  <2> QED BY <2>1, <2>2, <2>3, <2>4 DEF Own
<1>5. World(client, down, server, NoOne)
  BY <1>1, <1>4, WorldReal
<1>6. /\ client' = [client EXCEPT ![c] = t] /\ down' = down /\ server' = server
      /\ real' = NoOne
  <2>1. Opponent(c) \in Client
    BY OpponentIs
  <2>2. real' = NoOne
    BY <1>3, <1>4, <2>1 DEF EnterGame
  <2> QED BY <2>2 DEF EnterGame, Turns
<1>7. /\ t \in ClientState /\ t.up = s.up /\ t.pending = NoPending /\ t.active.id = a
      /\ t.result = s.result /\ t.seen = s.seen /\ t.correcting = s.correcting
  <2> DEFINE new == [NoActive EXCEPT !.id = s.pending.id]
  <2>1. /\ new \in [id : Nat, reported : BOOLEAN, awaiting : BOOLEAN]
        /\ new.id = s.pending.id
    BY <1>1, StateIs DEF NoActive
  <2> HIDE DEF new
  <2>2. /\ t \in ClientState /\ t.up = s.up /\ t.pending = NoPending /\ t.active = new
        /\ t.result = s.result /\ t.seen = s.seen /\ t.correcting = s.correcting
    <3>1. t = [s EXCEPT !.screen = "game", !.pending = NoPending, !.opening = FALSE,
                        !.active = new]
      BY DEF new
    <3> HIDE DEF t
    <3> QED BY <1>1, <2>1, <3>1, BlankIs DEF ClientState
  <2> QED BY <1>3, <2>1, <2>2
<1> HIDE DEF t
<1>8. s.seen = NoOne
  BY <1>1, <1>2, OwnIs DEF InSetup
<1>9. Moves(s, down[c], t, down[c], NoOne)
  BY <1>2, <1>3, <1>7 DEF Moves
<1>10. Own(t, a, NoOne)
  <2>1. Honest(s, a, NoOne)
    BY <1>4, OwnIs
  <2>2. Honest(t, a, NoOne)
    BY <1>1, <1>7, <2>1, BlankIs DEF Honest
  <2>3. SetUp(t)
    BY <1>7, BlankIs DEF SetUp
  <2>4. Shown(t, a, NoOne)
    BY <1>7, <1>8 DEF Shown
  <2> QED BY <2>2, <2>3, <2>4 DEF Own
<1>11. World([client EXCEPT ![c] = t], [down EXCEPT ![c] = down[c]], server, NoOne)
  BY <1>5, <1>9, <1>10, WorldMoves
<1>12. [down EXCEPT ![c] = down[c]] = down
  BY <1>1
<1>13. World([client EXCEPT ![c] = t], down, server, NoOne)
  BY <1>11, <1>12
<1> QED BY <1>6, <1>13 DEF ClientInv

LEMMA PumpLaunchStep ==
    ASSUME ClientInv, NEW c \in Client, PumpLaunch(c)
    PROVE  ClientInv'
<1> DEFINE s == client[c]
<1>1. Own(s, server.id, real) /\ server.id \in Nat \ {0} /\ s \in ClientState
  BY ClientInvIs
<1>2. s.pending.id # 0 /\ s.net = "linked" /\ UNCHANGED <<down, server>>
  BY DEF PumpLaunch
<1>3. CASE PrepareMatch(c, s)
  <2> DEFINE t == [s EXCEPT !.pending.stage = "prepared", !.active = NoActive, !.seen = NoOne]
  <2>1. s.pending.stage = "link" /\ Turns(c, t) /\ UNCHANGED <<down, server, real>>
    BY <1>2, <1>3 DEF PrepareMatch
  <2>2. NoOne \in Winner
    BY DEF Winner
  <2>3. /\ t \in ClientState /\ t.up = s.up /\ t.net = s.net /\ t.result = s.result
        /\ t.correcting = s.correcting /\ t.active = NoActive /\ t.seen = NoOne
        /\ t.pending = [s.pending EXCEPT !.stage = "prepared"]
    BY <1>1, <2>2, BlankIs DEF ClientState
  <2> HIDE DEF t
  <2>4. /\ t.pending.id = s.pending.id /\ t.pending.committed = s.pending.committed
        /\ t.pending.stage = "prepared" /\ t.active.id = 0
    BY <1>1, <2>3, StateIs, BlankIs
  <2>5. Keeps(s, t, server.id, real)
    BY <1>1, <1>2, <2>1, <2>3, <2>4, StageKeeps
  <2> QED BY <2>1, <2>5, TurnKeeps
<1>4. CASE ReleaseMatch(c, s)
  <2> DEFINE t == [s EXCEPT !.pending.stage = "released"]
  <2>1. s.pending.stage = "prepared" /\ Turns(c, t) /\ UNCHANGED <<down, server, real>>
    BY <1>2, <1>4 DEF ReleaseMatch
  <2>2. s.active.id = 0 /\ s.seen = NoOne
    BY <1>1, <1>2, <2>1, OwnIs DEF InSetup
  <2>3. /\ t \in ClientState /\ t.up = s.up /\ t.net = s.net /\ t.result = s.result
        /\ t.correcting = s.correcting /\ t.active = s.active /\ t.seen = s.seen
        /\ t.pending = [s.pending EXCEPT !.stage = "released"]
    BY <1>1 DEF ClientState
  <2> HIDE DEF t
  <2>4. /\ t.pending.id = s.pending.id /\ t.pending.committed = s.pending.committed
        /\ t.pending.stage = "released"
    BY <1>1, <2>3, StateIs
  <2>5. Keeps(s, t, server.id, real)
    BY <1>1, <1>2, <2>1, <2>2, <2>3, <2>4, StageKeeps
  <2> QED BY <2>1, <2>5, TurnKeeps
<1>5. CASE ReportReady(c, s)
  <2> DEFINE t == [SendLine(s, "started", s.pending.id, NoOne) EXCEPT !.pending.stage = "ready"]
  <2>1. s.pending.stage = "released" /\ Turns(c, t) /\ UNCHANGED <<down, server, real>>
    BY <1>2, <1>5 DEF ReportReady
  <2>2. Keeps(s, t, server.id, real)
    BY <1>1, <1>2, <2>1, ReportReadyKeeps
  <2> HIDE DEF t
  <2> QED BY <2>1, <2>2, TurnKeeps
<1>6. CASE EnterGame(c, s)
  BY <1>2, <1>6, EnterGameStep
<1> QED BY <1>3, <1>4, <1>5, <1>6 DEF PumpLaunch

\* The last point: both play the match, and nothing of it has been reported.
LEMMA DecideStep ==
    ASSUME ClientInv, NEW w \in Client, Decide(w)
    PROVE  ClientInv'
<1> DEFINE a == server.id
<1>1. /\ World(client, down, server, real) /\ a \in Nat \ {0} /\ w \in Winner
      /\ \A d \in Client : Own(client[d], a, real)
  BY ClientInvIs DEF Winner
<1>2. real = NoOne /\ \A d \in Client : client[d].pending.id = 0
  BY DEF Decide, Playing
<1>3. ASSUME NEW d \in Client
      PROVE  Own(client[d], a, w)
  <2>1. Honest(client[d], a, real) /\ SetUp(client[d]) /\ Shown(client[d], a, real)
    BY <1>1, OwnIs
  <2>2. Honest(client[d], a, w)
    BY <1>2, <2>1 DEF Honest
  <2>3. Shown(client[d], a, w)
    BY <1>2, <2>1 DEF Shown
  <2> QED BY <2>1, <2>2, <2>3 DEF Own
<1>4. World(client, down, server, w)
  BY <1>1, <1>2, <1>3, WorldReal
<1>5. client' = client /\ down' = down /\ server' = server /\ real' = w
  BY DEF Decide
<1> QED BY <1>4, <1>5 DEF ClientInv

\* The line that the server takes from client c.
LEMMA PoppedIs ==
    ASSUME ClientInv, NEW c \in Client, client[c].up # << >>
    PROVE  LET k == [client EXCEPT ![c] = [client[c] EXCEPT !.up = Tail(client[c].up)]]
           IN World(k, down, server, real) /\ Popped(k, c, Head(client[c].up))
<1> DEFINE s == client[c]
           a == server.id
           m == Head(s.up)
           t == [s EXCEPT !.up = Tail(s.up)]
           k == [client EXCEPT ![c] = t]
<1>1. /\ World(client, down, server, real) /\ a \in Nat \ {0} /\ s \in ClientState
      /\ Mine(c, s, down[c], server, real) /\ Own(s, a, real) /\ Feed(s, down[c], a)
      /\ client \in [Client -> ClientState] /\ down \in [Client -> Seq(DownLine)]
  BY ClientInvIs
<1>2. /\ s.up \in Seq(UpLine) /\ Tail(s.up) \in Seq(UpLine) /\ m \in UpLine
      /\ m \in Lines(s.up) /\ Lines(Tail(s.up)) \subseteq Lines(s.up)
  BY <1>1, StateIs, LinesOfTail
<1>3. /\ t \in ClientState /\ t.up = Tail(s.up) /\ t.pending = s.pending
      /\ t.active = s.active /\ t.result = s.result /\ t.seen = s.seen
      /\ t.correcting = s.correcting /\ t.net = s.net
  BY <1>1, <1>2 DEF ClientState
<1> HIDE DEF t
<1>4. Step(s, t)
  BY <1>2, <1>3 DEF Step
<1>5. Own(t, a, real)
  <2>1. Honest(s, a, real) /\ SetUp(s) /\ Shown(s, a, real)
    BY <1>1, OwnIs
  <2>2. Honest(t, a, real)
    BY <1>2, <1>3, <2>1 DEF Honest
  <2>3. Shown(t, a, real)
    BY <1>3, <2>1 DEF Shown
  <2>4. InSetup(s) => InSetup(t)
    <3>1. NoQueueAfter(s.up, s.pending.id) => NoQueueAfter(Tail(s.up), s.pending.id)
      BY <1>2, NoQueueInTail
    <3> QED BY <1>2, <1>3, <3>1 DEF InSetup
  <2>5. SetUp(t)
    BY <1>3, <2>1, <2>4 DEF SetUp
  <2> QED BY <2>2, <2>3, <2>5 DEF Own
<1>6. World(k, down, server, real)
  <2>1. Moves(s, down[c], t, down[c], real)
    BY <1>4, StepMoves
  <2>2. World(k, [down EXCEPT ![c] = down[c]], server, real)
    BY <1>1, <1>5, <2>1, WorldMoves
  <2>3. [down EXCEPT ![c] = down[c]] = down
    BY <1>1
  <2> QED BY <2>2, <2>3
<1>7. k[c] = t
  BY <1>1
<1> HIDE DEF k, m
<1>8. m.id <= a
  BY <1>1, <1>2, OwnIs DEF Honest
<1>9. m.id = a => ~ Heard(down[c], "found", a)
  <2>1. \A x \in Lines(down[c]) : x.type = "found" => m.id < x.id
    BY <1>1, <1>2 DEF Feed
  <2> QED BY <1>1, <2>1 DEF Heard
<1>10. m.id = a /\ s.pending.id = a =>
          /\ m.type = "started" /\ s.pending.stage = "ready" /\ Idle(t)
  <2> SUFFICES ASSUME m.id = a, s.pending.id = a
               PROVE  m.type = "started" /\ s.pending.stage = "ready" /\ Idle(t)
    OBVIOUS
  <2>1. InSetup(s)
    BY <1>1, OwnIs
  <2>2. m.type = "started" /\ s.pending.stage = "ready"
    BY <1>2, <2>1 DEF InSetup
  <2>3. \A x \in Lines(Tail(s.up)) : x.type # "queue"
    <3>1. NoQueueAfter(s.up, a)
      BY <2>1 DEF InSetup
    <3> QED BY <1>2, <2>2, <3>1, NoQueueInTail DEF m
  <2> QED BY <1>3, <2>2, <2>3 DEF Idle
<1>11. m.type = "queue" =>
          ~ (s.pending.id # 0
             /\ (s.pending.committed \/ Heard(down[c], "started", s.pending.id)))
  BY <1>1, <1>2 DEF Mine, Idle
<1>12. Popped(k, c, m)
  <2>1. m.type = "started" /\ m.id = a =>
            Passed(k[c], down[c], a) /\ (k[c].pending.id = a => Idle(k[c]))
    BY <1>3, <1>7, <1>9, <1>10 DEF Passed
  <2>2. m.type # "started" /\ m.id = a =>
            k[c].pending.id # a /\ ~ Heard(down[c], "found", a)
    BY <1>3, <1>7, <1>9, <1>10
  <2>3. m.type = "queue" =>
            ~ (k[c].pending.id # 0
               /\ (k[c].pending.committed \/ Heard(down[c], "started", k[c].pending.id)))
    BY <1>3, <1>7, <1>11
  <2> QED BY <1>2, <1>8, <2>1, <2>2, <2>3 DEF Popped
<1> QED BY <1>6, <1>12 DEF k, m, t

LEMMA ServeStep ==
    ASSUME ClientInv, NEW c \in Client, Serve(c)
    PROVE  ClientInv'
<1> DEFINE k == [client EXCEPT ![c] = [client[c] EXCEPT !.up = Tail(client[c].up)]]
           m == Head(client[c].up)
<1>1. client[c].up # << >> /\ client' = k /\ real' = real
  BY DEF Serve, Turns
<1>2. World(k, down, server, real) /\ Popped(k, c, m)
  BY <1>1, PoppedIs
<1>3. /\ m.type = "started" => OnStarted(c, m)
      /\ m.type = "abort" => OnAbort(c, m)
      /\ m.type = "end" => OnEnd(c, m)
      /\ m.type = "failure" => OnFailure(c, m)
      /\ m.type = "rematch" => OnRematch(c, m)
      /\ m.type = "decline" => OnDecline(c, m)
      /\ m.type = "queue" => OnQueue(c)
      /\ m.type = "close" => OnClose(c)
  BY DEF Serve
<1> HIDE DEF k, m
<1>4. m \in UpLine /\ m.type \in UpType
  BY <1>2 DEF Popped, UpLine, Line
<1>5. World(k, down', server', real)
  <2>1. CASE m.type = "started"
    BY <1>2, <1>3, <2>1, OnStartedKeeps
  <2>2. CASE m.type = "abort"
    BY <1>2, <1>3, <2>2, OnAbortKeeps
  <2>3. CASE m.type = "end"
    BY <1>2, <1>3, <1>4, <2>3, OnEndKeeps
  <2>4. CASE m.type = "failure"
    BY <1>2, <1>3, <2>4, OnFailureKeeps
  <2>5. CASE m.type = "rematch"
    BY <1>2, <1>3, <2>5, OnRematchKeeps
  <2>6. CASE m.type = "decline"
    BY <1>2, <1>3, <2>6, OnDeclineKeeps
  <2>7. CASE m.type = "queue"
    BY <1>2, <1>3, <2>7, OnQueueKeeps
  <2>8. CASE m.type = "close"
    BY <1>2, <1>3, <2>8, OnCloseKeeps
  <2> QED BY <1>4, <2>1, <2>2, <2>3, <2>4, <2>5, <2>6, <2>7, <2>8 DEF UpType
<1> QED BY <1>1, <1>5 DEF ClientInv

LEMMA TimerStep ==
    ASSUME ClientInv, ReportTimer \/ SetupDeadline
    PROVE  ClientInv'
<1>1. World(client, down, server, real) /\ server.online \in SUBSET Client
  BY ClientInvIs, SaneIs
<1>2. Cancel(server.online) /\ client' = client /\ real' = real
  BY DEF ReportTimer, SetupDeadline
<1>3. World(client, down', server', real)
  BY <1>1, <1>2, CancelKeeps
<1> QED BY <1>2, <1>3 DEF ClientInv

-----------------------------------------------------------------------------
(* The invariant, and the two promises. *)

LEMMA ClientInitInv ==
    ASSUME ClientInit
    PROVE  ClientInv
<1> DEFINE f == Message("found", 1, NoOne, "none")
<1>1. f \in DownLine /\ f.type = "found" /\ f.id = 1
  BY MessageIs DEF DownType, Winner, Offer
<1>2. /\ client = [c \in Client |-> InitialClient] /\ real = NoOne
      /\ down = [c \in Client |-> <<f>>]
      /\ server = [id |-> 1, phase |-> "setup", online |-> Client, ready |-> {},
                   said |-> [c \in Client |-> NoOne], failed |-> {}, outcome |-> NoOne,
                   told |-> {}, offer |-> FALSE, votes |-> {}, queue |-> {}]
  BY DEF ClientInit
<1> HIDE DEF f
<1>3. <<f>> \in Seq(DownLine) /\ Lines(<<f>>) = {f} /\ Len(<<f>>) = 1
  BY <1>1, OneLine
<1>4. NoOne \in Winner /\ [c \in Client |-> NoOne] \in [Client -> Winner]
  BY DEF Winner
<1>5. /\ server \in ServerState /\ server.id = 1 /\ server.phase = "setup"
      /\ server.outcome = NoOne /\ server.ready = {} /\ server.votes = {}
      /\ server.queue = {} /\ ~ server.offer
  BY <1>2, <1>4 DEF ServerState
<1>6. ServerSane(server, real)
  BY <1>2, <1>4, <1>5 DEF ServerSane
<1>7. /\ InitialClient \in ClientState /\ InitialClient.up = << >>
      /\ InitialClient.pending = NoPending /\ InitialClient.active = NoActive
      /\ InitialClient.result = NoResult /\ InitialClient.seen = NoOne
  <2>1. << >> \in Seq(UpLine)
    OBVIOUS
  <2> QED BY <1>4, <2>1, BlankIs DEF InitialClient, ClientState
<1>8. ASSUME NEW c \in Client
      PROVE  /\ client[c] = InitialClient /\ down[c] = <<f>>
             /\ Own(client[c], 1, real) /\ Feed(client[c], down[c], 1)
             /\ \A m \in Nat \ {0} : ~ Evidence(client[c], down[c], m)
             /\ ~ Heard(client[c].up, "end", 1) /\ client[c].pending.id = 0
             /\ client[c].active.id = 0
  <2>1. client[c] = InitialClient /\ down[c] = <<f>>
    BY <1>2
  <2>2. Lines(InitialClient.up) = {}
    BY <1>7, NoLines
  <2>3. Own(InitialClient, 1, real)
    <3>1. Honest(InitialClient, 1, real)
      BY <1>7, <2>2, BlankIs DEF Honest
    <3>2. 1 \in Nat \ {0}
      OBVIOUS
    <3> QED BY <1>7, <3>1, <3>2, ToldIsOwn, BlankIs
  <2>4. Feed(InitialClient, <<f>>, 1)
    <3>1. \A i, j \in 1 .. Len(<<f>>) : ~ i < j
      BY <1>3
    <3> QED BY <1>1, <1>3, <1>7, <2>2, <3>1, BlankIs DEF Feed
  <2>5. \A m \in Nat \ {0} : ~ Evidence(InitialClient, <<f>>, m)
    BY <1>1, <1>3, <1>7, <2>2, BlankIs DEF Evidence, Heard
  <2> QED BY <1>7, <2>1, <2>2, <2>3, <2>4, <2>5, BlankIs DEF Heard
<1>9. \A c \in Client : Mine(c, client[c], down[c], server, real)
  BY <1>5, <1>8 DEF Mine, Resolved
<1>10. \A c, d \in Client : Ours(client[c], down[c], client[d], down[d], server.id, real)
  <2>1. 1 .. 1 \subseteq Nat \ {0}
    OBVIOUS
  <2> QED BY <1>5, <1>8, <2>1 DEF Ours
<1>11. client \in [Client -> ClientState] /\ down \in [Client -> Seq(DownLine)]
  BY <1>2, <1>3, <1>7
<1> QED BY <1>6, <1>9, <1>10, <1>11 DEF ClientInv, World

LEMMA ClientNextInv ==
    ASSUME ClientInv, [ClientNext]_clientVars
    PROVE  ClientInv'
<1>1. CASE UNCHANGED clientVars
  BY <1>1 DEF ClientInv, clientVars
<1>2. ASSUME NEW c \in Client, Hooks(c)
      PROVE  ClientInv'
  BY <1>2, ReadLineStep, ConnectStep, RetryStep, PumpLaunchStep, SetupTimeoutStep,
     PreSwapStep, PlayFrameStep, EndCorrectionStep, AbandonStep DEF Hooks
<1>3. ASSUME NEW c \in Client, Player(c)
      PROVE  ClientInv'
  BY <1>3, AskRematchStep, EndRematchStep, JoinQueueStep DEF Player
<1>4. ASSUME NEW c \in Client, Fault(c)
      PROVE  ClientInv'
  BY <1>4, RefuseStep, BeginCorrectionStep, DropStep, ReconnectStep DEF Fault
<1>5. ASSUME NEW c \in Client, TransportFails(c) \/ NativeReturn(c) \/ Serve(c)
      PROVE  ClientInv'
  BY <1>5, TransportFailsStep, NativeReturnStep, ServeStep
<1>6. ASSUME NEW w \in Client, Decide(w)
      PROVE  ClientInv'
  BY <1>6, DecideStep
<1>7. CASE ReportTimer \/ SetupDeadline
  BY <1>7, TimerStep
<1>8. CASE ClientNext
  BY <1>2, <1>3, <1>4, <1>5, <1>6, <1>7, <1>8 DEF ClientNext
<1> QED BY <1>1, <1>8

\* The two games, what is on its way between them and the server, and the match
\* the server has them in never come apart, whatever the hooks of hooks.c, the
\* server's handlers, the players and the network do.
THEOREM ClientInvAlways == ClientSpec => []ClientInv
<1>1. ClientInit => ClientInv
  BY ClientInitInv
<1>2. ClientInv /\ [ClientNext]_clientVars => ClientInv'
  BY ClientNextInv
<1> QED BY <1>1, <1>2, PTL DEF ClientSpec

\* Nobody plays alone: while a client is in the server's match, the server has
\* committed it, and the other is past its setup or waits at its start barrier
\* (online_match_pump_launch and tryReadyMatch, with every retry and loss).
THEOREM PlaysWithAnother == ClientSpec => []NobodyPlaysAlone
<1>1. ClientInv => NobodyPlaysAlone
  <2> SUFFICES ASSUME ClientInv, NEW c \in Client, NEW d \in Client,
                      client[c].active.id = server.id
               PROVE  /\ server.phase # "setup"
                      /\ client[d].pending.id = server.id => client[d].pending.stage = "ready"
    BY DEF NobodyPlaysAlone
  <2>1. /\ server.id \in 1 .. server.id
        /\ Mine(c, client[c], down[c], server, real)
        /\ Ours(client[c], down[c], client[d], down[d], server.id, real)
    BY ClientInvIs
  <2>2. Evidence(client[c], down[c], server.id)
    BY DEF Evidence
  <2>3. Passed(client[d], down[d], server.id)
    BY <2>1, <2>2 DEF Ours
  <2> QED BY <2>1, <2>2, <2>3 DEF Mine, Passed
<1> QED BY <1>1, ClientInvAlways, PTL

\* What a client reports of the server's match is who has really won it: no
\* state under correction is reported (online_match_poll_completion), whatever
\* result, failure, menu or lost connection ends the session meanwhile.
THEOREM ReportsTheWinner == ClientSpec => []ReportsAreReal
<1>1. ClientInv => ReportsAreReal
  <2> SUFFICES ASSUME ClientInv, NEW c \in Client, NEW i \in 1 .. Len(client[c].up),
                      client[c].up[i].type = "end", client[c].up[i].id = server.id
               PROVE  client[c].up[i].winner = real
    BY DEF ReportsAreReal
  <2>1. Honest(client[c], server.id, real)
    BY ClientInvIs, OwnIs
  <2>2. client[c].up[i] \in Lines(client[c].up)
    BY DEF Lines
  <2> QED BY <2>1, <2>2 DEF Honest
<1> QED BY <1>1, ClientInvAlways, PTL

-----------------------------------------------------------------------------
(* The win sequence. *)

\* Players who answer the toast only where the native game does not run.
AskedOutside == \A s \in Courses : "game" \notin s.toast

\* While its native game runs, a client has no other match, and asks for none.
Alone(c, s, q, sv) ==
    s.screen = "game" =>
        /\ s.pending.id = 0 /\ \A x \in Lines(q) : x.type # "found"
        /\ Idle(s) /\ ~ Heard(s.up, "rematch", sv.id)
        /\ c \notin sv.votes /\ c \notin sv.queue

GameInv ==
    /\ "game" \notin course.toast
    /\ \A c \in Client : Alone(c, client[c], down[c], server)

PlayInv == ClientInv /\ GameInv

\* Its native game, if it shows how the game of the two has ended, goes on.
Decided(s, r) == Presenting(s) /\ ~ s.correcting /\ s.seen = r /\ r # NoOne
GoesOn(s, t) == t.screen = "main" \/ (t.screen = "game" /\ t.active.id = s.active.id)
PresentsOn == \A c \in Client : Decided(client[c], real) => GoesOn(client[c], client'[c])

\* What a hook that does not enter the game makes of client s.
Steady(s, t, r) ==
    /\ t.screen = "game" =>
          /\ s.screen = "game" /\ t.pending.id \in {s.pending.id, 0}
          /\ \A x \in Lines(t.up) : x \in Lines(s.up) \/ x.type \notin {"rematch", "queue"}
    /\ Decided(s, r) => GoesOn(s, t)

LEMMA SteadyTurn ==
    ASSUME PlayInv, NEW c \in Client, NEW t, Steady(client[c], t, real), Turns(c, t),
           server'.id = server.id, server'.votes = server.votes,
           server'.queue = server.queue, course'.toast = course.toast,
           \A d \in Client : Lines(down'[d]) \subseteq Lines(down[d])
    PROVE  GameInv' /\ PresentsOn
<1>1. /\ client \in [Client -> ClientState] /\ "game" \notin course.toast
      /\ \A d \in Client : Alone(d, client[d], down[d], server)
  BY ClientInvIs DEF PlayInv, GameInv
<1>2. client'[c] = t /\ \A d \in Client \ {c} : client'[d] = client[d]
  BY <1>1 DEF Turns
<1>3. ASSUME NEW d \in Client
      PROVE  Alone(d, client'[d], down'[d], server')
  <2>1. \A x \in Lines(down'[d]) : x \in Lines(down[d])
    OBVIOUS
  <2>2. CASE d = c
    <3>1. client'[d] = t /\ Alone(c, client[c], down[c], server)
      BY <1>1, <1>2, <2>2
    <3>2. t.screen = "game" =>
              /\ client[c].screen = "game" /\ t.pending.id \in {client[c].pending.id, 0}
              /\ \A x \in Lines(t.up) :
                    x \in Lines(client[c].up) \/ x.type \notin {"rematch", "queue"}
      BY DEF Steady
    <3> QED BY <2>1, <2>2, <3>1, <3>2 DEF Alone, Idle, Heard
  <2>3. CASE d # c
    <3>1. client'[d] = client[d] /\ Alone(d, client[d], down[d], server)
      BY <1>1, <1>2, <2>3
    <3> QED BY <2>1, <3>1 DEF Alone
  <2> QED BY <2>2, <2>3
<1>4. ASSUME NEW d \in Client, Decided(client[d], real)
      PROVE  GoesOn(client[d], client'[d])
  <2>1. CASE d = c
    BY <1>2, <1>4, <2>1 DEF Steady
  <2>2. CASE d # c
    <3>1. client'[d] = client[d] /\ client[d].screen = "game"
      BY <1>2, <1>4, <2>2 DEF Decided, Presenting
    <3> QED BY <3>1 DEF GoesOn
  <2> QED BY <2>1, <2>2
<1> QED BY <1>1, <1>3, <1>4 DEF GameInv, PresentsOn

\* Where only the client has changed.
LEMMA SteadyHook ==
    ASSUME PlayInv, NEW c \in Client, NEW t, Steady(client[c], t, real), Turns(c, t),
           UNCHANGED <<down, server>>, course'.toast = course.toast
    PROVE  GameInv' /\ PresentsOn
  BY SteadyTurn

\* Out of the game a client stays out of it.
LEMMA OutsideIs ==
    ASSUME NEW s, NEW t, NEW r, s.screen # "game", t.screen # "game"
    PROVE  Steady(s, t, r)
  BY DEF Steady, Decided, Presenting

LEMMA OpenHubScreen ==
    ASSUME NEW s \in ClientState
    PROVE  /\ OpenHub(s) \in ClientState /\ OpenHub(s).screen = s.screen
           /\ OpenHub(s).up = s.up /\ OpenHub(s).pending = s.pending
           /\ OpenHub(s).active = s.active
<1> DEFINE t == [s EXCEPT !.opening = TRUE]
<1>1. /\ t \in ClientState /\ t.screen = s.screen /\ t.up = s.up
      /\ t.pending = s.pending /\ t.active = s.active
  BY DEF ClientState
<1>2. OpenHub(s) = s \/ OpenHub(s) = t
  BY DEF OpenHub
<1> HIDE DEF t
<1> QED BY <1>1, <1>2

LEMMA ReturnToHubScreen ==
    ASSUME NEW s \in ClientState
    PROVE  /\ ReturnToHub(s) \in ClientState /\ ReturnToHub(s).screen = s.screen
           /\ ReturnToHub(s).up = s.up
<1>1. /\ OpenHub(s) \in ClientState /\ OpenHub(s).screen = s.screen /\ OpenHub(s).up = s.up
  BY OpenHubScreen
<1>2. CASE Presenting(s)
  BY <1>2 DEF ReturnToHub, ClientState
<1>3. CASE ~ Presenting(s)
  <2> DEFINE h == OpenHub(s)
  <2>1. ReturnToHub(s) = [h EXCEPT !.queued = FALSE]
    BY <1>3 DEF ReturnToHub
  <2> HIDE DEF h
  <2>2. h \in ClientState /\ h.screen = s.screen /\ h.up = s.up
    BY <1>1 DEF h
  <2> QED BY <2>1, <2>2 DEF ClientState
<1> QED BY <1>2, <1>3

LEMMA ClearMatchScreen ==
    ASSUME NEW s \in ClientState
    PROVE  ClearMatch(s).screen = s.screen
  BY DEF ClearMatch, ClientState

LEMMA ProvisionalScreen ==
    ASSUME NEW s \in ClientState, NEW w \in Winner
    PROVE  Provisional(s, w) \in ClientState /\ Provisional(s, w).screen = s.screen
  BY ProvisionalIs

LEMMA AbortSetupScreen ==
    ASSUME NEW s \in ClientState
    PROVE  AbortSetup(s).screen = s.screen
<1> DEFINE t == SendLine(s, "abort", s.pending.id, NoOne)
           u == StopNet(t)
           v == ClearMatch(u)
<1>1. s.pending.id \in Nat /\ NoOne \in Winner /\ "abort" \in UpType
  BY StateIs DEF Winner, UpType
<1>2. t \in ClientState /\ t.screen = s.screen
  BY <1>1, SendLineIs
<1> HIDE DEF t
<1>3. u \in ClientState /\ u.screen = s.screen
  BY <1>2, StopNetIs
<1> HIDE DEF u
<1>4. v \in ClientState /\ v.screen = s.screen
  BY <1>3, ClearMatchIs, ClearMatchScreen
<1> HIDE DEF v
<1>5. OpenHub(v).screen = s.screen
  BY <1>4, OpenHubScreen
<1> QED BY <1>5 DEF AbortSetup, v, u, t

LEMMA NextAttemptScreen ==
    ASSUME NEW s \in ClientState
    PROVE  NextAttempt(s).screen = s.screen
<1>1. FreshAttempt(s).screen = s.screen
  BY DEF FreshAttempt, ClientState
<1>2. AbortSetup(s).screen = s.screen
  BY AbortSetupScreen
<1> QED BY <1>1, <1>2 DEF NextAttempt

\* The winner shown is reported, and nothing else changes that is seen.
LEMMA PollCompletionLines ==
    ASSUME NEW s \in ClientState, NEW t, t = PollCompletion(s)
    PROVE  /\ t \in ClientState /\ t.screen = s.screen /\ t.pending = s.pending
           /\ t.active.id = s.active.id
           /\ \A x \in Lines(t.up) : x \in Lines(s.up) \/ x.type = "end"
           /\ s.active.id # 0 /\ ~ s.correcting /\ s.seen # NoOne => t.active.reported
<1> DEFINE line == SendLine(s, "end", s.active.id, s.seen)
           u == [line EXCEPT !.active.reported = TRUE, !.active.awaiting = TRUE]
<1>1. /\ s.active.id \in Nat /\ s.seen \in Winner /\ "end" \in UpType
      /\ s.active \in [id : Nat, reported : BOOLEAN, awaiting : BOOLEAN]
  BY StateIs DEF UpType
<1>2. /\ line \in ClientState /\ line.screen = s.screen /\ line.pending = s.pending
      /\ line.active = s.active
      /\ \A x \in Lines(line.up) : x \in Lines(s.up) \/ x.type = "end"
  BY <1>1, SendLineIs
<1> HIDE DEF line
<1>3. /\ u \in ClientState /\ u.screen = s.screen /\ u.pending = s.pending
      /\ u.up = line.up
      /\ u.active = [[line.active EXCEPT !.reported = TRUE] EXCEPT !.awaiting = TRUE]
  BY <1>2 DEF ClientState
<1>4. u.active.id = s.active.id /\ u.active.reported
  BY <1>1, <1>2, <1>3
<1> HIDE DEF u
<1>5. /\ Provisional(u, s.seen) \in ClientState /\ Provisional(u, s.seen).screen = s.screen
      /\ Provisional(u, s.seen).up = u.up /\ Provisional(u, s.seen).pending = u.pending
      /\ Provisional(u, s.seen).active = u.active
  BY <1>1, <1>3, ProvisionalIs
<1>6. CASE s.active.id = 0 \/ s.active.reported \/ s.correcting \/ s.seen = NoOne
  <2>1. t = s
    BY <1>6 DEF PollCompletion
  <2> QED BY <1>6, <2>1
<1>7. CASE ~ (s.active.id = 0 \/ s.active.reported \/ s.correcting \/ s.seen = NoOne)
  <2>1. t = u \/ t = Provisional(u, s.seen)
    BY <1>7 DEF PollCompletion, u, line
  <2> QED BY <1>2, <1>3, <1>4, <1>5, <2>1
<1> QED BY <1>6, <1>7

LEMMA TransportFailureLines ==
    ASSUME NEW s \in ClientState, NEW r
    PROVE  Steady(s, TransportFailure(s), r) /\ TransportFailure(s).screen = s.screen
<1> DEFINE t == PollCompletion(s)
           failed == SendLine(s, "failure", s.active.id, NoOne)
           o == Provisional(StopNet(failed), NoOne)
           u == ReturnToHub(ClearMatch(o))
<1>1. s.active.id \in Nat /\ NoOne \in Winner /\ "failure" \in UpType
  BY StateIs DEF Winner, UpType
<1>2. /\ t \in ClientState /\ t.screen = s.screen /\ t.pending = s.pending
      /\ t.active.id = s.active.id
      /\ \A x \in Lines(t.up) : x \in Lines(s.up) \/ x.type = "end"
      /\ s.active.id # 0 /\ ~ s.correcting /\ s.seen # NoOne => t.active.reported
  BY PollCompletionLines
<1>3. /\ failed \in ClientState /\ failed.screen = s.screen /\ failed.pending = s.pending
      /\ \A x \in Lines(failed.up) : x \in Lines(s.up) \/ x.type = "failure"
  BY <1>1, SendLineIs
<1>4. TransportFailure(s) = IF t.active.id = 0 \/ t.active.reported THEN StopNet(t) ELSE u
  BY DEF TransportFailure
<1> HIDE DEF t, failed
<1>5. CASE t.active.id = 0 \/ t.active.reported
  <2>1. /\ StopNet(t).up = t.up /\ StopNet(t).screen = t.screen
        /\ StopNet(t).pending = t.pending /\ StopNet(t).active = t.active
    BY <1>2, StopNetIs
  <2> HIDE DEF u
  <2>2. TransportFailure(s) = StopNet(t)
    BY <1>4, <1>5
  <2> QED BY <1>2, <2>1, <2>2 DEF Steady, Decided, GoesOn, Presenting
<1>6. CASE ~ (t.active.id = 0 \/ t.active.reported)
  <2>1. StopNet(failed) \in ClientState /\ StopNet(failed).up = failed.up
        /\ StopNet(failed).screen = s.screen
    BY <1>3, StopNetIs
  <2>2. o \in ClientState /\ o.up = failed.up /\ o.screen = s.screen
    BY <1>1, <2>1, ProvisionalIs
  <2> HIDE DEF o
  <2>3. /\ ClearMatch(o) \in ClientState /\ ClearMatch(o).up = failed.up
        /\ ClearMatch(o).screen = s.screen /\ ClearMatch(o).pending = NoPending
    BY <2>2, ClearMatchIs, ClearMatchScreen
  <2>4. u.up = failed.up /\ u.screen = s.screen /\ u.pending = NoPending
    BY <2>3, ReturnToHubIs, ReturnToHubScreen DEF Alike
  <2> HIDE DEF u
  <2>5. TransportFailure(s) = u
    BY <1>4, <1>6
  <2>6. ~ Decided(s, r)
    BY <1>2, <1>6 DEF Decided, Presenting
  <2> QED BY <1>3, <2>4, <2>5, <2>6, BlankIs DEF Steady
<1> QED BY <1>5, <1>6

LEMMA ForfeitScreen ==
    ASSUME NEW c \in Client, NEW s \in ClientState
    PROVE  Forfeit(c, s) \in ClientState /\ Forfeit(c, s).screen = s.screen
<1> DEFINE line == SendLine(s, "abort", s.active.id, NoOne)
           t == IF s.active.reported THEN s ELSE line
           u == Provisional(StopNet(t), Opponent(c))
           v == [u EXCEPT !.active.reported = TRUE, !.pending = NoPending, !.tries = 0]
<1>1. /\ s.active.id \in Nat /\ NoOne \in Winner /\ "abort" \in UpType
      /\ Opponent(c) \in Winner
  BY StateIs, OpponentIs DEF Winner, UpType
<1>2. line \in ClientState /\ line.screen = s.screen
  BY <1>1, SendLineIs
<1> HIDE DEF line
<1>3. t \in ClientState /\ t.screen = s.screen
  BY <1>2
<1> HIDE DEF t
<1>4. StopNet(t) \in ClientState /\ StopNet(t).screen = s.screen
  BY <1>3, StopNetIs
<1>5. u \in ClientState /\ u.screen = s.screen
  BY <1>1, <1>4, ProvisionalIs
<1> HIDE DEF u
<1>6. v \in ClientState /\ v.screen = s.screen
  BY <1>5, BlankIs DEF ClientState
<1> HIDE DEF v
<1>7. ReturnToHub(v) \in ClientState /\ ReturnToHub(v).screen = s.screen
  BY <1>6, ReturnToHubScreen
<1>8. Forfeit(c, s) = ReturnToHub(v)
  BY DEF Forfeit, v, u, t, line
<1> QED BY <1>7, <1>8

\* What a line does to a client in its game, and to one that presents its end.
LEMMA HandleLineSteady ==
    ASSUME NEW s \in ClientState, NEW m \in DownLine, NEW r,
           m.type # "found", s.screen = "game" => s.pending.id = 0
    PROVE  Steady(s, HandleLine(s, m), r)
<1>1. Steady(s, s, r)
  BY StateIs DEF Steady, Decided, GoesOn, Presenting
<1>2. Steady(s, MatchCommitted(s), r)
  <2>1. CASE s.screen = "game"
    <3>1. MatchCommitted(s) = s
      BY <2>1 DEF MatchCommitted
    <3> QED BY <1>1, <3>1
  <2>2. CASE s.screen # "game"
    <3>1. MatchCommitted(s).screen # "game"
      BY <2>2 DEF MatchCommitted, ClientState
    <3> QED BY <2>2, <3>1, OutsideIs
  <2> QED BY <2>1, <2>2
<1>3. Steady(s, RematchNews(s, m), r)
  <2> DEFINE t == [s EXCEPT !.result.rematch = m.rematch]
  <2>1. /\ t.screen = s.screen /\ t.up = s.up /\ t.pending = s.pending
        /\ t.active = s.active
    BY DEF ClientState
  <2> HIDE DEF t
  <2>2. Steady(s, t, r)
    BY <2>1 DEF Steady, Decided, GoesOn, Presenting
  <2>3. RematchNews(s, m) = s \/ RematchNews(s, m) = t
    BY DEF RematchNews, t
  <2> QED BY <1>1, <2>2, <2>3
<1>4. Steady(s, MatchAborted(s), r)
  <2> DEFINE f == [s EXCEPT !.result = NoResult]
             t == [f EXCEPT !.active.awaiting = TRUE]
             u == OpenHub(ClearMatch(StopNet(f)))
  <2>1. /\ f \in ClientState /\ f.screen = s.screen /\ f.up = s.up
        /\ f.pending = s.pending /\ f.active = s.active
    BY BlankIs DEF ClientState
  <2> HIDE DEF f
  <2>2. CASE Presenting(s)
    <3>1. MatchAborted(s) = t
      BY <2>2 DEF MatchAborted, f
    <3>2. /\ t.screen = s.screen /\ t.up = s.up /\ t.pending = s.pending
          /\ t.active = [s.active EXCEPT !.awaiting = TRUE]
      BY <2>1 DEF ClientState
    <3> HIDE DEF t
    <3>3. t.active.id = s.active.id
      BY <3>2, StateIs
    <3> QED BY <2>2, <3>1, <3>2, <3>3 DEF Steady, Decided, GoesOn, Presenting
  <2>3. CASE ~ Presenting(s)
    <3>1. MatchAborted(s) = u
      BY <2>3 DEF MatchAborted, f
    <3>2. /\ StopNet(f) \in ClientState /\ StopNet(f).screen = s.screen
          /\ StopNet(f).up = s.up
      BY <2>1, StopNetIs
    <3> DEFINE v == ClearMatch(StopNet(f))
    <3>3. v \in ClientState /\ v.screen = s.screen /\ v.up = s.up /\ v.pending = NoPending
      BY <3>2, ClearMatchIs, ClearMatchScreen
    <3> HIDE DEF v
    <3>4. u.screen = s.screen /\ u.up = s.up /\ u.pending = NoPending
      BY <3>3, OpenHubScreen DEF v
    <3> QED BY <2>3, <3>1, <3>4, BlankIs DEF Steady, Decided
  <2> QED BY <2>2, <2>3
<1>5. Steady(s, MatchResult(s, m), r)
  <2> DEFINE rematch == IF m.rematch = "available" /\ s.result.rematch = "none" THEN "available"
                        ELSE IF m.rematch = "available" \/ s.result.rematch = "starting"
                        THEN s.result.rematch ELSE "none"
             toast == [id |-> m.id, outcome |-> m.winner, confirmed |-> TRUE,
                       rematch |-> rematch]
             shown == [s EXCEPT !.result = toast]
             back == IF s.result.id = 0 THEN ReturnToHub(shown) ELSE shown
             t == [shown EXCEPT !.active.awaiting = TRUE]
             v == StopNet(back)
             u == ClearMatch(v)
  <2>1. toast \in [id : Nat, outcome : Winner, confirmed : BOOLEAN, rematch : Offer]
    <3>1. rematch \in Offer
      BY StateIs DEF Offer
    <3> QED BY <3>1 DEF DownLine, Line
  <2>2. MatchResult(s, m) \in {s, t, u} /\ (Presenting(s) => MatchResult(s, m) \in {s, t})
    BY DEF MatchResult
  <2> HIDE DEF toast
  <2>3. /\ shown \in ClientState /\ shown.screen = s.screen /\ shown.up = s.up
        /\ shown.pending = s.pending /\ shown.active = s.active
    BY <2>1 DEF ClientState
  <2> HIDE DEF shown
  <2>4. Steady(s, t, r)
    <3>1. /\ t.screen = s.screen /\ t.up = s.up /\ t.pending = s.pending
          /\ t.active = [s.active EXCEPT !.awaiting = TRUE]
      BY <2>3 DEF ClientState
    <3> HIDE DEF t
    <3>2. t.active.id = s.active.id
      BY <3>1, StateIs
    <3> QED BY <3>1, <3>2 DEF Steady, Decided, GoesOn, Presenting
  <2>5. ~ Presenting(s) => Steady(s, u, r)
    <3>1. back \in ClientState /\ back.screen = s.screen /\ back.up = s.up
      BY <2>3, ReturnToHubScreen
    <3> HIDE DEF back
    <3>2. v \in ClientState /\ v.screen = s.screen /\ v.up = s.up
      BY <3>1, StopNetIs
    <3> HIDE DEF v
    <3>3. u.screen = s.screen /\ u.up = s.up /\ u.pending = NoPending
      BY <3>2, ClearMatchIs, ClearMatchScreen
    <3> HIDE DEF u
    <3> QED BY <3>3, BlankIs DEF Steady, Decided
  <2> HIDE DEF t, u
  <2> QED BY <1>1, <2>2, <2>4, <2>5
<1>6. m.type \in {"started", "result", "abort", "rematch"}
  BY DEF DownLine, Line, DownType
<1>7. CASE m.id # Current(s)
  BY <1>1, <1>7 DEF HandleLine
<1>8. CASE m.id = Current(s)
  <2>1. HandleLine(s, m) \in {MatchCommitted(s), MatchResult(s, m), MatchAborted(s),
                              RematchNews(s, m)}
    BY <1>6, <1>8 DEF HandleLine
  <2> QED BY <1>2, <1>3, <1>4, <1>5, <2>1
<1> QED BY <1>7, <1>8

LEMMA PlayInvIs ==
    ASSUME PlayInv, NEW c \in Client
    PROVE  /\ ClientInv /\ client[c] \in ClientState /\ down[c] \in Seq(DownLine)
           /\ Alone(c, client[c], down[c], server)
           /\ client[c].screen = "game" => client[c].pending.id = 0
           /\ Own(client[c], server.id, real) /\ server.id \in Nat \ {0}
           /\ real \in Winner /\ "game" \notin course.toast
<1>1. ClientInv /\ Alone(c, client[c], down[c], server) /\ "game" \notin course.toast
  BY DEF PlayInv, GameInv
<1>2. /\ client[c] \in ClientState /\ down \in [Client -> Seq(DownLine)]
      /\ Own(client[c], server.id, real) /\ server.id \in Nat \ {0} /\ real \in Winner
  BY <1>1, ClientInvIs
<1> QED BY <1>1, <1>2 DEF Alone

LEMMA ReadLinePresents ==
    ASSUME PlayInv, NEW c \in Client, ReadLine(c)
    PROVE  GameInv' /\ PresentsOn
<1> DEFINE s == client[c]
           m == Head(down[c])
<1>1. /\ s \in ClientState /\ down[c] \in Seq(DownLine) /\ Alone(c, s, down[c], server)
      /\ s.screen = "game" => s.pending.id = 0
  BY PlayInvIs
<1>2. /\ down[c] # << >> /\ down' = [down EXCEPT ![c] = Tail(down[c])]
      /\ UNCHANGED <<server, real, course>>
  BY DEF ReadLine
<1>3. /\ m \in DownLine /\ m \in Lines(down[c]) /\ Lines(Tail(down[c])) \subseteq Lines(down[c])
  BY <1>1, <1>2, LinesOfTail
<1>4. \A d \in Client : Lines(down'[d]) \subseteq Lines(down[d])
  <2>1. down \in [Client -> Seq(DownLine)]
    BY ClientInvIs DEF PlayInv
  <2> QED BY <1>2, <1>3, <2>1
<1>5. \/ m.type = "found" /\ Turns(c, MatchFound(s, m))
      \/ m.type # "found" /\ Turns(c, HandleLine(s, m))
  BY DEF ReadLine
<1> HIDE DEF m
<1>6. CASE m.type = "found"
  <2> DEFINE t == [s EXCEPT !.pending = [NoPending EXCEPT !.id = m.id], !.tries = 1,
                            !.net = "open", !.correcting = FALSE, !.result = NoResult,
                            !.queued = FALSE]
  <2>1. s.screen # "game"
    BY <1>1, <1>3, <1>6 DEF Alone
  <2>2. t \in ClientState /\ t.screen = s.screen
    <3>1. m.id \in Nat
      BY <1>3 DEF DownLine, Line
    <3> DEFINE new == [NoPending EXCEPT !.id = m.id]
    <3>2. new \in [id : Nat, stage : {"link", "prepared", "released", "ready"},
                   committed : BOOLEAN]
      BY <3>1, NewPendingIs
    <3> HIDE DEF new
    <3> DEFINE v == [s EXCEPT !.pending = new, !.tries = 1, !.net = "open",
                              !.correcting = FALSE, !.result = NoResult, !.queued = FALSE]
    <3>3. v \in ClientState /\ v.screen = s.screen
      BY <1>1, <3>2, BlankIs DEF ClientState
    <3> QED BY <3>3 DEF new
  <2> HIDE DEF t
  <2>3. OpenHub(t).screen = s.screen
    BY <2>2, OpenHubScreen
  <2>4. MatchFound(s, m) = OpenHub(t)
    BY DEF MatchFound, t
  <2>5. Steady(s, MatchFound(s, m), real)
    BY <2>1, <2>3, <2>4, OutsideIs
  <2> QED BY <1>2, <1>4, <1>5, <1>6, <2>5, SteadyTurn
<1>7. CASE m.type # "found"
  <2>1. Steady(s, HandleLine(s, m), real)
    BY <1>1, <1>3, <1>7, HandleLineSteady
  <2> QED BY <1>2, <1>4, <1>5, <1>7, <2>1, SteadyTurn
<1> QED BY <1>6, <1>7

LEMMA RefusePresents ==
    ASSUME PlayInv, NEW c \in Client, Refuse(c)
    PROVE  GameInv' /\ PresentsOn
<1> DEFINE s == client[c]
           m == Head(down[c])
           p == [s EXCEPT !.pending = [NoPending EXCEPT !.id = m.id]]
           t == AbortSetup(p)
           u == [t EXCEPT !.queued = FALSE]
<1>1. /\ s \in ClientState /\ down[c] \in Seq(DownLine) /\ Alone(c, s, down[c], server)
      /\ Own(s, server.id, real) /\ server.id \in Nat \ {0} /\ ClientInv
  BY PlayInvIs
<1>2. /\ down[c] # << >> /\ down' = [down EXCEPT ![c] = Tail(down[c])]
      /\ UNCHANGED <<server, real>> /\ m.type = "found" /\ Turns(c, u)
      /\ course' = [course EXCEPT !.faults = course.faults - 1]
  BY DEF Refuse, MatchRefused
<1>3. /\ m \in DownLine /\ m \in Lines(down[c]) /\ Lines(Tail(down[c])) \subseteq Lines(down[c])
  BY <1>1, <1>2, LinesOfTail
<1>4. \A d \in Client : Lines(down'[d]) \subseteq Lines(down[d])
  <2>1. down \in [Client -> Seq(DownLine)]
    BY <1>1, ClientInvIs
  <2> QED BY <1>2, <1>3, <2>1
<1> HIDE DEF m
<1>5. s.screen # "game"
  BY <1>1, <1>2, <1>3 DEF Alone
<1>6. p \in ClientState /\ p.screen = s.screen
  <2>1. m.id \in Nat
    BY <1>3 DEF DownLine, Line
  <2> DEFINE new == [NoPending EXCEPT !.id = m.id]
             v == [s EXCEPT !.pending = new]
  <2>2. new \in [id : Nat, stage : {"link", "prepared", "released", "ready"},
                 committed : BOOLEAN]
    BY <2>1, NewPendingIs
  <2> HIDE DEF new
  <2>3. v \in ClientState /\ v.screen = s.screen
    BY <1>1, <2>2 DEF ClientState
  <2> QED BY <2>3 DEF new
<1> HIDE DEF p
<1>7. t.screen = s.screen
  BY <1>6, AbortSetupScreen
<1>8. u.screen = s.screen
  <2>1. u.screen = t.screen
    OBVIOUS
  <2> QED BY <1>7, <2>1
<1> HIDE DEF u
<1>9. Steady(s, u, real)
  BY <1>5, <1>8, OutsideIs
<1>10. course'.toast = course.toast
  BY <1>2
<1> QED BY <1>2, <1>4, <1>9, <1>10, SteadyTurn

\* A hook that leaves the screen alone, off the game.
LEMMA OutsideStep ==
    ASSUME PlayInv, NEW c \in Client, NEW t, Turns(c, t),
           client[c].screen # "game", t.screen # "game",
           UNCHANGED <<down, server>>, course'.toast = course.toast
    PROVE  GameInv' /\ PresentsOn
<1>1. Steady(client[c], t, real)
  BY OutsideIs
<1> QED BY <1>1, SteadyHook

LEMMA ConnectPresents ==
    ASSUME PlayInv, NEW c \in Client, Connect(c)
    PROVE  GameInv' /\ PresentsOn
<1> DEFINE s == client[c]
           t == [s EXCEPT !.net = "linked"]
<1>1. s \in ClientState
  BY PlayInvIs
<1>2. Turns(c, t) /\ UNCHANGED <<down, server, real, course>>
  BY DEF Connect
<1>3. t.screen = s.screen /\ t.up = s.up /\ t.pending = s.pending /\ t.active = s.active
  BY <1>1 DEF ClientState
<1> HIDE DEF t
<1>4. Steady(s, t, real)
  BY <1>3 DEF Steady, Decided, GoesOn, Presenting
<1> QED BY <1>2, <1>4, SteadyHook

LEMMA SetupPresents ==
    ASSUME PlayInv, NEW c \in Client, Retry(c) \/ SetupTimeout(c)
    PROVE  GameInv' /\ PresentsOn
<1> DEFINE s == client[c]
<1>1. s \in ClientState /\ (s.screen = "game" => s.pending.id = 0)
  BY PlayInvIs
<1>2. /\ s.pending.id # 0 /\ UNCHANGED <<down, server, real, course>>
      /\ (Turns(c, NextAttempt(s)) \/ Turns(c, AbortSetup(s)))
  BY DEF Retry, SetupTimeout
<1>3. NextAttempt(s).screen = s.screen /\ AbortSetup(s).screen = s.screen
  BY <1>1, NextAttemptScreen, AbortSetupScreen
<1> QED BY <1>1, <1>2, <1>3, OutsideStep

LEMMA PreSwapPresents ==
    ASSUME PlayInv, NEW c \in Client, PreSwap(c)
    PROVE  GameInv' /\ PresentsOn
<1> DEFINE s == [client[c] EXCEPT !.opening = FALSE, !.screen = "hub", !.seen = NoOne]
           left == IF s.active.id # 0 /\ ~ s.active.reported THEN Forfeit(c, s) ELSE s
           t == IF s.pending.id # 0 THEN s ELSE ClearMatch(StopNet(left))
<1>1. client[c] \in ClientState /\ NoOne \in Winner
  BY PlayInvIs DEF Winner
<1>2. /\ ~ Presenting(client[c]) /\ Turns(c, t) /\ UNCHANGED <<down, server, real, course>>
  BY DEF PreSwap, MayOpen
<1>3. s \in ClientState /\ s.screen = "hub"
  BY <1>1 DEF ClientState
<1> HIDE DEF s
<1>4. left \in ClientState /\ left.screen = "hub"
  BY <1>3, ForfeitScreen
<1> HIDE DEF left
<1>5. StopNet(left) \in ClientState /\ StopNet(left).screen = "hub"
  BY <1>4, StopNetIs
<1>6. ClearMatch(StopNet(left)).screen = "hub"
  BY <1>5, ClearMatchScreen
<1>7. t.screen # "game"
  BY <1>3, <1>6
<1> HIDE DEF t
<1>8. Steady(client[c], t, real)
  BY <1>2, <1>7 DEF Steady, Decided
<1> QED BY <1>2, <1>8, SteadyHook

\* A frame, and the report it may bring.
LEMMA FramePresents ==
    ASSUME PlayInv, NEW c \in Client,
           NEW t \in ClientState, t.up = client[c].up, t.pending = client[c].pending,
           t.active = client[c].active, t.screen = client[c].screen,
           Turns(c, t) \/ Turns(c, PollCompletion(t)),
           UNCHANGED <<down, server>>, course'.toast = course.toast
    PROVE  GameInv' /\ PresentsOn
<1>1. Steady(client[c], t, real)
  BY DEF Steady, Decided, GoesOn, Presenting
<1> DEFINE u == PollCompletion(t)
<1>2. /\ u.screen = t.screen /\ u.pending = t.pending /\ u.active.id = t.active.id
      /\ \A x \in Lines(u.up) : x \in Lines(t.up) \/ x.type = "end"
  BY PollCompletionLines
<1> HIDE DEF u
<1>3. Steady(client[c], u, real)
  BY <1>2 DEF Steady, Decided, GoesOn, Presenting
<1> QED BY <1>1, <1>3, SteadyHook DEF u

LEMMA PlayFramePresents ==
    ASSUME PlayInv, NEW c \in Client, PlayFrame(c)
    PROVE  GameInv' /\ PresentsOn
<1> DEFINE t == [client[c] EXCEPT !.seen = real]
<1>1. client[c] \in ClientState /\ real \in Winner
  BY PlayInvIs
<1>2. /\ t \in ClientState /\ t.up = client[c].up /\ t.pending = client[c].pending
      /\ t.active = client[c].active /\ t.screen = client[c].screen
  BY <1>1 DEF ClientState
<1>3. Turns(c, PollCompletion(t)) /\ UNCHANGED <<down, server, real, course>>
  BY DEF PlayFrame, Shows
<1> HIDE DEF t
<1> QED BY <1>2, <1>3, FramePresents

LEMMA BeginCorrectionPresents ==
    ASSUME PlayInv, NEW c \in Client, NEW w \in Client, BeginCorrection(c, w)
    PROVE  GameInv' /\ PresentsOn
<1> DEFINE t == [client[c] EXCEPT !.correcting = TRUE, !.seen = w]
<1>1. client[c] \in ClientState /\ w \in Winner
  BY PlayInvIs DEF Winner
<1>2. /\ t \in ClientState /\ t.up = client[c].up /\ t.pending = client[c].pending
      /\ t.active = client[c].active /\ t.screen = client[c].screen
  BY <1>1 DEF ClientState
<1>3. Turns(c, t) /\ UNCHANGED <<down, server>> /\ course'.toast = course.toast
  BY DEF BeginCorrection
<1> HIDE DEF t
<1> QED BY <1>2, <1>3, FramePresents

LEMMA EndCorrectionPresents ==
    ASSUME PlayInv, NEW c \in Client, EndCorrection(c)
    PROVE  GameInv' /\ PresentsOn
<1> DEFINE t == [client[c] EXCEPT !.correcting = FALSE, !.seen = real]
<1>1. client[c] \in ClientState /\ real \in Winner
  BY PlayInvIs
<1>2. /\ t \in ClientState /\ t.up = client[c].up /\ t.pending = client[c].pending
      /\ t.active = client[c].active /\ t.screen = client[c].screen
  BY <1>1 DEF ClientState
<1>3. Turns(c, PollCompletion(t)) /\ UNCHANGED <<down, server, real, course>>
  BY DEF EndCorrection
<1> HIDE DEF t
<1> QED BY <1>2, <1>3, FramePresents

LEMMA NativeReturnPresents ==
    ASSUME PlayInv, NEW c \in Client, NativeReturn(c)
    PROVE  GameInv' /\ PresentsOn
<1> DEFINE s == PollCompletion(client[c])
           main == [s EXCEPT !.screen = "main", !.seen = NoOne]
           u == StopNet(main)
           v == ClearMatch(u)
           hub == OpenHub(v)
<1>1. client[c] \in ClientState /\ NoOne \in Winner
  BY PlayInvIs DEF Winner
<1>2. s \in ClientState
  BY <1>1, PollCompletionLines
<1>3. (Turns(c, main) \/ Turns(c, hub)) /\ UNCHANGED <<down, server>>
      /\ course'.toast = course.toast
  <2>1. (Turns(c, main) \/ Turns(c, hub)) /\ UNCHANGED <<down, server>>
    BY DEF NativeReturn
  <2>2. course' = course \/ course' = [course EXCEPT !.leave = FALSE]
    BY DEF NativeReturn
  <2>3. [course EXCEPT !.leave = FALSE].toast = course.toast
    OBVIOUS
  <2>4. course'.toast = course.toast
    BY <2>2, <2>3
  <2> QED BY <2>1, <2>4
<1> HIDE DEF s
<1>4. main \in ClientState /\ main.screen = "main"
  BY <1>1, <1>2 DEF ClientState
<1> HIDE DEF main
<1>5. u \in ClientState /\ u.screen = "main"
  BY <1>4, StopNetIs
<1> HIDE DEF u
<1>6. v \in ClientState /\ v.screen = "main"
  BY <1>5, ClearMatchIs, ClearMatchScreen
<1> HIDE DEF v
<1>7. hub.screen = "main"
  BY <1>6, OpenHubScreen
<1> HIDE DEF hub
<1>8. Steady(client[c], main, real) /\ Steady(client[c], hub, real)
  BY <1>4, <1>7 DEF Steady, GoesOn
<1> QED BY <1>3, <1>8, SteadyHook

LEMMA AbandonPresents ==
    ASSUME PlayInv, NEW c \in Client, Abandon(c)
    PROVE  GameInv' /\ PresentsOn
<1>1. client[c] \in ClientState
  BY PlayInvIs
<1>2. /\ client[c].screen = "main" /\ UNCHANGED <<down, server, real, course>>
      /\ (Turns(c, TransportFailure(client[c])) \/ Turns(c, Forfeit(c, client[c])))
  BY DEF Abandon
<1>3. /\ TransportFailure(client[c]).screen = "main"
      /\ Forfeit(c, client[c]).screen = "main"
  BY <1>1, <1>2, TransportFailureLines, ForfeitScreen
<1> QED BY <1>2, <1>3, OutsideStep

LEMMA TransportFailsPresents ==
    ASSUME PlayInv, NEW c \in Client, TransportFails(c)
    PROVE  GameInv' /\ PresentsOn
<1> DEFINE s == client[c]
<1>1. s \in ClientState /\ (s.screen = "game" => s.pending.id = 0)
  BY PlayInvIs
<1>2. UNCHANGED <<down, server, real>> /\ course'.toast = course.toast
  <2>1. UNCHANGED <<down, server, real>>
    BY DEF TransportFails
  <2>2. course' = course \/ course' = [course EXCEPT !.faults = course.faults - 1]
    BY DEF TransportFails
  <2>3. [course EXCEPT !.faults = course.faults - 1].toast = course.toast
    OBVIOUS
  <2>4. course'.toast = course.toast
    BY <2>2, <2>3
  <2> QED BY <2>1, <2>4
<1>3. CASE s.pending.id = 0
  <2>1. Turns(c, TransportFailure(s))
    BY <1>3 DEF TransportFails
  <2>2. Steady(s, TransportFailure(s), real)
    BY <1>1, TransportFailureLines
  <2> QED BY <1>2, <2>1, <2>2, SteadyHook
<1>4. CASE s.pending.id # 0
  <2>1. Turns(c, NextAttempt(s)) \/ Turns(c, AbortSetup(s))
    BY <1>4 DEF TransportFails
  <2>2. NextAttempt(s).screen = s.screen /\ AbortSetup(s).screen = s.screen
    BY <1>1, NextAttemptScreen, AbortSetupScreen
  <2> QED BY <1>1, <1>2, <1>4, <2>1, <2>2, OutsideStep
<1> QED BY <1>3, <1>4

LEMMA AskRematchPresents ==
    ASSUME PlayInv, NEW c \in Client, AskRematch(c)
    PROVE  GameInv' /\ PresentsOn
<1> DEFINE s == client[c]
           spoken == SendLine(s, "rematch", s.result.id, NoOne)
           t == [spoken EXCEPT !.result.rematch = "waiting"]
<1>1. s \in ClientState /\ "game" \notin course.toast
  BY PlayInvIs
<1>2. Turns(c, t) /\ UNCHANGED <<down, server, real, course>> /\ s.screen \in course.toast
  BY DEF AskRematch
<1>3. spoken \in ClientState /\ spoken.screen = s.screen
  <2>1. s.result.id \in Nat /\ NoOne \in Winner /\ "rematch" \in UpType
    BY <1>1, StateIs DEF Winner, UpType
  <2> QED BY <1>1, <2>1, SendLineIs
<1> HIDE DEF spoken
<1>4. t.screen = s.screen
  BY <1>3 DEF ClientState
<1> HIDE DEF t
<1> QED BY <1>1, <1>2, <1>4, OutsideStep

LEMMA EndRematchPresents ==
    ASSUME PlayInv, NEW c \in Client, EndRematch(c)
    PROVE  GameInv' /\ PresentsOn
<1> DEFINE s == client[c]
           line == SendLine(s, "decline", s.result.id, NoOne)
<1>1. s \in ClientState
  BY PlayInvIs
<1>2. PICK t \in {s, line} : Turns(c, [t EXCEPT !.result.rematch = "none"])
  BY DEF EndRematch
<1>3. UNCHANGED <<down, server, real, course>>
  BY DEF EndRematch
<1> DEFINE u == [t EXCEPT !.result.rematch = "none"]
<1>4. /\ line \in ClientState /\ line.screen = s.screen /\ line.pending = s.pending
      /\ line.active = s.active
      /\ \A x \in Lines(line.up) : x \in Lines(s.up) \/ x.type = "decline"
  <2>1. s.result.id \in Nat /\ NoOne \in Winner /\ "decline" \in UpType
    BY <1>1, StateIs DEF Winner, UpType
  <2> QED BY <1>1, <2>1, SendLineIs
<1> HIDE DEF line
<1>5. /\ t \in ClientState /\ t.screen = s.screen /\ t.pending = s.pending
      /\ t.active = s.active
      /\ \A x \in Lines(t.up) : x \in Lines(s.up) \/ x.type = "decline"
  BY <1>1, <1>2, <1>4
<1>6. u.screen = t.screen /\ u.pending = t.pending /\ u.active = t.active /\ u.up = t.up
  BY <1>5 DEF ClientState
<1>7. Turns(c, u)
  BY <1>2
<1> HIDE DEF u
<1>8. Steady(s, u, real)
  BY <1>5, <1>6 DEF Steady, Decided, GoesOn, Presenting
<1> QED BY <1>3, <1>7, <1>8, SteadyHook

LEMMA JoinQueuePresents ==
    ASSUME PlayInv, NEW c \in Client, JoinQueue(c)
    PROVE  GameInv' /\ PresentsOn
<1> DEFINE s == client[c]
           declined == IF LiveRematch(s) THEN SendLine(s, "decline", s.result.id, NoOne) ELSE s
           spoken == SendLine(declined, "queue", 0, NoOne)
           toast == IF LiveRematch(s) THEN NoResult ELSE s.result
           t == [spoken EXCEPT !.result = toast, !.queued = TRUE]
<1>1. s \in ClientState
  BY PlayInvIs
<1>2. Turns(c, t) /\ UNCHANGED <<down, server, real, course>> /\ s.screen = "hub"
  BY DEF JoinQueue
<1>3. /\ s.result.id \in Nat /\ NoOne \in Winner /\ "decline" \in UpType
      /\ "queue" \in UpType /\ 0 \in Nat
  BY <1>1, StateIs DEF Winner, UpType
<1>4. declined \in ClientState /\ declined.screen = "hub"
  BY <1>1, <1>2, <1>3, SendLineIs
<1> HIDE DEF declined
<1>5. spoken \in ClientState /\ spoken.screen = "hub"
  BY <1>3, <1>4, SendLineIs
<1> HIDE DEF spoken, toast
<1>6. t.screen = "hub"
  BY <1>5 DEF ClientState
<1> HIDE DEF t
<1> QED BY <1>2, <1>6, OutsideStep

LEMMA DisconnectedScreen ==
    ASSUME NEW s \in ClientState
    PROVE  /\ Disconnected(s) \in ClientState /\ Disconnected(s).screen = s.screen
           /\ Disconnected(s).pending.id \in {s.pending.id, 0}
           /\ Presenting(s) => Disconnected(s).active.id = s.active.id
<1> DEFINE t == [s EXCEPT !.link = FALSE, !.queued = FALSE]
           toast == IF s.result.confirmed THEN [s.result EXCEPT !.rematch = "none"]
                    ELSE NoResult
           o == [t EXCEPT !.result = toast]
           w == [t EXCEPT !.active.awaiting = TRUE]
           p == PollCompletion(w)
           u == [p EXCEPT !.active.reported = TRUE]
           v == StopNet(t)
           x == ClearMatch(v)
           h == OpenHub(x)
<1>1. /\ Disconnected(s) \in {o, u, h}
      /\ Presenting(s) => Disconnected(s) \in {o, u}
  BY DEF Disconnected
<1>2. /\ t \in ClientState /\ t.screen = s.screen /\ t.pending = s.pending
      /\ t.active = s.active
  BY DEF ClientState
<1> HIDE DEF t
<1>3. toast \in [id : Nat, outcome : Winner, confirmed : BOOLEAN, rematch : Offer]
  <2>1. [s.result EXCEPT !.rematch = "none"]
            \in [id : Nat, outcome : Winner, confirmed : BOOLEAN, rematch : Offer]
    BY StateIs DEF Offer
  <2> QED BY <2>1, BlankIs
<1> HIDE DEF toast
<1>4. /\ o \in ClientState /\ o.screen = s.screen /\ o.pending = s.pending
      /\ o.active.id = s.active.id
  BY <1>2, <1>3 DEF ClientState
<1> HIDE DEF o
<1>5. /\ u \in ClientState /\ u.screen = s.screen /\ u.pending = s.pending
      /\ u.active.id = s.active.id
  <2>1. /\ w \in ClientState /\ w.screen = s.screen /\ w.pending = s.pending
        /\ w.active = [s.active EXCEPT !.awaiting = TRUE]
    BY <1>2 DEF ClientState
  <2> HIDE DEF w
  <2>2. w.active.id = s.active.id
    BY <2>1, StateIs
  <2>3. /\ p \in ClientState /\ p.screen = s.screen /\ p.pending = s.pending
        /\ p.active.id = s.active.id
    BY <2>1, <2>2, PollCompletionLines
  <2> HIDE DEF p
  <2>4. /\ u \in ClientState /\ u.screen = p.screen /\ u.pending = p.pending
        /\ u.active = [p.active EXCEPT !.reported = TRUE]
    BY <2>3 DEF ClientState
  <2> HIDE DEF u
  <2>5. u.active.id = p.active.id
    BY <2>3, <2>4, StateIs
  <2> QED BY <2>3, <2>4, <2>5
<1> HIDE DEF u
<1>6. h \in ClientState /\ h.screen = s.screen /\ h.pending = NoPending
  <2>1. v \in ClientState /\ v.screen = s.screen
    BY <1>2, StopNetIs
  <2> HIDE DEF v
  <2>2. x \in ClientState /\ x.screen = s.screen /\ x.pending = NoPending
    BY <2>1, ClearMatchIs, ClearMatchScreen
  <2> HIDE DEF x
  <2> QED BY <2>2, OpenHubScreen
<1> HIDE DEF h
<1> QED BY <1>1, <1>4, <1>5, <1>6, BlankIs

LEMMA DropPresents ==
    ASSUME PlayInv, NEW c \in Client, Drop(c)
    PROVE  GameInv' /\ PresentsOn
<1> DEFINE s == client[c]
           close == Message("close", 0, NoOne, "none")
           o == Disconnected(s)
<1>1. s \in ClientState /\ (s.screen = "game" => s.pending.id = 0)
  BY PlayInvIs
<1>2. PICK kept \in {<< >>, s.up} : Turns(c, [o EXCEPT !.up = Append(kept, close)])
  BY DEF Drop
<1> DEFINE t == [o EXCEPT !.up = Append(kept, close)]
<1>3. close \in UpLine /\ close.type = "close"
  BY DEF Message, UpLine, Line, UpType, Winner, Offer
<1> HIDE DEF close
<1>4. kept \in Seq(UpLine) /\ Lines(kept) \subseteq Lines(s.up)
  <2>1. << >> \in Seq(UpLine) /\ s.up \in Seq(UpLine)
    BY <1>1, StateIs
  <2> QED BY <1>2, <2>1, NoLines
<1>5. /\ Append(kept, close) \in Seq(UpLine)
      /\ Lines(Append(kept, close)) = Lines(kept) \cup {close}
  BY <1>3, <1>4, LinesOfAppend
<1>6. /\ o \in ClientState /\ o.screen = s.screen /\ o.pending.id \in {s.pending.id, 0}
      /\ Presenting(s) => o.active.id = s.active.id
  BY <1>1, DisconnectedScreen
<1> HIDE DEF o
<1>7. /\ t.screen = o.screen /\ t.pending = o.pending /\ t.active = o.active
      /\ t.up = Append(kept, close)
  BY <1>6 DEF ClientState
<1>8. Turns(c, t)
  BY <1>2
<1> HIDE DEF t
<1>9. Steady(s, t, real)
  BY <1>3, <1>4, <1>5, <1>6, <1>7 DEF Steady, Decided, GoesOn, Presenting
<1>10. /\ server' = server /\ course'.toast = course.toast
       /\ down' = [down EXCEPT ![c] = << >>]
  <2>1. server' = server /\ down' = [down EXCEPT ![c] = << >>]
        /\ course' = [course EXCEPT !.drops = course.drops - 1]
    BY DEF Drop
  <2>2. course'.toast = course.toast
    BY <2>1
  <2> QED BY <2>1, <2>2
<1>11. \A d \in Client : Lines(down'[d]) \subseteq Lines(down[d])
  <2>1. down \in [Client -> Seq(DownLine)]
    BY ClientInvIs DEF PlayInv
  <2> QED BY <1>10, <2>1, NoLines
<1> QED BY <1>8, <1>9, <1>10, <1>11, SteadyTurn

LEMMA ReconnectPresents ==
    ASSUME PlayInv, NEW c \in Client, Reconnect(c)
    PROVE  GameInv' /\ PresentsOn
<1> DEFINE s == client[c]
           t == [s EXCEPT !.link = TRUE]
<1>1. /\ s \in ClientState /\ server \in ServerState
      /\ down \in [Client -> Seq(DownLine)]
  BY ClientInvIs DEF PlayInv
<1>2. /\ Turns(c, t) /\ UNCHANGED course /\ down' = [down EXCEPT ![c] = << >>]
      /\ server' = [server EXCEPT !.online = server.online \cup {c}]
  BY DEF Reconnect
<1>3. t.screen = s.screen /\ t.up = s.up /\ t.pending = s.pending /\ t.active = s.active
  BY <1>1 DEF ClientState
<1> HIDE DEF t
<1>4. Steady(s, t, real)
  BY <1>3 DEF Steady, Decided, GoesOn, Presenting
<1>5. server'.id = server.id /\ server'.votes = server.votes /\ server'.queue = server.queue
  BY <1>1, <1>2 DEF ServerState
<1>6. \A d \in Client : Lines(down'[d]) \subseteq Lines(down[d])
  BY <1>1, <1>2, NoLines
<1> QED BY <1>2, <1>4, <1>5, <1>6, SteadyTurn

\* The game entered: the client has asked for no other match.
LEMMA EnterGamePresents ==
    ASSUME PlayInv, NEW c \in Client, client[c].pending.id # 0, client[c].screen = "hub",
           EnterGame(c, client[c]), UNCHANGED <<down, server, course>>
    PROVE  GameInv' /\ PresentsOn
<1> DEFINE s == client[c]
           a == server.id
           t == [s EXCEPT !.screen = "game", !.pending = NoPending, !.opening = FALSE,
                          !.active = [NoActive EXCEPT !.id = s.pending.id]]
<1>1. /\ s \in ClientState /\ Mine(c, s, down[c], server, real) /\ Own(s, a, real)
      /\ Feed(s, down[c], a) /\ a \in Nat \ {0} /\ client \in [Client -> ClientState]
      /\ "game" \notin course.toast
      /\ \A d \in Client : Alone(d, client[d], down[d], server)
  BY ClientInvIs DEF PlayInv, GameInv
<1>2. s.pending.stage = "ready" /\ s.pending.committed
  BY DEF EnterGame, MayEnter
<1>3. s.pending.id = a /\ Idle(s) /\ c \notin server.queue /\ c \notin server.votes
  BY <1>1, <1>2 DEF Mine
<1>4. client' = [client EXCEPT ![c] = t]
  BY DEF EnterGame, Turns
<1>5. t.up = s.up /\ t.pending = NoPending
  BY <1>1 DEF ClientState
<1> HIDE DEF t
<1>6. client'[c] = t /\ \A d \in Client \ {c} : client'[d] = client[d]
  BY <1>1, <1>4
<1>7. ~ Heard(s.up, "rematch", a)
  <2>1. InSetup(s)
    BY <1>1, OwnIs
  <2> QED BY <1>3, <2>1 DEF InSetup, Heard
<1>8. \A x \in Lines(down[c]) : x.type # "found"
  <2>1. ASSUME NEW x \in Lines(down[c]), x.type = "found"
        PROVE  FALSE
    <3>1. a < x.id /\ x.id <= a
      BY <1>1, <1>3, <2>1 DEF Feed
    <3>2. x.id \in Nat
      <4>1. PICK i \in 1 .. Len(down[c]) : x = down[c][i]
        BY DEF Lines
      <4>2. down[c] \in Seq(DownLine)
        BY <1>1 DEF Feed
      <4>3. down[c][i] \in DownLine
        BY <4>2
      <4> QED BY <4>1, <4>3 DEF DownLine, Line
    <3> QED BY <1>1, <3>1, <3>2
  <2> QED BY <2>1
<1>9. \A d \in Client : Alone(d, client'[d], down'[d], server')
  <2> TAKE d \in Client
  <2>1. CASE d = c
    BY <1>3, <1>5, <1>6, <1>7, <1>8, <2>1, BlankIs DEF Alone, Idle
  <2>2. CASE d # c
    BY <1>1, <1>6, <2>2
  <2> QED BY <2>1, <2>2
<1>10. ASSUME NEW d \in Client, Decided(client[d], real)
       PROVE  GoesOn(client[d], client'[d])
  <2>1. d # c /\ client[d].screen = "game"
    BY <1>10 DEF Decided, Presenting
  <2> QED BY <1>6, <2>1 DEF GoesOn
<1> QED BY <1>1, <1>9, <1>10 DEF GameInv, PresentsOn

LEMMA PumpLaunchPresents ==
    ASSUME PlayInv, NEW c \in Client, PumpLaunch(c)
    PROVE  GameInv' /\ PresentsOn
<1> DEFINE s == client[c]
<1>1. s \in ClientState
  BY PlayInvIs
<1>2. s.pending.id # 0 /\ s.screen = "hub" /\ UNCHANGED <<down, server, course>>
  BY DEF PumpLaunch
<1>3. CASE PrepareMatch(c, s)
  <2> DEFINE t == [s EXCEPT !.pending.stage = "prepared", !.active = NoActive, !.seen = NoOne]
  <2>1. Turns(c, t)
    BY <1>3 DEF PrepareMatch
  <2>2. t.screen = s.screen
    BY <1>1 DEF ClientState
  <2> HIDE DEF t
  <2> QED BY <1>2, <2>1, <2>2, OutsideStep
<1>4. CASE ReleaseMatch(c, s)
  <2> DEFINE t == [s EXCEPT !.pending.stage = "released"]
  <2>1. Turns(c, t)
    BY <1>4 DEF ReleaseMatch
  <2>2. t.screen = s.screen
    BY <1>1 DEF ClientState
  <2> HIDE DEF t
  <2> QED BY <1>2, <2>1, <2>2, OutsideStep
<1>5. CASE ReportReady(c, s)
  <2> DEFINE o == SendLine(s, "started", s.pending.id, NoOne)
             t == [o EXCEPT !.pending.stage = "ready"]
  <2>1. Turns(c, t)
    BY <1>5 DEF ReportReady
  <2>2. o \in ClientState /\ o.screen = s.screen
    <3>1. s.pending.id \in Nat /\ NoOne \in Winner /\ "started" \in UpType
      BY <1>1, StateIs DEF Winner, UpType
    <3> QED BY <1>1, <3>1, SendLineIs
  <2> HIDE DEF o
  <2>3. t.screen = s.screen
    BY <2>2 DEF ClientState
  <2> HIDE DEF t
  <2> QED BY <1>2, <2>1, <2>3, OutsideStep
<1>6. CASE EnterGame(c, s)
  BY <1>2, <1>6, EnterGamePresents
<1> QED BY <1>3, <1>4, <1>5, <1>6 DEF PumpLaunch

-----------------------------------------------------------------------------
(* What the server sends to a client whose game runs is never a new match. *)

Apart(k, dn, sv) == \A d \in Client : Alone(d, k[d], dn[d], sv)

\* The same match, and nothing is found; only a client out of the game asks.
LEMMA TellsApart ==
    ASSUME NEW k, Apart(k, down, server), down \in [Client -> Seq(DownLine)],
           NEW t, NEW news \in [Client -> Seq(DownLine)], Serves(t, news),
           t.id = server.id,
           \A d \in Client : k[d].screen = "game" =>
               /\ d \in t.votes => d \in server.votes
               /\ d \in t.queue => d \in server.queue,
           \A d \in Client : \A x \in Lines(news[d]) : x.type # "found"
    PROVE  Apart(k, down', server')
<1>1. server' = t
      /\ down' = [d \in Client |-> IF d \in t.online THEN down[d] \o news[d] ELSE down[d]]
  BY DEF Serves
<1>2. ASSUME NEW d \in Client
      PROVE  \A x \in Lines(down'[d]) : x \in Lines(down[d]) \/ x.type # "found"
  <2>1. CASE d \in t.online
    <3>1. down'[d] = down[d] \o news[d]
      BY <1>1, <2>1
    <3>2. Lines(down[d] \o news[d]) = Lines(down[d]) \cup Lines(news[d])
      BY LinesOfConcat
    <3> QED BY <3>1, <3>2
  <2>2. CASE d \notin t.online
    BY <1>1, <2>2
  <2> QED BY <2>1, <2>2
<1>3. ASSUME NEW d \in Client
      PROVE  Alone(d, k[d], down'[d], server')
  <2>1. Alone(d, k[d], down[d], server)
    BY DEF Apart
  <2> QED BY <1>1, <1>2, <2>1 DEF Alone
<1> QED BY <1>3 DEF Apart

LEMMA NobodyInside ==
    ASSUME NEW k, NEW dn, NEW sv, \A d \in Client : k[d].screen # "game"
    PROVE  Apart(k, dn, sv)
  BY DEF Apart, Alone

LEMMA IgnoreApart ==
    ASSUME NEW k, Apart(k, down, server), down \in [Client -> Seq(DownLine)], Ignore
    PROVE  Apart(k, down', server')
  BY QuietIs, TellsApart DEF Ignore

LEMMA CancelApart ==
    ASSUME NEW k, Apart(k, down, server), down \in [Client -> Seq(DownLine)],
           ServerSane(server, real), NEW online \in SUBSET Client, Cancel(online)
    PROVE  Apart(k, down', server')
<1> DEFINE t == Over(NoOne, FALSE, online)
           x == AbortOf(server.id)
<1>1. server.id \in Nat /\ NoOne \in Winner
  BY SaneIs DEF Winner
<1>2. t.id = server.id /\ t.votes = {} /\ t.queue = server.queue
  BY <1>1, OverIs
<1>3. x \in DownLine /\ x.type = "abort"
  BY <1>1, MessageIs DEF AbortOf, DownType, Offer
<1>4. Serves(t, ToAll(x))
  BY DEF Cancel
<1> HIDE DEF t, x
<1>5. ToAll(x) \in [Client -> Seq(DownLine)] /\ \A d \in Client : Lines(ToAll(x)[d]) = {x}
  BY <1>3, ToAllIs
<1>6. \A d \in Client : \A y \in Lines(ToAll(x)[d]) : y.type # "found"
  BY <1>3, <1>5
<1> QED BY <1>2, <1>4, <1>5, <1>6, TellsApart

LEMMA FinishApart ==
    ASSUME NEW k, Apart(k, down, server), down \in [Client -> Seq(DownLine)],
           ServerSane(server, real), NEW w \in Winner, NEW online \in SUBSET Client,
           Finish(w, online)
    PROVE  Apart(k, down', server')
<1> DEFINE offer == online = Client /\ server.id < course.matches
           t == Over(w, offer, online)
           x == ResultOf(server.id, w, offer)
<1>1. server.id \in Nat /\ offer \in BOOLEAN
  BY SaneIs
<1>2. Serves(t, ToAll(x))
  BY DEF Finish
<1>3. x \in DownLine /\ x.type = "result"
  BY <1>1, MessageIs DEF ResultOf, DownType, Offer
<1> HIDE DEF offer
<1>4. t.id = server.id /\ t.votes = {} /\ t.queue = server.queue
  BY <1>1, OverIs
<1> HIDE DEF t, x
<1>5. ToAll(x) \in [Client -> Seq(DownLine)] /\ \A d \in Client : Lines(ToAll(x)[d]) = {x}
  BY <1>3, ToAllIs
<1>6. \A d \in Client : \A y \in Lines(ToAll(x)[d]) : y.type # "found"
  BY <1>3, <1>5
<1> QED BY <1>2, <1>4, <1>5, <1>6, TellsApart

LEMMA ReplayApart ==
    ASSUME NEW k, Apart(k, down, server), down \in [Client -> Seq(DownLine)],
           ServerSane(server, real), NEW c \in Client, NEW m, Replay(c, m)
    PROVE  Apart(k, down', server')
<1> DEFINE x == IF server.outcome = NoOne THEN AbortOf(m.id)
                ELSE ResultOf(m.id, server.outcome, server.offer)
<1>1. server.id \in Nat /\ server.outcome \in Winner /\ server.offer \in BOOLEAN
  BY SaneIs
<1>2. CASE ~ (m.id = server.id /\ c \in server.told)
  BY <1>2, IgnoreApart DEF Replay
<1>3. CASE m.id = server.id /\ c \in server.told
  <2>1. x \in DownLine /\ x.type \in {"abort", "result"}
    <3>1. CASE server.outcome = NoOne
      BY <1>1, <1>3, <3>1, MessageIs DEF AbortOf, DownType, Offer, Winner
    <3>2. CASE server.outcome # NoOne
      BY <1>1, <1>3, <3>2, MessageIs DEF ResultOf, DownType, Offer
    <3> QED BY <3>1, <3>2
  <2>2. Serves(server, To(c, x))
    BY <1>3 DEF Replay
  <2> HIDE DEF x
  <2>3. To(c, x) \in [Client -> Seq(DownLine)]
        /\ \A d \in Client : \A y \in Lines(To(c, x)[d]) : d = c /\ y = x
    BY <2>1, ToIs
  <2>4. \A d \in Client : \A y \in Lines(To(c, x)[d]) : y.type # "found"
    BY <2>1, <2>3
  <2> QED BY <2>2, <2>3, <2>4, TellsApart
<1> QED BY <1>2, <1>3

LEMMA OnStartedApart ==
    ASSUME NEW k, Apart(k, down, server), down \in [Client -> Seq(DownLine)],
           ServerSane(server, real), NEW c \in Client, NEW m, OnStarted(c, m)
    PROVE  Apart(k, down', server')
<1> DEFINE ready == server.ready \cup {c}
           commit == Message("started", server.id, NoOne, "none")
           t == [server EXCEPT !.ready = ready]
           u == [server EXCEPT !.ready = ready, !.phase = "playing"]
<1>1. server \in ServerState /\ server.id \in Nat /\ NoOne \in Winner
  BY SaneIs DEF Winner
<1>2. commit \in DownLine /\ commit.type = "started"
  BY <1>1, MessageIs DEF DownType, Offer
<1>3. \/ Ignore \/ Serves(t, To(c, commit)) \/ Serves(u, ToAll(commit)) \/ Serves(t, Quiet)
  BY DEF OnStarted
<1> HIDE DEF commit, ready
<1>4. /\ t.id = server.id /\ t.votes = server.votes /\ t.queue = server.queue
      /\ u.id = server.id /\ u.votes = server.votes /\ u.queue = server.queue
  BY <1>1 DEF ServerState
<1> HIDE DEF t, u
<1>5. /\ To(c, commit) \in [Client -> Seq(DownLine)]
      /\ \A d \in Client : \A y \in Lines(To(c, commit)[d]) : y.type # "found"
  BY <1>2, ToIs
<1>6. /\ ToAll(commit) \in [Client -> Seq(DownLine)]
      /\ \A d \in Client : \A y \in Lines(ToAll(commit)[d]) : y.type # "found"
  BY <1>2, ToAllIs
<1>7. /\ Quiet \in [Client -> Seq(DownLine)]
      /\ \A d \in Client : \A y \in Lines(Quiet[d]) : y.type # "found"
  BY QuietIs
<1>8. CASE Serves(t, To(c, commit))
  BY <1>4, <1>5, <1>8, TellsApart
<1>9. CASE Serves(u, ToAll(commit))
  BY <1>4, <1>6, <1>9, TellsApart
<1>10. CASE Serves(t, Quiet)
  BY <1>4, <1>7, <1>10, TellsApart
<1> QED BY <1>3, <1>8, <1>9, <1>10, IgnoreApart

LEMMA OnAbortApart ==
    ASSUME NEW k, Apart(k, down, server), down \in [Client -> Seq(DownLine)],
           ServerSane(server, real), NEW c \in Client, NEW m, OnAbort(c, m)
    PROVE  Apart(k, down', server')
<1>1. server.online \in SUBSET Client /\ Opponent(c) \in Winner
  BY SaneIs, OpponentIs
<1>2. Ignore \/ Cancel(server.online) \/ Finish(Opponent(c), server.online)
  BY DEF OnAbort
<1> QED BY <1>1, <1>2, IgnoreApart, CancelApart, FinishApart

LEMMA OnEndApart ==
    ASSUME NEW k, Apart(k, down, server), down \in [Client -> Seq(DownLine)],
           ServerSane(server, real), NEW c \in Client, NEW m \in UpLine, OnEnd(c, m)
    PROVE  Apart(k, down', server')
<1> DEFINE said == [server.said EXCEPT ![c] = m.winner]
           t == [server EXCEPT !.said = said, !.failed = server.failed \ {c}]
<1>1. server.online \in SUBSET Client /\ server \in ServerState /\ m.winner \in Winner
  BY SaneIs DEF UpLine, Line
<1>2. \/ Replay(c, m) \/ Cancel(server.online) \/ Ignore \/ Serves(t, Quiet)
      \/ Finish(m.winner, server.online)
  BY DEF OnEnd
<1> HIDE DEF said
<1>3. t.id = server.id /\ t.votes = server.votes /\ t.queue = server.queue
  BY <1>1 DEF ServerState
<1> HIDE DEF t
<1>4. /\ Quiet \in [Client -> Seq(DownLine)]
      /\ \A d \in Client : \A y \in Lines(Quiet[d]) : y.type # "found"
  BY QuietIs
<1>5. CASE Serves(t, Quiet)
  BY <1>3, <1>4, <1>5, TellsApart
<1> QED BY <1>1, <1>2, <1>5, IgnoreApart, CancelApart, FinishApart, ReplayApart

LEMMA OnFailureApart ==
    ASSUME NEW k, Apart(k, down, server), down \in [Client -> Seq(DownLine)],
           ServerSane(server, real), NEW c \in Client, NEW m, OnFailure(c, m)
    PROVE  Apart(k, down', server')
<1> DEFINE t == [server EXCEPT !.failed = server.failed \cup {c}]
<1>1. server.online \in SUBSET Client /\ server \in ServerState
  BY SaneIs
<1>2. \/ Replay(c, m) \/ Cancel(server.online) \/ Ignore \/ Serves(t, Quiet)
  BY DEF OnFailure
<1>3. t.id = server.id /\ t.votes = server.votes /\ t.queue = server.queue
  BY <1>1 DEF ServerState
<1> HIDE DEF t
<1>4. /\ Quiet \in [Client -> Seq(DownLine)]
      /\ \A d \in Client : \A y \in Lines(Quiet[d]) : y.type # "found"
  BY QuietIs
<1>5. CASE Serves(t, Quiet)
  BY <1>3, <1>4, <1>5, TellsApart
<1> QED BY <1>1, <1>2, <1>5, IgnoreApart, CancelApart, ReplayApart

LEMMA OnDeclineApart ==
    ASSUME NEW k, Apart(k, down, server), down \in [Client -> Seq(DownLine)],
           ServerSane(server, real), NEW c \in Client, NEW m, m.id \in Nat, OnDecline(c, m)
    PROVE  Apart(k, down', server')
<1> DEFINE none == News(m.id, "none")
           t == [server EXCEPT !.offer = FALSE]
<1>1. server \in ServerState
  BY SaneIs
<1>2. none \in DownLine /\ none.type = "rematch"
  BY NewsLine DEF Offer
<1>3. Serves(t, ToAll(none)) \/ Serves(server, To(c, none))
  BY DEF OnDecline
<1>4. t.id = server.id /\ t.votes = server.votes /\ t.queue = server.queue
  BY <1>1 DEF ServerState
<1> HIDE DEF none, t
<1>5. /\ To(c, none) \in [Client -> Seq(DownLine)]
      /\ \A d \in Client : \A y \in Lines(To(c, none)[d]) : y.type # "found"
  BY <1>2, ToIs
<1>6. /\ ToAll(none) \in [Client -> Seq(DownLine)]
      /\ \A d \in Client : \A y \in Lines(ToAll(none)[d]) : y.type # "found"
  BY <1>2, ToAllIs
<1>7. CASE Serves(t, ToAll(none))
  BY <1>4, <1>6, <1>7, TellsApart
<1>8. CASE Serves(server, To(c, none))
  BY <1>5, <1>8, TellsApart
<1> QED BY <1>3, <1>7, <1>8

LEMMA OnCloseApart ==
    ASSUME NEW k, Apart(k, down, server), down \in [Client -> Seq(DownLine)],
           ServerSane(server, real), NEW c \in Client, OnClose(c)
    PROVE  Apart(k, down', server')
<1> DEFINE online == server.online \ {c}
           x == News(server.id, "none")
           t == [server EXCEPT !.online = online, !.queue = server.queue \ {c},
                               !.offer = FALSE, !.votes = {}, !.told = server.told \ {c}]
           u == Over(NoOne, FALSE, {})
           news == IF server.offer THEN ToAll(x) ELSE Quiet
<1>1. /\ server \in ServerState /\ server.id \in Nat /\ NoOne \in Winner
      /\ online \in SUBSET Client /\ Opponent(c) \in Winner
  BY SaneIs, OpponentIs DEF Winner
<1>2. \/ Cancel(online) \/ Finish(Opponent(c), online) \/ Serves(u, Quiet) \/ Serves(t, news)
  BY DEF OnClose
<1>3. x \in DownLine /\ x.type = "rematch"
  BY <1>1, NewsLine DEF Offer
<1> HIDE DEF x
<1>4. t.id = server.id /\ t.votes = {} /\ t.queue = server.queue \ {c}
  BY <1>1 DEF ServerState
<1>5. u.id = server.id /\ u.votes = {} /\ u.queue = server.queue
  BY <1>1 DEF Over, ServerState
<1> HIDE DEF t, u, online
<1>6. /\ Quiet \in [Client -> Seq(DownLine)]
      /\ \A d \in Client : \A y \in Lines(Quiet[d]) : y.type # "found"
  BY QuietIs
<1>7. /\ ToAll(x) \in [Client -> Seq(DownLine)]
      /\ \A d \in Client : \A y \in Lines(ToAll(x)[d]) : y.type # "found"
  BY <1>3, ToAllIs
<1>8. /\ news \in [Client -> Seq(DownLine)]
      /\ \A d \in Client : \A y \in Lines(news[d]) : y.type # "found"
  <2>1. news = ToAll(x) \/ news = Quiet
    OBVIOUS
  <2> HIDE DEF news
  <2> QED BY <1>6, <1>7, <2>1
<1> HIDE DEF news
<1>9. CASE Serves(u, Quiet)
  BY <1>5, <1>6, <1>9, TellsApart
<1>10. CASE Serves(t, news)
  BY <1>4, <1>8, <1>10, TellsApart
<1> QED BY <1>1, <1>2, <1>9, <1>10, CancelApart, FinishApart

\* Both have asked for the match to come, and so neither is in a game.
LEMMA OnRematchApart ==
    ASSUME NEW k, Apart(k, down, server), down \in [Client -> Seq(DownLine)],
           ServerSane(server, real), NEW c \in Client, NEW m, m.id \in Nat,
           m.id = server.id => k[c].screen # "game", OnRematch(c, m)
    PROVE  Apart(k, down', server')
<1> DEFINE d == Opponent(c)
           none == News(m.id, "none")
           t == [server EXCEPT !.offer = FALSE]
           u == [server EXCEPT !.votes = {c}]
           aw == <<News(m.id, "waiting")>>
           bo == <<News(m.id, "offered")>>
           waiting == [Quiet EXCEPT ![c] = aw, ![d] = bo]
<1>1. server \in ServerState
  BY SaneIs
<1>2. none \in DownLine /\ none.type = "rematch"
  BY NewsLine DEF Offer
<1>3. /\ News(m.id, "waiting") \in DownLine /\ News(m.id, "waiting").type = "rematch"
      /\ News(m.id, "offered") \in DownLine /\ News(m.id, "offered").type = "rematch"
  BY NewsLine DEF Offer
<1>4. \/ Serves(server, To(c, none)) \/ Serves(t, ToAll(none))
      \/ OnOffer(m) /\ Serves(u, waiting)
      \/ OnOffer(m) /\ server.votes \cup {c} = Client /\ server' = NewMatch
  BY DEF OnRematch, Serves
<1>5. /\ t.id = server.id /\ t.votes = server.votes /\ t.queue = server.queue
      /\ u.id = server.id /\ u.votes = {c} /\ u.queue = server.queue
  BY <1>1 DEF ServerState
<1>6. d \in Client /\ d # c /\ Client = {c, d}
  BY OpponentIs
<1>7. /\ aw \in Seq(DownLine) /\ Lines(aw) = {News(m.id, "waiting")}
      /\ bo \in Seq(DownLine) /\ Lines(bo) = {News(m.id, "offered")}
  BY <1>3, OneLine
<1> HIDE DEF none, t, u, d, aw, bo
<1>8. /\ To(c, none) \in [Client -> Seq(DownLine)]
      /\ \A e \in Client : \A y \in Lines(To(c, none)[e]) : y.type # "found"
  BY <1>2, ToIs
<1>9. /\ ToAll(none) \in [Client -> Seq(DownLine)]
      /\ \A e \in Client : \A y \in Lines(ToAll(none)[e]) : y.type # "found"
  BY <1>2, ToAllIs
<1>10. waiting \in [Client -> Seq(DownLine)] /\ waiting[c] = aw /\ waiting[d] = bo
  <2>1. Quiet \in [Client -> Seq(DownLine)]
    BY QuietIs
  <2> HIDE DEF Quiet
  <2> QED BY <1>6, <1>7, <2>1
<1> HIDE DEF waiting
<1>11. \A e \in Client : \A y \in Lines(waiting[e]) : y.type # "found"
  <2> TAKE e \in Client
  <2>1. waiting[e] = aw \/ waiting[e] = bo
    BY <1>6, <1>10
  <2> QED BY <1>3, <1>7, <2>1
<1>12. CASE Serves(server, To(c, none))
  BY <1>8, <1>12, TellsApart
<1>13. CASE Serves(t, ToAll(none))
  BY <1>5, <1>9, <1>13, TellsApart
<1>14. CASE OnOffer(m) /\ Serves(u, waiting)
  <2>1. k[c].screen # "game"
    BY <1>14 DEF OnOffer
  <2>2. \A e \in Client : k[e].screen = "game" => e \notin u.votes
    BY <1>5, <2>1
  <2> QED BY <1>5, <1>10, <1>11, <1>14, <2>2, TellsApart
<1>15. CASE OnOffer(m) /\ server.votes \cup {c} = Client /\ server' = NewMatch
  <2>1. k[c].screen # "game"
    BY <1>15 DEF OnOffer
  <2>2. \A e \in Client : k[e].screen # "game"
    <3> TAKE e \in Client
    <3>1. e = c \/ e \in server.votes
      BY <1>15
    <3>2. Alone(e, k[e], down[e], server)
      BY DEF Apart
    <3> QED BY <2>1, <3>1, <3>2 DEF Alone
  <2> QED BY <2>2, NobodyInside
<1> QED BY <1>4, <1>12, <1>13, <1>14, <1>15

LEMMA OnQueueApart ==
    ASSUME NEW k, Apart(k, down, server), down \in [Client -> Seq(DownLine)],
           ServerSane(server, real), NEW c \in Client, k[c].screen # "game", OnQueue(c)
    PROVE  Apart(k, down', server')
<1> DEFINE closed == IF server.offer THEN <<News(server.id, "none")>> ELSE << >>
           o == [e \in Client |-> closed]
           t == [server EXCEPT !.queue = {c}, !.offer = FALSE, !.votes = {}]
<1>1. server \in ServerState /\ server.id \in Nat
  BY SaneIs
<1>2. closed \in Seq(DownLine) /\ \A x \in Lines(closed) : x.type = "rematch"
  <2>1. News(server.id, "none") \in DownLine /\ News(server.id, "none").type = "rematch"
    BY <1>1, NewsLine DEF Offer
  <2>2. /\ <<News(server.id, "none")>> \in Seq(DownLine)
        /\ Lines(<<News(server.id, "none")>>) = {News(server.id, "none")}
    BY <2>1, OneLine
  <2>3. << >> \in Seq(DownLine) /\ Lines(<< >>) = {}
    BY NoLines
  <2>4. CASE server.offer
    BY <2>1, <2>2, <2>4
  <2>5. CASE ~ server.offer
    BY <2>3, <2>5
  <2> QED BY <2>4, <2>5
<1>3. \/ Ignore \/ server.queue \cup {c} = Client \/ Serves(t, o)
  BY DEF OnQueue
<1> HIDE DEF closed
<1>4. /\ o \in [Client -> Seq(DownLine)]
      /\ \A e \in Client : \A x \in Lines(o[e]) : x.type # "found"
  BY <1>2
<1>5. t.id = server.id /\ t.votes = {} /\ t.queue = {c}
  BY <1>1 DEF ServerState
<1> HIDE DEF o, t
<1>6. CASE Serves(t, o)
  <2>1. \A e \in Client : k[e].screen = "game" => e \notin t.queue /\ e \notin t.votes
    BY <1>5
  <2> QED BY <1>4, <1>5, <1>6, <2>1, TellsApart
<1>7. CASE server.queue \cup {c} = Client
  <2>1. \A e \in Client : k[e].screen # "game"
    <3> TAKE e \in Client
    <3>1. e = c \/ e \in server.queue
      BY <1>7
    <3>2. Alone(e, k[e], down[e], server)
      BY DEF Apart
    <3> QED BY <3>1, <3>2 DEF Alone
  <2> QED BY <2>1, NobodyInside
<1> QED BY <1>3, <1>6, <1>7, IgnoreApart

LEMMA ServePresents ==
    ASSUME PlayInv, NEW c \in Client, Serve(c)
    PROVE  GameInv' /\ PresentsOn
<1> DEFINE s == client[c]
           m == Head(s.up)
           t == [s EXCEPT !.up = Tail(s.up)]
<1>1. /\ client \in [Client -> ClientState] /\ s \in ClientState
      /\ down \in [Client -> Seq(DownLine)] /\ ServerSane(server, real)
      /\ "game" \notin course.toast /\ \A d \in Client : Alone(d, client[d], down[d], server)
  BY ClientInvIs DEF PlayInv, GameInv
<1>2. s.up # << >> /\ Turns(c, t) /\ UNCHANGED <<real, course>>
  BY DEF Serve
<1>3. m \in UpLine /\ m \in Lines(s.up) /\ Lines(Tail(s.up)) \subseteq Lines(s.up)
  BY <1>1, <1>2, StateIs, LinesOfTail
<1>4. /\ m.type = "started" => OnStarted(c, m)
      /\ m.type = "abort" => OnAbort(c, m)
      /\ m.type = "end" => OnEnd(c, m)
      /\ m.type = "failure" => OnFailure(c, m)
      /\ m.type = "rematch" => OnRematch(c, m)
      /\ m.type = "decline" => OnDecline(c, m)
      /\ m.type = "queue" => OnQueue(c)
      /\ m.type = "close" => OnClose(c)
  BY DEF Serve
<1>5. /\ t.screen = s.screen /\ t.pending = s.pending /\ t.active = s.active
      /\ t.up = Tail(s.up)
  BY <1>1 DEF ClientState
<1> HIDE DEF m, t
<1>6. client'[c] = t /\ \A d \in Client \ {c} : client'[d] = client[d]
  BY <1>1, <1>2 DEF Turns
<1>7. Apart(client', down, server)
  <2> SUFFICES ASSUME NEW d \in Client
               PROVE  Alone(d, client'[d], down[d], server)
    BY DEF Apart
  <2>1. Alone(d, client[d], down[d], server)
    BY <1>1
  <2>2. CASE d = c
    BY <1>3, <1>5, <1>6, <2>1, <2>2 DEF Alone, Idle, Heard
  <2>3. CASE d # c
    BY <1>6, <2>1, <2>3
  <2> QED BY <2>2, <2>3
<1>8. client'[c].screen = "game" =>
          m.type # "queue" /\ ~ (m.type = "rematch" /\ m.id = server.id)
  <2>1. Alone(c, s, down[c], server)
    BY <1>1
  <2> QED BY <1>3, <1>5, <1>6, <2>1 DEF Alone, Idle, Heard
<1>9. m.type \in UpType /\ m.id \in Nat
  BY <1>3 DEF UpLine, Line
<1>10. Apart(client', down', server')
  <2> DEFINE k == client'
  <2>0. Apart(k, down, server)
    BY <1>7
  <2>1. CASE m.type = "started"
    BY <1>1, <1>4, <2>0, <2>1, OnStartedApart
  <2>2. CASE m.type = "abort"
    BY <1>1, <1>4, <2>0, <2>2, OnAbortApart
  <2>3. CASE m.type = "end"
    BY <1>1, <1>3, <1>4, <2>0, <2>3, OnEndApart
  <2>4. CASE m.type = "failure"
    BY <1>1, <1>4, <2>0, <2>4, OnFailureApart
  <2>5. CASE m.type = "rematch"
    BY <1>1, <1>4, <1>8, <1>9, <2>0, <2>5, OnRematchApart
  <2>6. CASE m.type = "decline"
    BY <1>1, <1>4, <1>9, <2>0, <2>6, OnDeclineApart
  <2>7. CASE m.type = "queue"
    BY <1>1, <1>4, <1>8, <2>0, <2>7, OnQueueApart
  <2>8. CASE m.type = "close"
    BY <1>1, <1>4, <2>0, <2>8, OnCloseApart
  <2> QED BY <1>9, <2>1, <2>2, <2>3, <2>4, <2>5, <2>6, <2>7, <2>8 DEF UpType
<1>11. ASSUME NEW d \in Client, Decided(client[d], real)
       PROVE  GoesOn(client[d], client'[d])
  <2>1. client[d].screen = "game"
    BY <1>11 DEF Decided, Presenting
  <2>2. client'[d].screen = client[d].screen /\ client'[d].active = client[d].active
    BY <1>5, <1>6
  <2> QED BY <2>1, <2>2 DEF GoesOn
<1> QED BY <1>1, <1>2, <1>10, <1>11 DEF GameInv, PresentsOn, Apart

LEMMA TimerPresents ==
    ASSUME PlayInv, ReportTimer \/ SetupDeadline
    PROVE  GameInv' /\ PresentsOn
<1>1. /\ down \in [Client -> Seq(DownLine)] /\ ServerSane(server, real)
      /\ server.online \in SUBSET Client
      /\ "game" \notin course.toast /\ \A d \in Client : Alone(d, client[d], down[d], server)
  BY ClientInvIs, SaneIs DEF PlayInv, GameInv
<1>2. Cancel(server.online) /\ client' = client /\ course' = course
  BY DEF ReportTimer, SetupDeadline
<1>3. Apart(client, down, server)
  BY <1>1 DEF Apart
<1>4. Apart(client, down', server')
  BY <1>1, <1>2, <1>3, CancelApart
<1> QED BY <1>1, <1>2, <1>4
        DEF GameInv, PresentsOn, Apart, Decided, Presenting, GoesOn

LEMMA DecidePresents ==
    ASSUME PlayInv, NEW w \in Client, Decide(w)
    PROVE  GameInv' /\ PresentsOn
<1>1. UNCHANGED <<client, down, server, course>>
  BY DEF Decide
<1>2. GameInv
  BY DEF PlayInv
<1> QED BY <1>1, <1>2 DEF GameInv, PresentsOn, Decided, Presenting, GoesOn

LEMMA PlayNext ==
    ASSUME PlayInv, ClientNext
    PROVE  GameInv' /\ PresentsOn
<1>1. ASSUME NEW c \in Client, Hooks(c)
      PROVE  GameInv' /\ PresentsOn
  BY <1>1, ReadLinePresents, ConnectPresents, SetupPresents, PumpLaunchPresents,
     PreSwapPresents, PlayFramePresents, EndCorrectionPresents, AbandonPresents DEF Hooks
<1>2. ASSUME NEW c \in Client, Player(c)
      PROVE  GameInv' /\ PresentsOn
  BY <1>2, AskRematchPresents, EndRematchPresents, JoinQueuePresents DEF Player
<1>3. ASSUME NEW c \in Client, Fault(c)
      PROVE  GameInv' /\ PresentsOn
  BY <1>3, RefusePresents, BeginCorrectionPresents, DropPresents, ReconnectPresents DEF Fault
<1>4. ASSUME NEW c \in Client, TransportFails(c) \/ NativeReturn(c) \/ Serve(c)
      PROVE  GameInv' /\ PresentsOn
  BY <1>4, TransportFailsPresents, NativeReturnPresents, ServePresents
<1>5. ASSUME NEW w \in Client, Decide(w)
      PROVE  GameInv' /\ PresentsOn
  BY <1>5, DecidePresents
<1>6. CASE ReportTimer \/ SetupDeadline
  BY <1>6, TimerPresents
<1> QED BY <1>1, <1>2, <1>3, <1>4, <1>5, <1>6 DEF ClientNext

\* The win sequence of a decided game keeps its screen and its match until the
\* game itself returns to its menu, whatever result, no contest, failed
\* transport or lost connection comes meanwhile
\* (online_native_finish_is_presenting and its callers), if nobody answers the
\* toast while it runs: a rematch accepted there may end it.
THEOREM WinSequenceKept ==
    ASSUME AskedOutside
    PROVE  ClientSpec => PresentationKept
<1>1. ClientInit => GameInv
  <2> SUFFICES ASSUME ClientInit
               PROVE  GameInv
    OBVIOUS
  <2>1. course \in Courses /\ \A c \in Client : client[c].screen = "hub"
    BY DEF ClientInit, InitialClient
  <2> QED BY <2>1 DEF AskedOutside, GameInv, Alone
<1>2. ClientInv /\ GameInv /\ [ClientNext]_clientVars =>
          GameInv' /\ [PresentsOn]_clientVars
  <2> SUFFICES ASSUME ClientInv, GameInv, [ClientNext]_clientVars
               PROVE  GameInv' /\ [PresentsOn]_clientVars
    OBVIOUS
  <2>1. CASE ClientNext
    BY <2>1, PlayNext DEF PlayInv
  <2>2. CASE UNCHANGED clientVars
    BY <2>2 DEF GameInv, clientVars
  <2> QED BY <2>1, <2>2
<1>3. [PresentsOn]_clientVars => [\A c \in Client :
          /\ Presenting(client[c]) /\ ~ client[c].correcting
          /\ client[c].seen = real /\ real # NoOne
          => \/ client[c]'.screen = "main"
             \/ /\ client[c]'.screen = "game"
                /\ client[c]'.active.id = client[c].active.id]_clientVars
  BY DEF PresentsOn, Decided, GoesOn
<1> QED BY <1>1, <1>2, <1>3, ClientInvAlways, PTL DEF ClientSpec, PresentationKept
=============================================================================
