----------------------------- MODULE EncoderProofs -----------------------------
(***************************************************************************)
(* Proofs about Encoder.tla for every counter width and every travel.      *)
(* The inductive invariant says that the position owed to the callers,     *)
(* Count = overflow + Unsampled, is within the travel and has been seen by *)
(* every read in progress; overflow alone is a past value of Count.        *)
(* And about PositionScale.tla, which converts its counts, for every       *)
(* scale, axis, home and width of float: rounding to nearest keeps order   *)
(* and is near, so the sums and casts built of it do and are.              *)
(***************************************************************************)
EXTENDS Encoder, PositionScale, WellFoundedInduction, TLAPS

IInv ==
  /\ TypeOK
  /\ OverflowInTravel
  /\ ReadIsCurrent
  /\ Count \in -MaxCount..MaxCount
  /\ \A t \in Threads : pc[t] = "return" => Count \in seen[t]

(* Casts to the unsigned and the signed 16-bit type yield values in range. *)
LEMMA CastRange ==
  ASSUME NEW x \in Int
  PROVE  /\ ToUint16(x) \in 0..Modulus-1
         /\ ToInt16(x) \in -Half..Half-1
<1>1. x % Modulus \in 0..Modulus-1
  BY HalfAssumption DEF Modulus
<1> QED BY <1>1, HalfAssumption DEF ToUint16, ToInt16, Modulus

(* The difference of a sample with itself is 0. *)
LEMMA CastZero == ToInt16(0) = 0
<1>1. 0 % Modulus = 0
  BY HalfAssumption DEF Modulus
<1> QED BY <1>1, HalfAssumption DEF ToInt16

(* One edge of the shaft moves the signed difference by one count, whatever *)
(* CNT and last_raw are, as long as the result fits the signed type.        *)
LEMMA EdgeMovesDifference ==
  ASSUME NEW c \in 0..Modulus-1, NEW r \in 0..Modulus-1, NEW d \in {-1, 1},
         ToInt16(c - r) + d \in -Half..Half-1
  PROVE  ToInt16(ToUint16(c + d) - r) = ToInt16(c - r) + d
<1>1. ToUint16(c + d) = IF c + d < 0 THEN c + d + Modulus
                        ELSE IF c + d >= Modulus THEN c + d - Modulus ELSE c + d
  BY HalfAssumption DEF ToUint16, Modulus
<1>2. \A x \in -(2 * Modulus)..2 * Modulus - 1 :
        x % Modulus = IF x < -Modulus THEN x + 2 * Modulus
                      ELSE IF x < 0 THEN x + Modulus
                      ELSE IF x < Modulus THEN x ELSE x - Modulus
  BY HalfAssumption DEF Modulus
<1>3. Modulus \in Int /\ Modulus = 2 * Half /\ Half \in Int /\ Half > 0
  BY HalfAssumption DEF Modulus
<1>4. c - r \in -(2 * Modulus)..2 * Modulus - 1
  BY <1>3
<1>5. ToUint16(c + d) - r \in -(2 * Modulus)..2 * Modulus - 1
  BY <1>1, <1>3
<1>6. (c - r) % Modulus = IF c - r < 0 THEN c - r + Modulus ELSE c - r
  BY <1>2, <1>3, <1>4
<1>7. (ToUint16(c + d) - r) % Modulus =
        IF ToUint16(c + d) - r < 0 THEN ToUint16(c + d) - r + Modulus
        ELSE ToUint16(c + d) - r
  BY <1>1, <1>2, <1>3, <1>5
<1> QED BY <1>1, <1>3, <1>6, <1>7 DEF ToInt16

--------------------------------------------------------------------------------

(* What each step does to the position owed to the callers. *)
LEMMA CountAfterTurn ==
  ASSUME TypeOK, NEW d \in {-1, 1}, Turn(d)
  PROVE  Count' = Count + d
<1>1. Unsampled' = Unsampled + d
  <2>1. Unsampled' = ToInt16(ToUint16(cnt + d) - last_raw)
    BY DEF Turn, Unsampled
  <2>2. ToInt16(ToUint16(cnt + d) - last_raw) = ToInt16(cnt - last_raw) + d
    BY EdgeMovesDifference DEF TypeOK, Turn, Unsampled
  <2> QED BY <2>1, <2>2 DEF Unsampled
<1>2. Unsampled \in Int /\ overflow \in Int
  BY CastRange, HalfAssumption DEF TypeOK, Unsampled, Modulus
<1> QED BY <1>1, <1>2 DEF Count, Turn

LEMMA CountAfterSample ==
  ASSUME TypeOK, NEW t \in Threads, Sample(t)
  PROVE  Count' = Count /\ overflow' = Count
<1>1. Unsampled' = 0
  BY CastZero, HalfAssumption DEF TypeOK, Sample, Unsampled, Modulus
<1>2. overflow' = Count
  BY DEF Sample, Count, Unsampled
<1>3. Count \in Int
  BY CastRange, HalfAssumption DEF TypeOK, Count, Unsampled, Modulus
<1> QED BY <1>1, <1>2, <1>3 DEF Count

LEMMA CountAfterZero ==
  ASSUME TypeOK, NEW t \in Threads, Clear(t) \/ Sync(t)
  PROVE  Count' = 0 /\ overflow' = 0
<1>1. cnt' - last_raw' = 0
  BY HalfAssumption DEF TypeOK, Clear, Sync, Modulus
<1>2. overflow' = 0
  BY DEF Clear, Sync
<1> QED BY <1>1, <1>2, CastZero DEF Count, Unsampled

LEMMA CountAfterReturn ==
  ASSUME NEW t \in Threads, Return(t)
  PROVE  Count' = Count /\ overflow' = overflow
BY DEF Return, Count, Unsampled

(* The invariant holds when the driver has been initialised. *)
LEMMA InitInv == Init => IInv
<1> SUFFICES ASSUME Init PROVE IInv
  OBVIOUS
<1>1. cnt - last_raw = 0 /\ overflow = 0
  BY HalfAssumption DEF Init, Modulus
<1>2. Count = 0
  BY <1>1, CastZero DEF Count, Unsampled
<1>3. TypeOK
  BY DEF Init, TypeOK
<1> QED BY <1>1, <1>2, <1>3, TravelAssumption
        DEF Init, IInv, OverflowInTravel, ReadIsCurrent

(* Every step preserves the invariant. *)
LEMMA StepInv == IInv /\ [Next]_vars => IInv'
<1> SUFFICES ASSUME IInv, [Next]_vars PROVE IInv'
  OBVIOUS
<1> USE TravelAssumption
<1>0. TypeOK /\ Count \in Int /\ overflow \in Int
  BY DEF IInv, TypeOK
<1>1. ASSUME NEW d \in {-1, 1}, Turn(d) PROVE IInv'
  <2>1. Count' = Count + d
    BY <1>0, <1>1, CountAfterTurn
  <2>2. TypeOK'
    <3>1. cnt' \in 0..Modulus-1
      BY <1>0, <1>1, CastRange, HalfAssumption DEF Turn, TypeOK, Modulus
    <3> QED BY <1>0, <1>1, <3>1 DEF Turn, TypeOK, Witness
  <2> QED BY <1>1, <2>1, <2>2
          DEF IInv, Turn, Witness, OverflowInTravel, ReadIsCurrent, TypeOK
<1>2. ASSUME NEW t \in Threads, Sample(t) PROVE IInv'
  <2>1. Count' = Count /\ overflow' = Count
    BY <1>0, <1>2, CountAfterSample
  <2>2. TypeOK'
    BY <1>0, <1>2, <2>1 DEF Sample, TypeOK
  <2> QED BY <1>2, <2>1, <2>2
          DEF IInv, Sample, OverflowInTravel, ReadIsCurrent, TypeOK
<1>3. ASSUME NEW t \in Threads, Return(t) PROVE IInv'
  <2>1. Count' = Count /\ overflow' = overflow
    BY <1>3, CountAfterReturn
  <2>2. TypeOK'
    BY <1>0, <1>3 DEF Return, TypeOK
  <2> QED BY <1>3, <2>1, <2>2
          DEF IInv, Return, OverflowInTravel, ReadIsCurrent, TypeOK
<1>4. ASSUME NEW t \in Threads, Clear(t) \/ Sync(t) PROVE IInv'
  <2>1. Count' = 0 /\ overflow' = 0
    BY <1>0, <1>4, CountAfterZero
  <2>2. TypeOK'
    <3>1. 0 \in 0..Modulus-1
      BY HalfAssumption DEF Modulus
    <3> QED BY <1>0, <1>4, <3>1 DEF Clear, Sync, TypeOK, Witness
  <2> QED BY <1>4, <2>1, <2>2
          DEF IInv, Clear, Sync, Witness, OverflowInTravel, ReadIsCurrent, TypeOK
<1>5. CASE UNCHANGED vars
  BY <1>5 DEF vars, IInv, TypeOK, OverflowInTravel, ReadIsCurrent, Count, Unsampled
<1> QED BY <1>1, <1>2, <1>3, <1>4, <1>5 DEF Next

(* stepper_encoder_driver.c: the invariant of every reachable state. *)
THEOREM Invariance == Spec => []IInv
<1> QED BY InitInv, StepInv, PTL DEF Spec

(* CNT, the last sample and what reads return keep the types of the code.    *)
THEOREM TypeCorrect == Spec => []TypeOK
<1>1. IInv => TypeOK
  BY DEF IInv
<1>2. QED
  BY Invariance, <1>1, PTL

(* stepper_encoder_driver_read's accumulator never leaves the travel. *)
THEOREM OverflowSafe == Spec => []OverflowInTravel
<1>1. IInv => OverflowInTravel
  BY DEF IInv
<1> QED BY <1>1, Invariance, PTL

(* stepper_encoder_driver_read returns a position held during the call. *)
THEOREM ReadSafe == Spec => []ReadIsCurrent
<1>1. IInv => ReadIsCurrent
  BY DEF IInv
<1> QED BY <1>1, Invariance, PTL

--------------------------------------------------------------------------------

(* Initial states are initial states of the position counter. *)
LEMMA RefinesInit == Init => Counter!Init
<1> SUFFICES ASSUME Init PROVE Counter!Init
  OBVIOUS
<1>1. cnt - last_raw = 0 /\ overflow = 0
  BY HalfAssumption DEF Init, Modulus
<1>2. Count = 0
  BY <1>1, CastZero DEF Count, Unsampled
<1> QED BY <1>2 DEF Init, Counter!Init

(* Every driver step is a step of the position counter. *)
LEMMA RefinesNext == IInv /\ [Next]_vars => [Counter!Next]_(Counter!vars)
<1> SUFFICES ASSUME IInv, [Next]_vars PROVE [Counter!Next]_(Counter!vars)
  OBVIOUS
<1>0. TypeOK
  BY DEF IInv
<1>1. ASSUME NEW d \in {-1, 1}, Turn(d) PROVE Counter!Turn(d)
  BY <1>0, <1>1, CountAfterTurn DEF Turn, Witness, Counter!Turn, Counter!Moves
<1>2. ASSUME NEW t \in Threads, Sample(t) PROVE Counter!BeginRead(t)
  BY <1>0, <1>2, CountAfterSample DEF Sample, Counter!BeginRead
<1>3. ASSUME NEW t \in Threads, Return(t) PROVE Counter!EndRead(t)
  BY <1>3, CountAfterReturn DEF IInv, ReadIsCurrent, Return, Counter!EndRead
<1>4. ASSUME NEW t \in Threads, Clear(t) \/ Sync(t) PROVE Counter!Zero(t)
  BY <1>0, <1>4, CountAfterZero DEF Clear, Sync, Witness, Counter!Zero, Counter!Moves
<1>5. CASE UNCHANGED vars
  BY <1>5 DEF vars, Counter!vars, Count, Unsampled
<1> QED BY <1>1, <1>2, <1>3, <1>4, <1>5 DEF Next, Counter!Next

(* stepper_encoder_driver.c implements the unbounded position counter. *)
THEOREM Implementation == Spec => ImplementsCounter
<1>1. Spec => Counter!Spec
  BY RefinesInit, RefinesNext, Invariance, PTL DEF Spec, Counter!Spec
<1> QED BY <1>1 DEF ImplementsCounter

--------------------------------------------------------------------------------
(***************************************************************************)
(* Floats round to nearest: by no more than half the distance of two       *)
(* floats, and never past a float.                                         *)
(***************************************************************************)
Limit == Significands * Granule[MaxExp]

LEMMA Products ==
  ASSUME NEW a \in Nat \ {0}, NEW b \in Nat \ {0}
  PROVE  a * b \in Nat \ {0}
OBVIOUS

LEMMA Associates ==
  ASSUME NEW a \in Int, NEW b \in Int, NEW c \in Int
  PROVE  a * b * c = a * (b * c)
OBVIOUS

LEMMA Quotients ==
  ASSUME NEW n \in Int, NEW k \in Int, k > 0
  PROVE  n = k * (n \div k) + (n % k)
OBVIOUS

LEMMA Remainder ==
  ASSUME NEW n \in Nat, NEW k \in Nat \ {0}
  PROVE  /\ n \div k \in Nat /\ n % k \in 0..k-1
         /\ n = k * (n \div k) + (n % k)
<1>1. n \div k \in Nat /\ n % k \in 0..k-1
  OBVIOUS
<1>2. n \in Int /\ k \in Int /\ k > 0
  OBVIOUS
<1>3. n = k * (n \div k) + (n % k)
  BY ONLY <1>2, Quotients, Zenon
<1> QED BY ONLY <1>1, <1>3, Zenon

LEMMA Halves == \E half \in Nat \ {0} : Significands = 2 * half
<1>1. Significands \in Nat \ {0} /\ Significands % 2 = 0
  BY FloatAssumption
<1>2. \A m \in Nat \ {0} : m % 2 = 0 => m \div 2 \in Nat \ {0} /\ m = 2 * (m \div 2)
  OBVIOUS
<1> QED BY <1>1, <1>2

\* Division with its remainder, over plain integers.
LEMMA NearestOf ==
  ASSUME NEW n \in Nat, NEW k \in Nat \ {0}
  PROVE  /\ Nearest(n, k) \in Nat
         /\ 2 * (k * Nearest(n, k) - n) <= k
         /\ 2 * (n - k * Nearest(n, k)) <= k
<1>1. PICK q \in Nat, r \in 0..k-1 : q = n \div k /\ r = n % k /\ n = k * q + r
  BY Remainder
<1>2. k * (q + 1) = k * q + k
  OBVIOUS
<1> QED BY <1>1, <1>2 DEF Nearest

\* Rounding never passes a whole number.
LEMMA NearestMeets ==
  ASSUME NEW n \in Nat, NEW k \in Nat \ {0}, NEW a \in Nat
  PROVE  /\ n <= k * a => Nearest(n, k) <= a
         /\ k * a <= n => a <= Nearest(n, k)
<1> DEFINE m == Nearest(n, k)
<1>1. /\ m \in Nat /\ 2 * (k * m - n) <= k /\ 2 * (n - k * m) <= k
  BY NearestOf
<1> HIDE DEF m
<1>2. ASSUME n <= k * a, m > a
      PROVE  FALSE
  <2>1. k * m >= k * a + k
    BY <1>1, <1>2
  <2> QED BY <1>1, <1>2, <2>1
<1>3. ASSUME k * a <= n, m < a
      PROVE  FALSE
  <2>1. k * a >= k * m + k
    BY <1>1, <1>3
  <2> QED BY <1>1, <1>3, <2>1
<1> QED BY <1>1, <1>2, <1>3 DEF m

LEMMA NearestMonotone ==
  ASSUME NEW n \in Nat, NEW m \in Nat, NEW k \in Nat \ {0}, n <= m
  PROVE  Nearest(n, k) <= Nearest(m, k)
<1>1. PICK q \in Nat, r \in 0..k-1 : q = n \div k /\ r = n % k /\ n = k * q + r
  BY Remainder
<1>2. PICK p \in Nat, s \in 0..k-1 : p = m \div k /\ s = m % k /\ m = k * p + s
  BY Remainder
<1>3. q <= p
  <2>1. ASSUME p < q
        PROVE  k * p + k <= k * q
    BY <2>1
  <2> QED BY <1>1, <1>2, <2>1
<1>4. CASE q = p
  <2>1. r <= s
    BY <1>1, <1>2, <1>4
  <2> QED BY <1>1, <1>2, <1>4, <2>1 DEF Nearest
<1>5. CASE q < p
  BY <1>1, <1>2, <1>5 DEF Nearest
<1> QED BY <1>3, <1>4, <1>5

Fits(n, d, e) ==
  /\ n < d * Significands * Granule[e]
  /\ e = 0 \/ n >= d * Significands * Granule[e - 1]

LEMMA ExponentFits ==
  ASSUME NEW n \in Nat, NEW d \in Nat \ {0}, n < d * Limit
  PROVE  /\ Exponent(n, d) \in 0..MaxExp
         /\ Fits(n, d, Exponent(n, d))
<1> DEFINE T == {e \in 0..MaxExp : n < d * Significands * Granule[e]}
<1> USE FloatAssumption
<1>1. MaxExp \in T
  <2>1. d * Significands * Granule[MaxExp] = d * (Significands * Granule[MaxExp])
    <3>1. d \in Int /\ Significands \in Int /\ Granule[MaxExp] \in Int
      OBVIOUS
    <3> QED BY ONLY <3>1, Associates, Zenon
  <2> QED BY <2>1 DEF Limit
<1>2. PICK e \in T : \A f \in T : ~(f < e)
  <2> DEFINE R == {ss \in Nat \X Nat : ss[1] < ss[2]}
  <2>1. IsWellFoundedOn(R, Nat)
    BY NatLessThanWellFounded DEF OpToRel
  <2>2. T \subseteq Nat
    OBVIOUS
  <2>3. T # {}
    BY <1>1
  <2>4. PICK e \in T : \A f \in T : <<f, e>> \notin R
    <3> HIDE DEF T, R
    <3> QED BY ONLY <2>1, <2>2, <2>3, WFMin
  <2>5. \A f \in T : ~(f < e)
    BY <2>2, <2>4
  <2> QED BY <2>5
<1>3. Fits(n, d, e)
  <2>1. CASE e = 0
    BY <2>1 DEF Fits
  <2>2. CASE e # 0
    <3>1. e - 1 \in 0..MaxExp /\ e - 1 \notin T
      BY <1>2, <2>2
    <3>2. ~(n < d * Significands * Granule[e - 1])
      BY <3>1
    <3>3. d * Significands * Granule[e - 1] \in Int
      BY <3>1
    <3> QED BY <3>2, <3>3 DEF Fits
  <2> QED BY <2>1, <2>2
<1> QED BY <1>2, <1>3 DEF Exponent, Fits


(* The value of a float, without its sign.                                 *)
Rounded(n, d) == Granule[Exponent(n, d)] * Nearest(n, d * Granule[Exponent(n, d)])

\* What is needed of the exponent, over plain integers.
LEMMA GranuleFits ==
  ASSUME NEW n \in Nat, NEW d \in Nat \ {0}, n < d * Limit
  PROVE  \E g \in Nat \ {0} :
           /\ g = Granule[Exponent(n, d)]
           /\ Rounded(n, d) = g * Nearest(n, d * g)
           /\ n < d * Significands * g
           /\ g = 1 \/ d * Significands * g <= 2 * n
<1> DEFINE e == Exponent(n, d)
<1>1. e \in 0..MaxExp /\ Fits(n, d, e)
  BY ExponentFits
<1> HIDE DEF e
<1> DEFINE g == Granule[e]
<1>2. g \in Nat \ {0} /\ n < d * Significands * g
  BY <1>1, FloatAssumption DEF Fits
<1>3. g = 1 \/ d * Significands * g <= 2 * n
  <2>1. CASE e = 0
    BY <2>1, FloatAssumption
  <2>2. CASE e # 0
    <3>1. e \in 1..MaxExp /\ e - 1 \in 0..MaxExp
      BY <1>1, <2>2, FloatAssumption
    <3>2. PICK h \in Nat \ {0} : h = Granule[e - 1]
      BY <3>1, FloatAssumption
    <3>3. g = 2 * h
      BY <3>1, <3>2, FloatAssumption
    <3>4. d * Significands * h <= n
      BY <1>1, <2>2, <3>2 DEF Fits
    <3>5. PICK k \in Nat : k = d * Significands
      BY FloatAssumption
    <3>6. k * (2 * h) = 2 * (k * h)
      OBVIOUS
    <3> QED BY <3>3, <3>4, <3>5, <3>6
  <2> QED BY <2>1, <2>2
<1> QED BY <1>2, <1>3 DEF Rounded, e

LEMMA RoundedNear ==
  ASSUME NEW n \in Nat, NEW d \in Nat \ {0}, n < d * Limit
  PROVE  /\ Rounded(n, d) \in Nat
         /\ \/ 2 * Abs(d * Rounded(n, d) - n) <= d
            \/ Significands * Abs(d * Rounded(n, d) - n) <= n
<1>1. PICK g \in Nat \ {0} :
        /\ Rounded(n, d) = g * Nearest(n, d * g)
        /\ g = 1 \/ d * Significands * g <= 2 * n
  BY GranuleFits
<1>2. PICK k \in Nat \ {0} : k = d * g
  OBVIOUS
<1>3. PICK m \in Nat : m = Nearest(n, k) /\ 2 * (k * m - n) <= k /\ 2 * (n - k * m) <= k
  BY NearestOf
<1>4. PICK v \in Nat : v = g * m
  OBVIOUS
<1>5. Rounded(n, d) = v /\ d * v = k * m
  BY <1>1, <1>2, <1>3, <1>4
<1>6. PICK a \in Nat : a = Abs(d * v - n) /\ 2 * a <= k
  <2>1. PICK w \in Int : w = d * v /\ w = k * m
    BY <1>5
  <2>2. 2 * (w - n) <= k /\ 2 * (n - w) <= k
    BY <1>3, <2>1
  <2>3. Abs(w - n) \in Nat /\ 2 * Abs(w - n) <= k
    BY <2>2 DEF Abs
  <2> QED BY <2>1, <2>3
<1>7. CASE g = 1
  BY <1>2, <1>5, <1>6, <1>7
<1>8. CASE d * Significands * g <= 2 * n
  <2>1. Significands \in Nat
    BY FloatAssumption
  <2>2. d * Significands * g = Significands * k
    BY <1>2, <2>1
  <2>3. Significands * (2 * a) <= Significands * k
    BY <1>6, <2>1
  <2>4. Significands * (2 * a) = 2 * (Significands * a)
    BY <2>1
  <2>5. Significands * a <= n
    BY <1>8, <2>1, <2>2, <2>3, <2>4
  <2> QED BY <1>5, <1>6, <2>5
<1> QED BY <1>1, <1>7, <1>8

(* Between two binades floats are whole numbers of the coarser granule.     *)
LEMMA RoundedMonotone ==
  ASSUME NEW n \in Nat, NEW m \in Nat, NEW d \in Nat \ {0}, n <= m, m < d * Limit
  PROVE  Rounded(n, d) <= Rounded(m, d)
<1> DEFINE e == Exponent(n, d)
           f == Exponent(m, d)
<1>1. n < d * Limit
  <2>1. d * Limit \in Int
    BY FloatAssumption DEF Limit
  <2> QED BY <2>1
<1>2. /\ e \in 0..MaxExp /\ Fits(n, d, e)
      /\ f \in 0..MaxExp /\ Fits(m, d, f)
  BY <1>1, ExponentFits
<1>3. Rounded(n, d) = Granule[e] * Nearest(n, d * Granule[e])
  BY DEF Rounded
<1>4. Rounded(m, d) = Granule[f] * Nearest(m, d * Granule[f])
  BY DEF Rounded
<1> HIDE DEF e, f
<1>5. PICK g \in Nat \ {0} : g = Granule[e]
  BY <1>2, FloatAssumption
<1>6. PICK h \in Nat \ {0} : h = Granule[f]
  BY <1>2, FloatAssumption
<1>7. d * g \in Nat \ {0} /\ d * h \in Nat \ {0}
  BY Products
<1>8. PICK a \in Nat : a = Nearest(n, d * g)
  BY <1>7, NearestOf
<1>9. PICK b \in Nat : b = Nearest(m, d * h)
  BY <1>7, NearestOf
<1>10. CASE e = f
  <2>1. a <= b
    BY <1>5, <1>6, <1>7, <1>8, <1>9, <1>10, NearestMonotone
  <2>2. g * a <= g * b
    BY <2>1
  <2> QED BY <1>3, <1>4, <1>5, <1>6, <1>8, <1>9, <1>10, <2>2
<1>11. CASE e < f
  <2>1. f - 1 \in 0..MaxExp /\ f \in 1..MaxExp
    BY <1>2, <1>11, FloatAssumption
  <2>2. PICK l \in Nat \ {0} : l = Granule[f - 1]
    BY <2>1, FloatAssumption
  <2>3. g <= l /\ h = 2 * l
    <3>1. e <= f - 1
      BY <1>2, <1>11
    <3> QED BY <1>2, <1>5, <1>6, <2>1, <2>2, <3>1, FloatAssumption
  <2>4. PICK half \in Nat \ {0} : Significands = 2 * half
    BY Halves
  <2>5. a <= Significands
    <3>1. n < d * Significands * g
      BY <1>2, <1>5 DEF Fits
    <3>2. d * Significands * g = (d * g) * Significands
      BY <2>4
    <3> QED BY <1>7, <1>8, <2>4, <3>1, <3>2, NearestMeets
  <2>6. half <= b
    <3>1. d * Significands * l <= m
      BY <1>2, <1>11, <2>2 DEF Fits
    <3>2. d * Significands * l = (d * h) * half
      BY <2>3, <2>4
    <3> QED BY <1>7, <1>9, <2>4, <3>1, <3>2, NearestMeets
  <2>7. g * a <= l * Significands
    BY <2>3, <2>4, <2>5
  <2>8. l * Significands = h * half
    BY <2>3, <2>4
  <2>9. h * half <= h * b
    BY <2>6
  <2> QED BY <1>3, <1>4, <1>5, <1>6, <1>8, <1>9, <2>4, <2>7, <2>8, <2>9
<1>12. CASE f < e
  <2>1. e - 1 \in 0..MaxExp
    BY <1>2, <1>12, FloatAssumption
  <2>2. PICK l \in Nat \ {0} : l = Granule[e - 1]
    BY <2>1, FloatAssumption
  <2>3. h <= l
    <3>1. f <= e - 1
      BY <1>2, <1>12
    <3> QED BY <1>2, <1>6, <2>1, <2>2, <3>1, FloatAssumption
  <2>4. PICK k \in Nat \ {0} : k = d * Significands
    BY FloatAssumption
  <2>5. k * h <= k * l
    BY <2>3
  <2>6. m < k * h /\ k * l <= n
    BY <1>2, <1>6, <1>12, <2>2, <2>4 DEF Fits
  <2> QED BY <2>5, <2>6
<1> QED BY <1>2, <1>10, <1>11, <1>12


\* Signs.
LEMMA FloatIs ==
  ASSUME NEW n \in Int, NEW d \in Nat \ {0}, Abs(n) < d * Limit
  PROVE  Float(n, d) = IF n > 0 THEN Rounded(n, d) ELSE IF n < 0 THEN -Rounded(-n, d) ELSE 0
<1>1. Abs(n) \in Nat
  BY DEF Abs
<1>2. PICK g \in Nat \ {0} :
        /\ g = Granule[Exponent(Abs(n), d)]
        /\ Rounded(Abs(n), d) = g * Nearest(Abs(n), d * g)
  BY <1>1, GranuleFits
<1>3. PICK a \in Nat : a = Nearest(Abs(n), d * g)
  <2>1. d * g \in Nat \ {0}
    BY <1>2, Products
  <2> QED BY <1>1, <2>1, NearestOf
<1>4. Float(n, d) = Sgn(n) * g * a /\ Rounded(Abs(n), d) = g * a
  BY <1>2, <1>3 DEF Float
<1>5. CASE n > 0
  <2>1. Sgn(n) = 1 /\ Abs(n) = n
    BY <1>5 DEF Sgn, Abs
  <2> QED BY <1>4, <1>5, <2>1
<1>6. CASE n < 0
  <2>1. Sgn(n) = -1 /\ Abs(n) = -n
    BY <1>6 DEF Sgn, Abs
  <2> QED BY <1>4, <1>6, <2>1
<1>7. CASE n = 0
  <2>1. Sgn(n) = 0
    BY <1>7 DEF Sgn
  <2> QED BY <1>4, <1>7, <2>1
<1> QED BY <1>5, <1>6, <1>7

(* v is n / d, to half a unit or to what a float rounds.                    *)
Close(v, n, d) ==
  \/ 2 * Abs(d * v - n) <= d
  \/ Significands * Abs(d * v - n) <= Abs(n)

LEMMA FloatNear ==
  ASSUME NEW n \in Int, NEW d \in Nat \ {0}, Abs(n) < d * Limit
  PROVE  Float(n, d) \in Int /\ Close(Float(n, d), n, d)
<1>1. PICK m \in Nat : m = Abs(n)
  BY DEF Abs
<1>2. PICK v \in Nat : v = Rounded(m, d)
  BY <1>1, RoundedNear
<1>3. \/ 2 * Abs(d * v - m) <= d
      \/ Significands * Abs(d * v - m) <= m
  BY <1>1, <1>2, RoundedNear
<1>4. CASE n > 0
  <2>1. m = n /\ Float(n, d) = v
    BY <1>1, <1>2, <1>4, FloatIs DEF Abs
  <2> QED BY <1>1, <1>3, <2>1 DEF Close
<1>5. CASE n < 0
  <2>1. m = -n /\ Float(n, d) = -v
    BY <1>1, <1>2, <1>5, FloatIs DEF Abs
  <2>2. PICK w \in Int : w = d * v
    OBVIOUS
  <2>3. d * (-v) = -w
    BY <2>2
  <2>4. Abs((-w) - n) = Abs(w - m)
    BY <2>1 DEF Abs
  <2>5. Abs(d * Float(n, d) - n) = Abs(d * v - m)
    BY <2>1, <2>2, <2>3, <2>4
  <2> QED BY <1>1, <1>3, <2>1, <2>5 DEF Close
<1>6. CASE n = 0
  <2>1. Float(n, d) = 0
    BY <1>6, FloatIs
  <2>2. Abs(d * 0 - 0) = 0
    BY DEF Abs
  <2> QED BY <1>6, <2>1, <2>2 DEF Close
<1> QED BY <1>4, <1>5, <1>6

LEMMA FloatMonotone ==
  ASSUME NEW n \in Int, NEW m \in Int, NEW d \in Nat \ {0},
         Abs(n) < d * Limit, Abs(m) < d * Limit, n <= m
  PROVE  Float(n, d) <= Float(m, d)
<1>1. n > 0 => Rounded(n, d) \in Nat
  BY RoundedNear DEF Abs
<1>2. m > 0 => Rounded(m, d) \in Nat
  BY RoundedNear DEF Abs
<1>3. n < 0 => Rounded(-n, d) \in Nat
  BY RoundedNear DEF Abs
<1>4. m < 0 => Rounded(-m, d) \in Nat
  BY RoundedNear DEF Abs
<1>5. n > 0 => Rounded(n, d) <= Rounded(m, d)
  BY RoundedMonotone DEF Abs
<1>6. m < 0 => Rounded(-m, d) <= Rounded(-n, d)
  BY RoundedMonotone DEF Abs
<1>7. /\ Float(n, d) = IF n > 0 THEN Rounded(n, d) ELSE IF n < 0 THEN -Rounded(-n, d) ELSE 0
      /\ Float(m, d) = IF m > 0 THEN Rounded(m, d) ELSE IF m < 0 THEN -Rounded(-m, d) ELSE 0
  BY FloatIs
<1> QED BY <1>1, <1>2, <1>3, <1>4, <1>5, <1>6, <1>7

(* A cast rounds towards 0, and no higher number to a lower.                *)
LEMMA CastNear ==
  ASSUME NEW x \in Int, NEW k \in Nat \ {0}
  PROVE  Quotient(x, k) \in Int /\ Abs(k * Quotient(x, k) - x) < k
<1>1. CASE x >= 0
  <2>1. PICK q \in Nat : q = x \div k /\ k * q <= x /\ x < k * q + k
    BY <1>1
  <2>2. Quotient(x, k) = q
    BY <1>1, <2>1 DEF Quotient
  <2> QED BY <2>1, <2>2 DEF Abs
<1>2. CASE x < 0
  <2>1. PICK y \in Nat : y = -x
    BY <1>2
  <2>2. PICK q \in Nat : q = y \div k /\ k * q <= y /\ y < k * q + k
    OBVIOUS
  <2>3. Quotient(x, k) = -q
    BY <1>2, <2>1, <2>2 DEF Quotient
  <2>4. k * (-q) = -(k * q)
    OBVIOUS
  <2> QED BY <2>1, <2>2, <2>3, <2>4 DEF Abs
<1> QED BY <1>1, <1>2

LEMMA DivideMonotone ==
  ASSUME NEW x \in Nat, NEW y \in Nat, NEW k \in Nat \ {0}, x <= y
  PROVE  x \div k \in Nat /\ y \div k \in Nat /\ x \div k <= y \div k
<1>1. PICK q \in Nat : q = x \div k /\ k * q <= x /\ x < k * q + k
  OBVIOUS
<1>2. PICK p \in Nat : p = y \div k /\ k * p <= y /\ y < k * p + k
  OBVIOUS
<1>3. ASSUME p < q
      PROVE  k * p + k <= k * q
  BY <1>3
<1> QED BY <1>1, <1>2, <1>3

LEMMA CastMonotone ==
  ASSUME NEW x \in Int, NEW y \in Int, NEW k \in Nat \ {0}, x <= y
  PROVE  Quotient(x, k) <= Quotient(y, k)
<1>1. CASE x >= 0
  BY <1>1, DivideMonotone DEF Quotient
<1>2. CASE y < 0
  BY <1>2, DivideMonotone DEF Quotient
<1>3. CASE x < 0 /\ y >= 0
  <2>1. (-x) \in Nat /\ y \in Nat
    BY <1>3
  <2>2. (-x) \div k \in Nat /\ y \div k \in Nat
    BY <2>1
  <2> QED BY <1>3, <2>2 DEF Quotient
<1> QED BY <1>1, <1>2, <1>3


LEMMA Scales ==
  /\ One \in Nat \ {0} /\ Scale \in Nat \ {0} /\ Limit \in Nat \ {0}
  /\ Significands \in Nat /\ Significands >= 2
<1>1. Limit \in Nat \ {0}
  <2>1. Granule[MaxExp] \in Nat \ {0} /\ Significands \in Nat \ {0}
    BY FloatAssumption
  <2> QED BY <2>1, Products DEF Limit
<1>2. Significands \in Nat /\ Significands >= 2
  BY Halves
<1> QED BY <1>1, <1>2, RangeAssumption DEF Scale

LEMMA AbsSum ==
  ASSUME NEW x \in Int, NEW y \in Int
  PROVE  Abs(x + y) \in Nat /\ Abs(x + y) <= Abs(x) + Abs(y)
BY DEF Abs

\* Products of signs and sizes, over plain integers.
LEMMA AbsProduct ==
  ASSUME NEW a \in Nat, NEW x \in Int
  PROVE  Abs(a * x) = a * Abs(x) /\ Abs(x * a) = Abs(x) * a
<1>1. CASE x >= 0
  <2>1. a * x >= 0 /\ x * a >= 0
    BY <1>1
  <2> QED BY <1>1, <2>1 DEF Abs
<1>2. CASE x < 0
  <2>1. a * x <= 0 /\ x * a <= 0
    BY <1>2
  <2>2. a * (-x) = -(a * x) /\ (-x) * a = -(x * a)
    OBVIOUS
  <2> QED BY <1>2, <2>1, <2>2 DEF Abs
<1> QED BY <1>1, <1>2

(* A home and a position in range: a is the home in units of 1/One, P the   *)
(* position in counts, in units of 1/(One * One).                           *)
Reachable(home, p) ==
  /\ home \in Int /\ p \in Int
  /\ 16 * (One * Abs(One * home)) <= Limit
  /\ 16 * Abs(p * Scale) <= Limit

LEMMA HomesReachable ==
  ASSUME NEW home \in Homes, NEW p \in Positions \cup {PosMin, PosMax}
  PROVE  Reachable(home, p)
<1>1. home \in Int /\ p \in Int
  BY RangeAssumption
<1>2. 16 * One * One * Abs(home) <= Limit /\ 16 * Abs(p) * Scale <= Limit
  BY RangeAssumption DEF Limit
<1>3. PICK a \in Nat : a = Abs(home)
  BY <1>1 DEF Abs
<1>4. PICK b \in Nat : b = Abs(p)
  BY <1>1 DEF Abs
<1>5. Abs(One * home) = One * a /\ Abs(p * Scale) = b * Scale
  BY <1>1, <1>3, <1>4, Scales, AbsProduct
<1>6. 16 * One * One * a = 16 * (One * (One * a)) /\ 16 * b * Scale = 16 * (b * Scale)
  BY Scales
<1> QED BY <1>1, <1>2, <1>3, <1>4, <1>5, <1>6 DEF Reachable

LEMMA CountInRange == 16 * (One * One) <= Limit
<1>1. 16 * One * One * Abs(1) <= Limit
  BY RangeAssumption DEF Limit
<1>2. 16 * One * One * Abs(1) = 16 * (One * One)
  BY Scales DEF Abs
<1> QED BY <1>1, <1>2

\* home_offset as a float.
LEMMA HomeFloat ==
  ASSUME NEW home \in Int, 16 * (One * Abs(One * home)) <= Limit
  PROVE  LET h == Float(One * home, 1)
         IN  /\ h \in Int
             /\ Significands * Abs(h - One * home) <= Abs(One * home)
             /\ 2 * Abs(h) <= 3 * Abs(One * home)
<1> DEFINE h == Float(One * home, 1)
<1>1. PICK x \in Int : x = One * home
  BY Scales
<1>2. PICK a \in Nat : a = Abs(x)
  BY DEF Abs
<1>3. a <= One * a
  BY Scales
<1>4. Abs(x) < 1 * Limit
  BY <1>1, <1>2, <1>3, Scales
<1>5. h \in Int /\ Close(h, x, 1)
  BY <1>1, <1>4, FloatNear
<1> HIDE DEF h
<1>6. PICK e \in Nat : e = Abs(h - x)
  <2>1. h - x \in Int
    BY <1>5
  <2> QED BY <2>1 DEF Abs
<1>7. 1 * h - x = h - x
  BY <1>5
<1>8. 2 * e <= 1 \/ Significands * e <= a
  BY <1>2, <1>5, <1>6, <1>7 DEF Close
<1>9. Significands * e <= a
  <2>1. CASE 2 * e <= 1
    BY <2>1, Scales
  <2> QED BY <1>8, <2>1
<1>10. 2 * e <= Significands * e
  BY Scales
<1>11. 2 * Abs(h) <= 3 * a
  BY <1>2, <1>5, <1>6, <1>9, <1>10, Scales DEF Abs
<1> QED BY <1>1, <1>2, <1>5, <1>6, <1>9, <1>11 DEF h

\* The product, where it is rounded before the sum.
LEMMA ProductFloat ==
  ASSUME NEW x \in Int, 16 * Abs(x) <= Limit
  PROVE  LET v == Float(x, One)
         IN  /\ v \in Int
             /\ 2 * (Significands * Abs(One * v - x)) <= Significands * One + 2 * Abs(x)
             /\ 2 * (One * Abs(v)) <= 3 * Abs(x) + One
             /\ 2 * Abs(v) <= 3 * Abs(x) + 1
<1> DEFINE v == Float(x, One)
<1>1. PICK b \in Nat : b = Abs(x)
  BY DEF Abs
<1>2. Abs(x) < One * Limit
  <2>1. Limit <= One * Limit
    BY Scales
  <2> QED BY <1>1, <2>1, Scales
<1>3. v \in Int /\ Close(v, x, One)
  BY <1>2, Scales, FloatNear
<1> HIDE DEF v
<1>4. PICK w \in Int : w = One * v
  BY <1>3, Scales
<1>5. PICK e \in Nat : e = Abs(w - x)
  BY <1>4 DEF Abs
<1>6. 2 * e <= One \/ Significands * e <= b
  BY <1>1, <1>3, <1>4, <1>5 DEF Close
<1>7. 2 * (Significands * e) <= Significands * One + 2 * b
  <2>1. CASE 2 * e <= One
    <3>1. Significands * (2 * e) <= Significands * One
      BY <2>1, Scales
    <3>2. Significands * (2 * e) = 2 * (Significands * e)
      BY Scales
    <3>3. Significands * One \in Int
      BY Scales
    <3> QED BY <3>1, <3>2, <3>3, Scales
  <2>2. CASE Significands * e <= b
    <3>1. Significands * One \in Nat
      BY Scales
    <3> QED BY <2>2, <3>1, Scales
  <2> QED BY <1>6, <2>1, <2>2
<1>8. 2 * e <= b + One
  <2>1. 2 * e <= Significands * e
    BY Scales
  <2> QED BY <1>6, <2>1, Scales
<1>9. PICK u \in Nat : u = Abs(v)
  BY <1>3 DEF Abs
<1>10. Abs(w) = One * u
  BY <1>3, <1>4, <1>9, Scales, AbsProduct
<1>11. 2 * (One * u) <= 3 * b + One
  <2>1. Abs(w) <= b + e
    BY <1>1, <1>5 DEF Abs
  <2>2. PICK y \in Nat : y = One * u
    BY Scales
  <2> QED BY <1>8, <1>10, <2>1, <2>2, Scales
<1>12. 2 * u <= 3 * b + 1
  <2>1. CASE u = 0
    BY <2>1
  <2>2. CASE u > 0
    <3>1. One * (2 * u - 1) >= 2 * u - 1
      BY <2>2, Scales
    <3>2. One * (2 * u - 1) = 2 * (One * u) - One
      BY Scales
    <3>3. PICK y \in Nat : y = One * u
      BY Scales
    <3> QED BY <1>11, <3>1, <3>2, <3>3, Scales
  <2> QED BY <2>1, <2>2
<1> QED BY <1>1, <1>3, <1>4, <1>5, <1>7, <1>9, <1>11, <1>12 DEF v


(* The sum is home and position, to half a unit and what two or three       *)
(* floats round.                                                            *)
LEMMA SumNear ==
  ASSUME NEW home, NEW p, Reachable(home, p), fused \in BOOLEAN
  PROVE  /\ Sum(home, p) \in Int
         /\ 2 * (Significands * Abs(One * Sum(home, p) - (One * (One * home) + p * Scale)))
              <= Significands * One + One
                   + 5 * (One * Abs(One * home)) + 5 * Abs(p * Scale)
<1> DEFINE h == Float(One * home, 1)
<1>1. home \in Int /\ p \in Int
  BY DEF Reachable
<1>2. PICK x \in Int : x = One * home
  BY <1>1, Scales
<1>3. PICK P \in Int : P = p * Scale
  BY <1>1, Scales
<1>4. PICK a \in Nat : a = Abs(x)
  BY DEF Abs
<1>5. PICK b \in Nat : b = Abs(P)
  BY DEF Abs
<1>6. PICK k \in Nat : k = One * a /\ 16 * k <= Limit /\ 16 * b <= Limit /\ a <= k
  BY <1>2, <1>3, <1>4, <1>5, Scales DEF Reachable
<1>7. h \in Int /\ Significands * Abs(h - x) <= a /\ 2 * Abs(h) <= 3 * a
  BY <1>1, <1>2, <1>4, HomeFloat DEF Reachable
<1> HIDE DEF h
<1>8. PICK e \in Nat : e = Abs(h - x) /\ Significands * e <= a
  BY <1>7 DEF Abs
<1>9. PICK u \in Nat : u = Abs(h) /\ 2 * u <= 3 * a
  BY <1>7 DEF Abs
<1>10. PICK z \in Int : z = One * h
  BY <1>7, Scales
<1>11. Abs(z) = One * u /\ 2 * Abs(z) <= 3 * k
  <2>1. Abs(z) = One * u
    BY <1>7, <1>9, <1>10, Scales, AbsProduct
  <2>2. One * (2 * u) <= One * (3 * a)
    BY <1>9, Scales
  <2>3. One * (2 * u) = 2 * (One * u) /\ One * (3 * a) = 3 * k
    BY <1>6, Scales
  <2> QED BY <2>1, <2>2, <2>3
<1>12. PICK y \in Int : y = One * x
  BY Scales
<1>13. Significands * Abs(z - y) <= k
  <2>1. z - y = One * (h - x)
    BY <1>7, <1>10, <1>12, Scales
  <2>2. Abs(z - y) = One * e
    BY <1>7, <1>8, <2>1, Scales, AbsProduct
  <2>3. Significands * (One * e) = One * (Significands * e)
    BY Scales
  <2>4. One * (Significands * e) <= One * a
    BY <1>8, Scales
  <2> QED BY <1>6, <2>2, <2>3, <2>4
<1>14. PICK f \in Nat : f = Abs(z - y) /\ Significands * f <= k
  BY <1>13 DEF Abs
<1>15. PICK U \in Nat : U = Significands * One
  BY Scales
<1>16. CASE fused
  <2>1. PICK X \in Int : X = z + P
    OBVIOUS
  <2>2. PICK c \in Nat : c = Abs(X) /\ 2 * c <= 3 * k + 2 * b
    BY <1>5, <1>11, <2>1 DEF Abs
  <2>3. c < One * Limit
    <3>1. Limit <= One * Limit
      BY Scales
    <3> QED BY <1>6, <2>2, <3>1, Scales
  <2>4. Sum(home, p) = Float(X, One)
    BY <1>3, <1>10, <1>16, <2>1 DEF Sum, h
  <2>5. PICK s \in Int : s = Float(X, One) /\ Close(s, X, One)
    BY <2>2, <2>3, Scales, FloatNear
  <2>6. PICK w \in Int : w = One * s
    BY Scales
  <2>7. PICK g \in Nat : g = Abs(w - X) /\ (2 * g <= One \/ Significands * g <= c)
    BY <2>2, <2>5, <2>6 DEF Close, Abs
  <2>8. 2 * (Significands * g) <= U + 2 * c
    <3>1. CASE 2 * g <= One
      <4>1. Significands * (2 * g) <= Significands * One
        BY <3>1, Scales
      <4>2. Significands * (2 * g) = 2 * (Significands * g)
        BY Scales
      <4> QED BY <1>15, <4>1, <4>2, Scales
    <3>2. CASE Significands * g <= c
      BY <3>2, Scales
    <3> QED BY <2>7, <3>1, <3>2
  <2>9. PICK t \in Nat : t = Abs(w - (y + P)) /\ t <= g + f
    <3>1. w - (y + P) = (w - X) + (z - y)
      BY <2>1
    <3>2. w - X \in Int /\ z - y \in Int
      OBVIOUS
    <3> QED BY <1>14, <2>7, <3>1, <3>2, AbsSum
  <2>10. Significands * t <= Significands * g + Significands * f
    <3>1. Significands * t <= Significands * (g + f)
      BY <2>9, Scales
    <3> QED BY <3>1, Scales
  <2>11. 2 * (Significands * t) <= U + One + 5 * k + 5 * b
    BY <1>14, <2>2, <2>8, <2>10, Scales
  <2> QED BY <1>2, <1>3, <1>4, <1>5, <1>6, <1>12, <1>15, <2>4, <2>5, <2>6, <2>9, <2>11
<1>17. CASE ~fused
  <2>1. PICK v \in Int :
          /\ v = Float(P, One)
          /\ 2 * (Significands * Abs(One * v - P)) <= U + 2 * b
          /\ 2 * (One * Abs(v)) <= 3 * b + One
          /\ 2 * Abs(v) <= 3 * b + 1
    BY <1>5, <1>6, <1>15, ProductFloat
  <2>2. PICK w \in Int : w = One * v
    BY Scales
  <2>3. PICK g \in Nat : g = Abs(w - P) /\ 2 * (Significands * g) <= U + 2 * b
    BY <2>1, <2>2 DEF Abs
  <2>4. PICK l \in Nat : l = Abs(v) /\ 2 * (One * l) <= 3 * b + One /\ 2 * l <= 3 * b + 1
    BY <2>1 DEF Abs
  <2>5. PICK X \in Int : X = h + v
    BY <1>7
  <2>6. PICK c \in Nat : c = Abs(X) /\ c <= u + l
    BY <1>7, <1>9, <2>4, <2>5 DEF Abs
  <2>7. c < 1 * Limit
    BY <1>6, <1>9, <2>4, <2>6, Scales
  <2>8. Sum(home, p) = Float(X, 1)
    BY <1>3, <1>17, <2>1, <2>5 DEF Sum, h
  <2>9. PICK s \in Int : s = Float(X, 1) /\ Close(s, X, 1)
    BY <2>6, <2>7, FloatNear
  <2>10. PICK d \in Nat : d = Abs(s - X) /\ (2 * d <= 1 \/ Significands * d <= c)
    BY <2>6, <2>9 DEF Close, Abs
  <2>11. Significands * d <= c
    <3>1. CASE 2 * d <= 1
      BY <3>1, Scales
    <3> QED BY <2>10, <3>1
  <2>12. PICK q \in Nat : q = One * d
    BY Scales
  <2>13. 2 * (Significands * q) <= 3 * k + 3 * b + One
    <3>1. Significands * q = One * (Significands * d)
      BY <2>12, Scales
    <3>2. One * (Significands * d) <= One * (u + l)
      BY <2>6, <2>11, Scales
    <3>3. One * (u + l) = One * u + One * l
      BY Scales
    <3>4. One * u \in Int /\ One * l \in Int /\ 2 * (One * u) <= 3 * k
      BY <1>11, Scales
    <3> QED BY <2>4, <3>1, <3>2, <3>3, <3>4, Scales
  <2>14. PICK W \in Int : W = One * s
    BY Scales
  <2>15. Abs(W - (z + w)) = q
    <3>1. W - (z + w) = One * (s - X)
      BY <1>7, <1>10, <2>2, <2>5, <2>14, Scales
    <3> QED BY <2>10, <2>12, <3>1, Scales, AbsProduct
  <2>16. PICK t \in Nat : t = Abs(W - (y + P)) /\ t <= q + f + g
    <3>1. W - (y + P) = ((W - (z + w)) + (z - y)) + (w - P)
      OBVIOUS
    <3>2. W - (z + w) \in Int /\ z - y \in Int /\ w - P \in Int
      OBVIOUS
    <3>3. (W - (z + w)) + (z - y) \in Int
      OBVIOUS
    <3>4. Abs((W - (z + w)) + (z - y)) <= q + f
      BY <1>14, <2>15, <3>2, AbsSum
    <3>5. Abs(((W - (z + w)) + (z - y)) + (w - P)) \in Nat
      BY <3>2, <3>3, AbsSum
    <3>6. Abs(((W - (z + w)) + (z - y)) + (w - P)) <= Abs((W - (z + w)) + (z - y)) + g
      BY <2>3, <3>2, <3>3, AbsSum
    <3>7. Abs((W - (z + w)) + (z - y)) \in Nat
      BY <3>2, AbsSum
    <3> QED BY <3>1, <3>4, <3>5, <3>6, <3>7
  <2>17. Significands * t <= Significands * q + Significands * f + Significands * g
    <3>1. Significands * t <= Significands * (q + f + g)
      BY <2>16, Scales
    <3> QED BY <3>1, Scales
  <2>18. 2 * (Significands * t) <= U + One + 5 * k + 5 * b
    BY <1>14, <2>3, <2>13, <2>17, Scales
  <2> QED BY <1>2, <1>3, <1>4, <1>5, <1>6, <1>12, <1>15, <2>8, <2>9, <2>14, <2>16, <2>18
<1> QED BY <1>16, <1>17


LEMMA TargetNear ==
  ASSUME NEW home, NEW p, Reachable(home, p), fused \in BOOLEAN
  PROVE  LET c == ToCounts(home, p)
             K == One * One * (c - home)
         IN  /\ c \in Int
             /\ CountsNear(home, p, c)
             /\ 16 * Abs(K) <= 6 * Limit
<1> DEFINE c == ToCounts(home, p)
           s == Sum(home, p)
<1>1. home \in Int /\ p \in Int
  BY DEF Reachable
<1>2. s \in Int
  BY SumNear
<1>3. c \in Int /\ Abs(One * c - s) < One
  BY <1>2, Scales, CastNear DEF ToCounts
<1> HIDE DEF s, c
<1>4. PICK P \in Int, b \in Nat : P = p * Scale /\ b = Abs(P) /\ 16 * b <= Limit
  BY <1>1, Scales DEF Reachable, Abs
<1>5. PICK x \in Int, a \in Nat : x = One * home /\ a = Abs(x)
  BY <1>1, Scales DEF Abs
<1>6. PICK k \in Nat : k = One * a /\ 16 * k <= Limit
  BY <1>5, Scales DEF Reachable
<1>7. PICK y \in Int : y = One * x
  BY <1>5, Scales
<1>8. PICK U \in Nat : U = Significands * One
  BY Scales
<1>9. PICK w \in Int : w = One * s
  BY <1>2, Scales
<1>10. PICK g \in Nat :
         g = Abs(w - (y + P)) /\ 2 * (Significands * g) <= U + One + 5 * k + 5 * b
  BY <1>4, <1>5, <1>6, <1>7, <1>8, <1>9, SumNear DEF s, Abs
<1>11. PICK z \in Int : z = One * (One * c)
  BY <1>3, Scales
<1>12. PICK i \in Int : i = One * c
  BY <1>3, Scales
<1>13. PICK f \in Nat : f = Abs(i - s) /\ f <= One - 1
  <2>1. i - s \in Int /\ Abs(i - s) < One
    BY <1>2, <1>3, <1>12
  <2>2. Abs(i - s) \in Nat
    BY <2>1 DEF Abs
  <2> QED BY <2>1, <2>2, Scales
<1>14. PICK V \in Nat : V = One * One /\ 16 * V <= Limit
  BY Scales, CountInRange
<1>15. Abs(z - w) = One * f /\ One * f <= V - One
  <2>1. z - w = One * (i - s)
    BY <1>2, <1>9, <1>11, <1>12, Scales
  <2>2. One * f <= One * (One - 1)
    BY <1>13, Scales
  <2>3. One * (One - 1) = V - One
    BY <1>14, Scales
  <2>4. i - s \in Int
    BY <1>2
  <2> QED BY <1>13, <2>1, <2>2, <2>3, <2>4, Scales, AbsProduct
<1>16. PICK K \in Int : K = One * One * (c - home) /\ K = z - y
  <2>1. One * One * (c - home) = One * (One * c) - One * (One * home)
    BY <1>1, <1>3, Scales
  <2> QED BY <1>5, <1>7, <1>11, <2>1
<1>17. PICK t \in Nat : t = Abs(K - P) /\ t <= V - One + g
  <2>1. K - P = (z - w) + (w - (y + P))
    BY <1>16
  <2>2. z - w \in Int /\ w - (y + P) \in Int
    OBVIOUS
  <2>3. Abs(K - P) \in Nat /\ Abs(K - P) <= Abs(z - w) + Abs(w - (y + P))
    BY <2>1, <2>2, AbsSum
  <2>4. One * f \in Int
    BY Scales
  <2> QED BY <1>10, <1>15, <2>3, <2>4, Scales
<1>18. PICK T \in Nat : T = Significands * V
  BY Scales
<1>19. 2 * (Significands * t) <= 2 * T - 2 * U + U + One + 5 * k + 5 * b
  <2>1. Significands * t <= Significands * (V - One + g)
    BY <1>17, Scales
  <2>2. Significands * (V - One + g) = T - U + Significands * g
    BY <1>8, <1>18, Scales
  <2>3. Significands * t \in Int /\ Significands * g \in Int
    BY Scales
  <2> QED BY <1>10, <2>1, <2>2, <2>3, Scales
<1>20. One <= U /\ U <= T
  BY <1>8, <1>14, <1>18, Scales
<1>21. Significands * (t - 2 * V) <= 3 * (k + b)
  <2>1. Significands * (t - 2 * V) = Significands * t - 2 * T
    BY <1>18, Scales
  <2>2. Significands * t \in Int
    BY Scales
  <2> QED BY <1>19, <1>20, <2>1, <2>2, Scales
<1>22. CountsNear(home, p, c)
  <2>1. One * One * Abs(home) = k
    <3>1. Abs(home) \in Nat
      BY <1>1 DEF Abs
    <3>2. a = One * Abs(home)
      BY <1>1, <1>5, Scales, AbsProduct
    <3> QED BY <1>6, <3>1, <3>2, Scales
  <2>2. Abs(p) * Scale = b
    BY <1>1, <1>4, Scales, AbsProduct
  <2>3. 2 * One * One = 2 * V
    BY <1>14, Scales
  <2> QED BY <1>4, <1>16, <1>17, <1>21, <2>1, <2>2, <2>3 DEF CountsNear
<1>23. 16 * Abs(K) <= 6 * Limit
  <2>1. 2 * (t - 2 * V) <= 3 * (k + b)
    <3>1. CASE t - 2 * V <= 0
      BY <3>1
    <3>2. CASE t - 2 * V > 0
      <4>1. 2 * (t - 2 * V) <= Significands * (t - 2 * V)
        BY <3>2, Scales
      <4> QED BY <1>21, <4>1, Scales
    <3> QED BY <3>1, <3>2
  <2>2. Abs(K) <= t + b
    BY <1>4, <1>17 DEF Abs
  <2>3. Abs(K) \in Nat
    BY DEF Abs
  <2> QED BY <1>4, <1>6, <1>14, <2>1, <2>2, <2>3, Scales
<1> QED BY <1>3, <1>16, <1>22, <1>23 DEF c

LEMMA ShownWhereItIs ==
  ASSUME NEW home \in Int, NEW c \in Int,
         16 * Abs(One * One * (c - home)) <= 6 * Limit
  PROVE  ShownNear(home, ToPhysical(home, c), c)
<1>1. PICK N \in Int : N = One * (c - home)
  BY Scales
<1>2. PICK K \in Int : K = One * One * (c - home) /\ K = One * N /\ 16 * Abs(K) <= 6 * Limit
  BY <1>1, Scales
<1>3. PICK n \in Nat : n = Abs(N)
  BY DEF Abs
<1>4. PICK m \in Nat : m = Abs(K) /\ m = One * n /\ n <= m
  <2>1. Abs(One * N) = One * n
    BY <1>3, Scales, AbsProduct
  <2>2. One * n \in Nat /\ n <= One * n
    BY Scales
  <2> QED BY <1>2, <2>1, <2>2
<1>5. n < 1 * Limit
  BY <1>2, <1>4, Scales
<1>6. PICK D \in Int : D = Float(N, 1) /\ Close(D, N, 1)
  BY <1>3, <1>5, FloatNear
<1>7. PICK e \in Nat : e = Abs(D - N) /\ (2 * e <= 1 \/ Significands * e <= n)
  BY <1>3, <1>6 DEF Close, Abs
<1>8. Significands * e <= n
  <2>1. CASE 2 * e <= 1
    BY <2>1, Scales
  <2> QED BY <1>7, <2>1
<1>9. PICK f \in Nat : f = One * e /\ Significands * f <= m
  <2>1. Significands * (One * e) = One * (Significands * e)
    BY Scales
  <2>2. One * (Significands * e) <= One * n
    BY <1>8, Scales
  <2> QED BY <1>4, <2>1, <2>2, Scales
<1>10. 2 * f <= m
  <2>1. 2 * f <= Significands * f
    BY Scales
  <2> QED BY <1>9, <2>1, Scales
<1>11. PICK Y \in Int : Y = One * D /\ Abs(Y - K) = f
  <2>1. One * D - One * N = One * (D - N)
    BY Scales
  <2>2. Abs(One * (D - N)) = One * e
    BY <1>7, Scales, AbsProduct
  <2>3. One * D \in Int
    BY Scales
  <2> QED BY <1>2, <1>9, <2>1, <2>2, <2>3
<1>12. PICK y \in Nat : y = Abs(Y) /\ 2 * y <= 3 * m
  BY <1>4, <1>10, <1>11 DEF Abs
<1>13. y < Scale * Limit
  <2>1. Limit <= Scale * Limit
    BY Scales
  <2> QED BY <1>2, <1>4, <1>12, <2>1, Scales
<1>14. PICK v \in Int : v = Float(Y, Scale) /\ Close(v, Y, Scale)
  BY <1>12, <1>13, Scales, FloatNear
<1>15. PICK w \in Int : w = Scale * v /\ w = v * Scale
  BY Scales
<1>16. PICK g \in Nat : g = Abs(w - Y) /\ (2 * g <= Scale \/ Significands * g <= y)
  BY <1>12, <1>14, <1>15 DEF Close, Abs
<1>17. PICK t \in Nat : t = Abs(w - K) /\ t <= g + f
  <2>1. w - K = (w - Y) + (Y - K)
    OBVIOUS
  <2>2. w - Y \in Int /\ Y - K \in Int
    OBVIOUS
  <2> QED BY <1>11, <1>16, <2>1, <2>2, AbsSum
<1>18. Significands * (t - Scale) <= 3 * m
  <2>1. CASE 2 * g <= Scale
    <3>1. Significands * (t - Scale) <= Significands * f
      BY <1>17, <2>1, Scales
    <3> QED BY <1>9, <3>1, Scales
  <2>2. CASE Significands * g <= y
    <3>1. Significands * (t - Scale) <= Significands * (g + f)
      BY <1>17, Scales
    <3>2. Significands * (g + f) = Significands * g + Significands * f
      BY Scales
    <3>3. Significands * g \in Int /\ Significands * f \in Int /\ Significands * (t - Scale) \in Int
      BY Scales
    <3> QED BY <1>9, <1>12, <2>2, <3>1, <3>2, <3>3
  <2> QED BY <1>16, <2>1, <2>2
<1>19. 3 * One * One * Abs(c - home) = 3 * m
  <2>1. PICK i \in Nat : i = Abs(c - home)
    BY DEF Abs
  <2>2. n = One * i
    BY <1>1, <1>3, <2>1, Scales, AbsProduct
  <2> QED BY <1>4, <2>1, <2>2, Scales
<1>20. ToPhysical(home, c) = v
  BY <1>1, <1>6, <1>11, <1>14 DEF ToPhysical
<1> QED BY <1>2, <1>15, <1>17, <1>18, <1>19, <1>20 DEF ShownNear


(* Every rounding keeps order, and so do the sum and its cast.              *)
LEMMA SumMonotone ==
  ASSUME NEW home, NEW p, NEW q, Reachable(home, p), Reachable(home, q), p <= q,
         fused \in BOOLEAN
  PROVE  Sum(home, p) <= Sum(home, q)
<1> DEFINE h == Float(One * home, 1)
<1>1. home \in Int /\ p \in Int /\ q \in Int
  BY DEF Reachable
<1>2. h \in Int /\ 2 * Abs(h) <= 3 * Abs(One * home)
  BY <1>1, HomeFloat DEF Reachable
<1>3. PICK a \in Nat : a = Abs(One * home)
  <2>1. One * home \in Int
    BY <1>1, Scales
  <2> QED BY <2>1 DEF Abs
<1> HIDE DEF h
<1>4. PICK k \in Nat : k = One * a /\ 16 * k <= Limit /\ a <= k
  BY <1>3, Scales DEF Reachable
<1>5. PICK P \in Int : P = p * Scale /\ 16 * Abs(P) <= Limit
  BY <1>1, Scales DEF Reachable
<1>6. PICK Q \in Int : Q = q * Scale /\ 16 * Abs(Q) <= Limit
  BY <1>1, Scales DEF Reachable
<1>7. P <= Q
  <2>1. p * Scale <= q * Scale
    BY <1>1, Scales
  <2> QED BY <1>5, <1>6, <2>1
<1>8. Limit <= One * Limit
  BY Scales
<1>9. CASE fused
  <2>1. PICK z \in Int : z = One * h /\ 2 * Abs(z) <= 3 * k
    <3>1. PICK u \in Nat : u = Abs(h) /\ 2 * u <= 3 * a
      BY <1>2, <1>3 DEF Abs
    <3>2. One * (2 * u) <= One * (3 * a)
      BY <3>1, Scales
    <3>3. One * (2 * u) = 2 * (One * u) /\ One * (3 * a) = 3 * k
      BY <1>4, Scales
    <3>4. Abs(One * h) = One * u
      BY <1>2, <3>1, Scales, AbsProduct
    <3>5. One * h \in Int
      BY <1>2, Scales
    <3> QED BY <3>2, <3>3, <3>4, <3>5
  <2>2. Abs(z + P) < One * Limit
    <3>1. Abs(z + P) < Limit
      BY <1>4, <1>5, <2>1, Scales DEF Abs
    <3> QED BY <1>8, <3>1, Scales DEF Abs
  <2>3. Abs(z + Q) < One * Limit
    <3>1. Abs(z + Q) < Limit
      BY <1>4, <1>6, <2>1, Scales DEF Abs
    <3> QED BY <1>8, <3>1, Scales DEF Abs
  <2>4. Float(z + P, One) <= Float(z + Q, One)
    BY <1>7, <2>2, <2>3, Scales, FloatMonotone
  <2> QED BY <1>5, <1>6, <1>9, <2>1, <2>4 DEF Sum, h
<1>10. CASE ~fused
  <2>1. PICK v \in Int : v = Float(P, One) /\ 2 * Abs(v) <= 3 * Abs(P) + 1
    BY <1>5, ProductFloat
  <2>2. PICK w \in Int : w = Float(Q, One) /\ 2 * Abs(w) <= 3 * Abs(Q) + 1
    BY <1>6, ProductFloat
  <2>3. v <= w
    <3>1. Abs(P) < One * Limit /\ Abs(Q) < One * Limit
      BY <1>5, <1>6, <1>8, Scales DEF Abs
    <3> QED BY <1>7, <2>1, <2>2, <3>1, Scales, FloatMonotone
  <2>4. Abs(h + v) < 1 * Limit
    BY <1>2, <1>3, <1>4, <1>5, <2>1, Scales DEF Abs
  <2>5. Abs(h + w) < 1 * Limit
    BY <1>2, <1>3, <1>4, <1>6, <2>2, Scales DEF Abs
  <2>6. Float(h + v, 1) <= Float(h + w, 1)
    BY <1>2, <2>3, <2>4, <2>5, FloatMonotone
  <2> QED BY <1>5, <1>6, <1>10, <2>1, <2>2, <2>6 DEF Sum, h
<1> QED BY <1>9, <1>10

LEMMA TargetsOrdered ==
  ASSUME NEW home, NEW p, NEW q, Reachable(home, p), Reachable(home, q), p <= q,
         fused \in BOOLEAN
  PROVE  ToCounts(home, p) <= ToCounts(home, q)
BY SumMonotone, SumNear, Scales, CastMonotone DEF ToCounts

(* The limits in counts are those of the home, converted.                   *)
ScaleInv ==
  /\ fused \in BOOLEAN
  /\ scale.home_offset \in Homes
  /\ scale = WithHome(scale.home_offset)
  /\ TargetsKeepLimits

LEMMA AdmittedIsTarget ==
  ASSUME ScaleInv, NEW physical \in Positions, InRange(physical)
  PROVE  ToCounts(scale.home_offset, physical) \in scale.pos_min_counts..scale.pos_max_counts
<1> DEFINE home == scale.home_offset
<1>1. /\ Reachable(home, physical) /\ Reachable(home, PosMin) /\ Reachable(home, PosMax)
  BY HomesReachable DEF ScaleInv
<1>2. PosMin <= physical /\ physical <= PosMax
  BY DEF InRange
<1>3. /\ scale.pos_min_counts = ToCounts(home, PosMin)
      /\ scale.pos_max_counts = ToCounts(home, PosMax)
  <2>1. scale = WithHome(home) /\ home \in Homes
    BY DEF ScaleInv
  <2> HIDE DEF home
  <2> QED BY <2>1 DEF WithHome
<1> HIDE DEF home
<1>4. /\ ToCounts(home, PosMin) \in Int /\ ToCounts(home, PosMax) \in Int
      /\ ToCounts(home, physical) \in Int
  BY <1>1, TargetNear DEF ScaleInv
<1>5. /\ ToCounts(home, PosMin) <= ToCounts(home, physical)
      /\ ToCounts(home, physical) <= ToCounts(home, PosMax)
  BY <1>1, <1>2, TargetsOrdered DEF ScaleInv
<1> QED BY <1>3, <1>4, <1>5 DEF home

(* position_loop_move_to_physical never refuses as a count a position the   *)
(* soft limits admit, and its target and the position shown there are where *)
(* it was asked for, for every scale, home and width of float.              *)
THEOREM AdmittedIsReached == ScaleSpec => []TargetsKeepLimits
<1>1. ScaleInit => ScaleInv
  <2> SUFFICES ASSUME ScaleInit PROVE ScaleInv
    OBVIOUS
  <2>1. scale = WithHome(0) /\ scale.home_offset = 0
    BY DEF ScaleInit, WithHome
  <2> QED BY <2>1, RangeAssumption DEF ScaleInit, ScaleInv, TargetsKeepLimits
<1>2. ScaleInv /\ [ScaleNext]_scaleVars => ScaleInv'
  <2> SUFFICES ASSUME ScaleInv, [ScaleNext]_scaleVars
               PROVE  ScaleInv'
    OBVIOUS
  <2>1. ASSUME NEW home \in Homes, SetHome(home)
        PROVE  ScaleInv'
    <3>1. scale' = WithHome(home) /\ fused' = fused /\ answer' = "none"
      BY <2>1 DEF SetHome
    <3>2. scale'.home_offset = home
      BY <3>1 DEF WithHome
    <3>3. scale' = WithHome(scale.home_offset)'
      BY <3>1, <3>2 DEF WithHome, ToCounts, Sum
    <3> QED BY <3>1, <3>2, <3>3 DEF ScaleInv, TargetsKeepLimits
  <2>2. ASSUME UNCHANGED <<fused, scale>>
        PROVE  /\ fused' \in BOOLEAN /\ scale'.home_offset \in Homes
               /\ scale' = WithHome(scale.home_offset)'
    BY <2>2 DEF ScaleInv, WithHome, ToCounts, Sum
  <2>3. ASSUME NEW physical \in Positions, Refuse(physical)
        PROVE  ScaleInv'
    <3>1. ~InRange(physical)
      BY <2>3, AdmittedIsTarget DEF Refuse, Admitted
    <3>2. UNCHANGED <<fused, scale>> /\ asked' = physical /\ answer' = "limit"
      BY <2>3 DEF Refuse
    <3>3. TargetsKeepLimits'
      BY <3>1, <3>2 DEF TargetsKeepLimits, InRange
    <3> QED BY <2>2, <3>2, <3>3 DEF ScaleInv
  <2>4. ASSUME NEW physical \in Positions, MoveToPhysical(physical)
        PROVE  ScaleInv'
    <3> DEFINE home == scale.home_offset
               c == ToCounts(home, physical)
    <3>1. /\ UNCHANGED <<fused, scale>> /\ asked' = physical /\ answer' = "ok"
          /\ counts' = c
      BY <2>4 DEF MoveToPhysical
    <3>2. home \in Homes /\ Reachable(home, physical) /\ fused \in BOOLEAN
      BY HomesReachable DEF ScaleInv
    <3>3. c \in Int /\ CountsNear(home, physical, c) /\ 16 * Abs(One * One * (c - home)) <= 6 * Limit
      BY <3>2, TargetNear
    <3>4. ShownNear(home, ToPhysical(home, c), c)
      <4> HIDE DEF c, home
      <4>1. home \in Int
        BY <3>2 DEF Reachable
      <4> QED BY <3>3, <4>1, ShownWhereItIs
    <3>5. TargetsKeepLimits'
      BY <3>1, <3>3, <3>4 DEF TargetsKeepLimits
    <3> QED BY <2>2, <3>1, <3>5 DEF ScaleInv
  <2>5. ASSUME MoveReturns
        PROVE  ScaleInv'
    BY <2>2, <2>5 DEF MoveReturns, ScaleInv, TargetsKeepLimits
  <2>6. ASSUME UNCHANGED scaleVars
        PROVE  ScaleInv'
    BY <2>2, <2>6 DEF scaleVars, ScaleInv, TargetsKeepLimits
  <2> QED BY <2>1, <2>3, <2>4, <2>5, <2>6 DEF ScaleNext
<1>3. ScaleInv => TargetsKeepLimits
  BY DEF ScaleInv
<1> QED BY <1>1, <1>2, <1>3, PTL DEF ScaleSpec
================================================================================
