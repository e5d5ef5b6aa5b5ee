-------------------------- MODULE PcmPointerProofs --------------------------
(***************************************************************************)
(* Theorems about djmt1_transfer for every buffer, period and packet size  *)
(* the driver's djmt1_hw allows.                                           *)
(***************************************************************************)
EXTENDS PcmPointer, TLAPS

-----------------------------------------------------------------------------
(* Remainders *)

(* Division with remainder. *)
LEMMA DivMod ==
  ASSUME NEW m \in Int, NEW b \in Nat \ {0}
  PROVE  m \div b \in Int /\ m % b \in 0..(b - 1) /\ m = b * (m \div b) + (m % b)
BY SMT

(* Only one multiple of b lies strictly between -b and b. *)
LEMMA MulLess ==
  ASSUME NEW b \in Nat \ {0}, NEW k \in Int, b * k < b, -b < b * k
  PROVE  k = 0
<1>1. ~ k >= 1
  <2> SUFFICES ASSUME k >= 1 PROVE FALSE
    OBVIOUS
  <2>1. b * k >= b
    BY Z3
  <2> QED BY <2>1
<1>2. ~ k <= -1
  <2> SUFFICES ASSUME k <= -1 PROVE FALSE
    OBVIOUS
  <2>1. b * k <= -b
    BY Z3
  <2> QED BY <2>1
<1> QED BY <1>1, <1>2

(* The remainder is the only one. *)
LEMMA ModUnique ==
  ASSUME NEW b \in Nat \ {0}, NEW q \in Int, NEW c \in 0..(b - 1)
  PROVE  (b * q + c) % b = c
<1> DEFINE m == b * q + c
<1>1. m \in Int
  OBVIOUS
<1>2. m \div b \in Int /\ m % b \in 0..(b - 1) /\ m = b * (m \div b) + (m % b)
  <2> HIDE DEF m
  <2> QED BY <1>1, DivMod
<1>3. b * ((m \div b) - q) = c - (m % b)
  BY <1>2
<1>4. (m \div b) - q = 0
  BY <1>2, <1>3, MulLess
<1> QED BY <1>2, <1>4

(* A pointer advances as the count of frames does. *)
LEMMA ModAdd ==
  ASSUME NEW m \in Nat, NEW n \in Nat, NEW b \in Nat \ {0}, n <= b
  PROVE  ((m % b) + n) % b = (m + n) % b
<1> DEFINE h == m % b  q == m \div b
<1>1. q \in Int /\ h \in 0..(b - 1) /\ m = b * q + h
  BY DivMod
<1> HIDE DEF h, q
<1>2. CASE h + n < b
  <2>1. (b * 0 + (h + n)) % b = h + n /\ (b * q + (h + n)) % b = h + n
    BY <1>1, <1>2, ModUnique
  <2>2. b * 0 + (h + n) = h + n /\ b * q + (h + n) = m + n
    BY <1>1
  <2> QED BY <2>1, <2>2 DEF h
<1>3. CASE h + n >= b
  <2>1. h + n - b \in 0..(b - 1)
    BY <1>1, <1>3
  <2>2. (b * 1 + (h + n - b)) % b = h + n - b
    BY <2>1, ModUnique
  <2>3. (b * (q + 1) + (h + n - b)) % b = h + n - b
    <3>1. q + 1 \in Int
      BY <1>1
    <3> QED BY <3>1, <2>1, ModUnique
  <2>4. b * 1 + (h + n - b) = h + n /\ b * (q + 1) + (h + n - b) = m + n
    BY <1>1
  <2> QED BY <2>2, <2>3, <2>4 DEF h
<1> QED BY <1>1, <1>2, <1>3

(* Fewer than b frames apart, two frames have different places. *)
LEMMA ModDistinct ==
  ASSUME NEW f \in Nat, NEW g \in Nat, NEW b \in Nat \ {0}, f < g, g < f + b
  PROVE  f % b # g % b
<1> SUFFICES ASSUME f % b = g % b PROVE FALSE
  OBVIOUS
<1> DEFINE qf == f \div b  qg == g \div b
<1>1. qf \in Int /\ qg \in Int /\ f % b \in Int /\ f = b * qf + (f % b) /\ g = b * qg + (g % b)
  BY DivMod
<1> HIDE DEF qf, qg
<1>2. b * (qg - qf) = g - f
  BY <1>1
<1>3. qg - qf = 0
  BY <1>1, <1>2, MulLess
<1> QED BY <1>2, <1>3

-----------------------------------------------------------------------------
(* The invariant is inductive as it stands. *)
PointerInv == PointerTypeOK /\ OneWakeupPerPeriod /\ RingHoldsTheLastFrames

(* The sizes an application may ask for leave room for two packets. *)
LEMMA SizesFit ==
  ASSUME NEW b, NEW p, Sizes(b, p)
  PROVE  /\ b \in Nat \ {0} /\ p \in Nat \ {0} /\ p <= b /\ PacketFrames <= p
BY PointerAssumption DEF Sizes

(* A stream as djmt1_prepare leaves it. *)
LEMMA PointerStarts == PointerInit => PointerInv
<1> SUFFICES ASSUME PointerInit PROVE PointerInv
  OBVIOUS
<1>1. buffer_size \in Nat \ {0} /\ period_size \in Nat \ {0}
  BY SizesFit DEF PointerInit
<1>2. 0 % buffer_size = 0
  <2>1. (buffer_size * 0 + 0) % buffer_size = 0
    BY <1>1, ModUnique
  <2> QED BY <1>1, <2>1
<1> QED BY <1>1, <1>2
        DEF PointerInit, PointerInv, PointerTypeOK, OneWakeupPerPeriod, RingHoldsTheLastFrames, Offsets,
            None

(* One packet preserves the invariant. *)
LEMMA PointerTransfer ==
  ASSUME PointerInv, NEW n \in 1..PacketFrames, Transfer(n)
  PROVE  PointerInv'
<1> DEFINE b == buffer_size  p == period_size
<1>s. b \in Nat \ {0} /\ p \in Nat \ {0} /\ p <= b /\ n \in Nat /\ n <= p /\ n <= b
  BY SizesFit, PointerAssumption DEF PointerInv, PointerTypeOK
<1>t. /\ moved \in Nat /\ hwptr \in 0..(b - 1) /\ hwptr = moved % b
      /\ period_pos \in 0..(p - 1) /\ elapsed \in Nat /\ ring \in [Offsets -> Int]
      /\ UNCHANGED <<buffer_size, period_size>> /\ moved' = moved + n
  BY DEF PointerInv, PointerTypeOK, RingHoldsTheLastFrames, Offsets, Transfer
<1>1. \A i \in 0..n : (hwptr + i) % b = (moved + i) % b
  BY <1>s, <1>t, ModAdd
<1>2. hwptr' = moved' % b /\ hwptr' \in Offsets'
  <2>1. hwptr' = (hwptr + n) % b
    BY DEF Transfer
  <2>2. hwptr' \in 0..(b - 1)
    BY <2>1, <1>s, <1>t, DivMod
  <2> QED BY <2>1, <2>2, <1>1, <1>s, <1>t DEF Offsets
<1>3. period_pos' \in 0..(p - 1) /\ moved' = elapsed' * p + period_pos' /\ elapsed' \in Nat
  <2> DEFINE pos == period_pos + n
  <2>1. moved = elapsed * p + period_pos
    BY DEF PointerInv, OneWakeupPerPeriod
  <2>2. CASE pos < p
    <3>1. period_pos' = pos /\ elapsed' = elapsed
      BY <2>2, <1>s, <1>t DEF Transfer, PeriodAfter
    <3> QED BY <3>1, <2>1, <2>2, <1>s, <1>t
  <2>3. CASE pos >= p
    <3>1. pos - p \in 0..(p - 1)
      BY <2>3, <1>s, <1>t
    <3>2. (p * 1 + (pos - p)) % p = pos - p
      BY <3>1, <1>s, ModUnique
    <3>3. p * 1 + (pos - p) = pos
      BY <1>s, <1>t
    <3>4. period_pos' = pos - p /\ elapsed' = elapsed + 1
      BY <2>3, <3>2, <3>3, <1>s, <1>t DEF Transfer, PeriodAfter
    <3>5. (elapsed + 1) * p = elapsed * p + p
      BY <1>s, <1>t
    <3> QED BY <3>1, <3>4, <3>5, <2>1, <1>s, <1>t
  <2> QED BY <2>2, <2>3, <1>s, <1>t
<1>4. \A i, j \in 0..(n - 1) : SlotOf(i) = SlotOf(j) => i = j
  <2> SUFFICES ASSUME NEW i \in 0..(n - 1), NEW j \in 0..(n - 1), i < j
               PROVE  SlotOf(i) # SlotOf(j)
    BY <1>s
  <2>1. (moved + i) % b # (moved + j) % b
    <3> DEFINE f == moved + i  g == moved + j
    <3>1. f \in Nat /\ g \in Nat /\ f < g /\ g < f + b
      BY <1>s, <1>t
    <3> HIDE DEF f, g
    <3>2. f % b # g % b
      BY <3>1, <1>s, ModDistinct
    <3> QED BY <3>2 DEF f, g
  <2> QED BY <2>1, <1>1, <1>s DEF SlotOf
<1>5. ring' \in [Offsets' -> Int]
  <2>1. \A o \in Offsets : (\E i \in 0..(n - 1) : o = SlotOf(i)) =>
           (CHOOSE i \in 0..(n - 1) : o = SlotOf(i)) \in 0..(n - 1)
    OBVIOUS
  <2>2. ring' \in [Offsets -> Int]
    BY <2>1, <1>s, <1>t DEF Transfer
  <2> QED BY <2>2, <1>t DEF Offsets
<1>6. ASSUME NEW f \in 0..(moved' - 1), f >= moved' - b
      PROVE  ring'[f % b] = f
  <2>0. f \in Nat /\ f % b \in Offsets
    BY <1>s, <1>t, DivMod DEF Offsets
  <2>1. CASE f >= moved
    <3> DEFINE i == f - moved
    <3>1. i \in 0..(n - 1) /\ moved + i = f
      BY <2>1, <1>s, <1>t
    <3>2. f % b = SlotOf(i)
      BY <3>1, <1>1, <1>s DEF SlotOf
    <3> HIDE DEF i
    <3>3. (CHOOSE j \in 0..(n - 1) : f % b = SlotOf(j)) = i
      BY <3>1, <3>2, <1>4
    <3>4. ring'[f % b] = moved + (CHOOSE j \in 0..(n - 1) : f % b = SlotOf(j))
      BY <2>0, <3>1, <3>2 DEF Transfer
    <3> QED BY <3>1, <3>3, <3>4
  <2>2. CASE f < moved
    <3>1. ring[f % b] = f
      BY <2>2, <2>0, <1>s, <1>t, <1>6 DEF PointerInv, RingHoldsTheLastFrames
    <3>2. ASSUME NEW i \in 0..(n - 1)
          PROVE  f % b # SlotOf(i)
      <4>1. moved + i \in Nat /\ f < moved + i /\ moved + i < f + b
        BY <2>2, <2>0, <1>s, <1>t, <1>6
      <4>2. f % b # (moved + i) % b
        BY <4>1, <2>0, <1>s, ModDistinct
      <4> QED BY <4>2, <1>1, <1>s DEF SlotOf
    <3> QED BY <3>1, <3>2, <2>0 DEF Transfer
  <2> QED BY <2>0, <2>1, <2>2, <1>t
<1>7. PointerTypeOK'
  <2>1. Sizes(buffer_size, period_size)'
    BY <1>t DEF PointerInv, PointerTypeOK, Sizes
  <2>2. moved' \in Nat
    BY <1>s, <1>t
  <2>3. period_pos' \in 0..(period_size' - 1)
    BY <1>3, <1>t
  <2> QED BY <1>2, <1>3, <1>5, <2>1, <2>2, <2>3 DEF PointerTypeOK
<1>8. OneWakeupPerPeriod'
  BY <1>3, <1>t DEF OneWakeupPerPeriod
<1>9. RingHoldsTheLastFrames'
  BY <1>2, <1>6, <1>t DEF RingHoldsTheLastFrames
<1> QED BY <1>7, <1>8, <1>9 DEF PointerInv

(* Every step preserves the invariant. *)
LEMMA PointerStep == PointerInv /\ [PointerNext]_pointerVars => PointerInv'
<1> SUFFICES ASSUME PointerInv, [PointerNext]_pointerVars PROVE PointerInv'
  OBVIOUS
<1>1. ASSUME NEW b \in 0..MaxBuffer, NEW p \in 0..MaxBuffer, Prepare(b, p)
      PROVE  PointerInv'
  <2>1. b \in Nat \ {0} /\ p \in Nat \ {0}
    BY <1>1, SizesFit DEF Prepare
  <2>2. 0 % b = 0
    <3>1. (b * 0 + 0) % b = 0
      BY <2>1, ModUnique
    <3> QED BY <2>1, <3>1
  <2> QED BY <1>1, <2>1, <2>2
          DEF Prepare, Sizes, PointerInv, PointerTypeOK, OneWakeupPerPeriod,
              RingHoldsTheLastFrames, Offsets, None
<1>2. ASSUME NEW n \in 1..PacketFrames, Transfer(n)
      PROVE  PointerInv'
  BY <1>2, PointerTransfer
<1>3. CASE UNCHANGED pointerVars
  BY <1>3 DEF pointerVars, PointerInv, PointerTypeOK, Sizes, OneWakeupPerPeriod,
              RingHoldsTheLastFrames, Offsets
<1> QED BY <1>1, <1>2, <1>3 DEF PointerNext

(* For every buffer, period and packet size djmt1_hw allows, the pointer    *)
(* stays in the buffer.                                                     *)
THEOREM PointerStaysInBuffer == PointerSpec => []PointerTypeOK
<1>1. PointerInv => PointerTypeOK
  BY DEF PointerInv
<1> QED BY <1>1, PointerStarts, PointerStep, PTL DEF PointerSpec

(* ... the application is woken once per period of frames ...               *)
THEOREM PeriodsAreNeverMissed == PointerSpec => []OneWakeupPerPeriod
<1>1. PointerInv => OneWakeupPerPeriod
  BY DEF PointerInv
<1> QED BY <1>1, PointerStarts, PointerStep, PTL DEF PointerSpec

(* ... and the ring holds the last buffer's worth of frames, each at its    *)
(* own place.                                                               *)
THEOREM TransferKeepsTheLastFrames == PointerSpec => []RingHoldsTheLastFrames
<1>1. PointerInv => RingHoldsTheLastFrames
  BY DEF PointerInv
<1> QED BY <1>1, PointerStarts, PointerStep, PTL DEF PointerSpec
=============================================================================
