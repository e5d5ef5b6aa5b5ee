--------------------------- MODULE SpscRingProofs ---------------------------
(***************************************************************************)
(* Theorems about the ring of audio/djmt1_iso.c for a ring of any size,     *)
(* any set of frame values and calls of any length.                         *)
(***************************************************************************)
EXTENDS SpscRing, SequenceTheorems, TLAPS

-----------------------------------------------------------------------------
(* Index arithmetic: the remainders of ring_avail and of the copy loops as  *)
(* case distinctions, and what they say about the slots in use.             *)

(* ring_avail (djmt1_iso.c:33) without its remainder. *)
LEMMA AvailIs ==
  ASSUME NEW a \in Slots, NEW b \in Slots
  PROVE  Avail(a, b) = IF a >= b THEN a - b ELSE a - b + Cap
BY RingAssumption DEF Avail, Slots, Cap

(* The slot of a copy loop (djmt1_iso.c:39, 47) without its remainder. *)
LEMMA SlotAtIs ==
  ASSUME NEW a \in Slots, NEW i \in 0..Cap
  PROVE  SlotAt(a, i) = IF a + i < Cap THEN a + i ELSE a + i - Cap
BY RingAssumption DEF SlotAt, Slots, Cap

(* A ring holds between none and Frames frames, and its slots are slots. *)
LEMMA IndexTypes ==
  /\ Cap \in Nat /\ 0 \in Slots
  /\ \A a, b \in Slots : Avail(a, b) \in 0..Frames
  /\ \A a, b \in Slots : Space(a, b) \in 0..Frames
  /\ \A a \in Slots, i \in 0..Cap : SlotAt(a, i) \in Slots
<1>1. Cap \in Nat /\ 0 \in Slots
  BY RingAssumption DEF Cap, Slots
<1>2. \A a, b \in Slots : Avail(a, b) \in 0..Frames
  BY RingAssumption, AvailIs DEF Cap, Slots
<1>3. \A a, b \in Slots : Space(a, b) \in 0..Frames
  BY <1>2, RingAssumption DEF Space, Cap
<1>4. \A a \in Slots, i \in 0..Cap : SlotAt(a, i) \in Slots
  BY RingAssumption, SlotAtIs DEF Cap, Slots
<1> QED BY <1>1, <1>2, <1>3, <1>4

(* Publishing k frames makes k more of them available ... *)
LEMMA PublishAvail ==
  ASSUME NEW a \in Slots, NEW b \in Slots, NEW k \in 0..Space(a, b)
  PROVE  Avail(SlotAt(a, k), b) = Avail(a, b) + k
<1> DEFINE s == SlotAt(a, k)
<1>1. Avail(a, b) \in 0..Frames /\ Space(a, b) = Frames - Avail(a, b)
  BY IndexTypes, RingAssumption DEF Space, Cap
<1>2. k \in 0..Cap
  BY <1>1, RingAssumption DEF Cap
<1>3. s \in Slots /\ s = IF a + k < Cap THEN a + k ELSE a + k - Cap
  BY <1>2, IndexTypes, SlotAtIs
<1>4. Avail(s, b) = IF s >= b THEN s - b ELSE s - b + Cap
  BY <1>3, AvailIs
<1>5. Avail(a, b) = IF a >= b THEN a - b ELSE a - b + Cap
  BY AvailIs
<1> HIDE DEF s
<1>6. Avail(s, b) = Avail(a, b) + k
  BY <1>1, <1>2, <1>3, <1>4, <1>5, RingAssumption DEF Slots, Cap
<1> QED BY <1>6 DEF s

(* ... and giving k slots back makes k fewer available. *)
LEMMA ReleaseAvail ==
  ASSUME NEW a \in Slots, NEW b \in Slots, NEW k \in 0..Avail(a, b)
  PROVE  Avail(a, SlotAt(b, k)) = Avail(a, b) - k
<1> DEFINE s == SlotAt(b, k)
<1>1. Avail(a, b) \in 0..Frames
  BY IndexTypes
<1>2. k \in 0..Cap
  BY <1>1, RingAssumption DEF Cap
<1>3. s \in Slots /\ s = IF b + k < Cap THEN b + k ELSE b + k - Cap
  BY <1>2, IndexTypes, SlotAtIs
<1>4. Avail(a, s) = IF a >= s THEN a - s ELSE a - s + Cap
  BY <1>3, AvailIs
<1>5. Avail(a, b) = IF a >= b THEN a - b ELSE a - b + Cap
  BY AvailIs
<1> HIDE DEF s
<1>6. Avail(a, s) = Avail(a, b) - k
  BY <1>1, <1>2, <1>3, <1>4, <1>5, RingAssumption DEF Slots, Cap
<1> QED BY <1>6 DEF s

(* Advancing twice is advancing by the sum. *)
LEMMA SlotAtAdds ==
  ASSUME NEW a \in Slots, NEW i \in Nat, NEW j \in Nat, i + j <= Frames
  PROVE  SlotAt(SlotAt(a, i), j) = SlotAt(a, i + j)
<1> DEFINE s == SlotAt(a, i)
<1>1. i \in 0..Cap /\ j \in 0..Cap /\ i + j \in 0..Cap
  BY RingAssumption DEF Cap
<1>2. s \in Slots /\ s = IF a + i < Cap THEN a + i ELSE a + i - Cap
  BY <1>1, IndexTypes, SlotAtIs
<1>3. SlotAt(s, j) = IF s + j < Cap THEN s + j ELSE s + j - Cap
  BY <1>1, <1>2, SlotAtIs
<1>4. SlotAt(a, i + j) = IF a + (i + j) < Cap THEN a + (i + j) ELSE a + (i + j) - Cap
  BY <1>1, SlotAtIs
<1> HIDE DEF s
<1>5. SlotAt(s, j) = SlotAt(a, i + j)
  BY <1>1, <1>2, <1>3, <1>4, RingAssumption DEF Slots, Cap
<1> QED BY <1>5 DEF s

(* Different frames of one block lie in different slots. *)
LEMMA SlotAtInjective ==
  ASSUME NEW a \in Slots, NEW i \in 0..Frames, NEW j \in 0..Frames,
         SlotAt(a, i) = SlotAt(a, j)
  PROVE  i = j
<1>1. i \in 0..Cap /\ j \in 0..Cap
  BY RingAssumption DEF Cap
<1> QED BY <1>1, SlotAtIs, RingAssumption DEF Slots, Cap

(* The free slots and the slots that hold a frame are different slots. *)
LEMMA FreeIsNotHeld ==
  ASSUME NEW a \in Slots, NEW b \in Slots,
         NEW i \in Nat, i < Space(a, b),
         NEW j \in Nat, j < Avail(a, b)
  PROVE  SlotAt(a, i) # SlotAt(b, j)
<1>1. Avail(a, b) \in 0..Frames /\ Space(a, b) = Frames - Avail(a, b)
  BY IndexTypes, RingAssumption DEF Space, Cap
<1>2. i \in 0..Cap /\ j \in 0..Cap
  BY <1>1, RingAssumption DEF Cap
<1>3. SlotAt(a, i) = IF a + i < Cap THEN a + i ELSE a + i - Cap
  BY <1>2, SlotAtIs
<1>4. SlotAt(b, j) = IF b + j < Cap THEN b + j ELSE b + j - Cap
  BY <1>2, SlotAtIs
<1>5. Avail(a, b) = IF a >= b THEN a - b ELSE a - b + Cap
  BY AvailIs
<1> QED BY <1>1, <1>2, <1>3, <1>4, <1>5, RingAssumption DEF Slots, Cap

(* The first free slot is the one after the frames held. *)
LEMMA FreeFollowsHeld ==
  ASSUME NEW a \in Slots, NEW b \in Slots, NEW i \in Nat, i <= Space(a, b)
  PROVE  SlotAt(b, Avail(a, b) + i) = SlotAt(a, i)
<1> DEFINE h == Avail(a, b)
<1>1. h \in 0..Frames /\ Space(a, b) = Frames - h
  BY IndexTypes, RingAssumption DEF Space, Cap
<1>2. i \in 0..Cap /\ h + i \in 0..Cap
  BY <1>1, RingAssumption DEF Cap
<1>3. SlotAt(a, i) = IF a + i < Cap THEN a + i ELSE a + i - Cap
  BY <1>2, SlotAtIs
<1>4. SlotAt(b, h + i) = IF b + (h + i) < Cap THEN b + (h + i) ELSE b + (h + i) - Cap
  BY <1>2, SlotAtIs
<1>5. h = IF a >= b THEN a - b ELSE a - b + Cap
  BY AvailIs
<1> HIDE DEF h
<1>6. SlotAt(b, h + i) = SlotAt(a, i)
  BY <1>1, <1>2, <1>3, <1>4, <1>5, RingAssumption DEF Slots, Cap
<1> QED BY <1>6 DEF h

-----------------------------------------------------------------------------
(* The inductive invariant *)

(* The arguments of a write are sequences of frames. *)
LEMMA BlocksAreSeqs == Blocks \subseteq Seq(Frame)
<1> SUFFICES ASSUME NEW n \in 0..MaxCall, NEW s \in [1..n -> Frame]
             PROVE  s \in Seq(Frame)
  BY DEF Blocks
<1> QED BY RingAssumption

(* ring_init establishes the invariant. *)
LEMMA RingInvInit == Init => RingInv
BY RingAssumption, IndexTypes DEF Init, RingInv, TypeOK, WriterInv, ReaderInv, Slots

(* Every step of either side, and every new call, preserves the invariant. *)
LEMMA RingInvStep == RingInv /\ [Next]_vars => RingInv'
<1> SUFFICES ASSUME RingInv, [Next]_vars
             PROVE  RingInv'
  OBVIOUS
<1> USE DEF RingInv
<1> DEFINE held == Avail(w, r)
<1>t. /\ buf \in [Slots -> Frame] /\ w \in Slots /\ r \in Slots
      /\ src \in Seq(Frame) /\ wl \in Slots /\ wk \in 0..Len(src) /\ wi \in 0..wk
      /\ rn \in Nat /\ rw \in Slots /\ rl \in Slots /\ rk \in 0..rn /\ ri \in 0..rk
      /\ dst \in Seq(Frame) /\ Len(dst) = ri
      /\ Len(src) \in Nat /\ wk \in Nat /\ wi \in Nat /\ rk \in Nat /\ ri \in Nat
  BY DEF TypeOK
<1>h. held \in 0..Frames /\ Space(w, r) = Frames - held /\ Frames \in Nat
  BY <1>t, IndexTypes, RingAssumption DEF Space, Cap
<1>1. CASE WCall
  <2>1. src' \in Seq(Frame)
    BY <1>1, BlocksAreSeqs DEF WCall
  <2>2. TypeOK'
    <3>1. Len(src') \in Nat
      BY <2>1
    <3>2. 0 \in 0..Len(src') /\ 0 \in 0..0 /\ 0 \in Slots
      BY <3>1, IndexTypes
    <3> QED BY <1>1, <2>1, <3>2, <1>t DEF WCall, ringVars, readerVars, TypeOK
  <2>3. WriterInv' /\ ReaderInv'
    BY <1>1 DEF WCall, ringVars, readerVars, WriterInv, ReaderInv
  <2> QED BY <2>2, <2>3
<1>2. CASE WLoadW
  BY <1>2, <1>t DEF WLoadW, ringVars, readerVars, TypeOK, WriterInv, ReaderInv
<1>3. CASE WLoadR
  <2>1. wk' \in 0..Len(src) /\ wk' <= Space(w, r)
    BY <1>3, <1>t, <1>h DEF WLoadR, Least, WriterInv
  <2>2. TypeOK'
    BY <1>3, <2>1 DEF WLoadR, ringVars, readerVars, TypeOK, WriterInv
  <2>3. WriterInv'
    BY <1>3, <2>1 DEF WLoadR, ringVars, readerVars, WriterInv
  <2>4. ReaderInv'
    BY <1>3 DEF WLoadR, ringVars, readerVars, ReaderInv
  <2> QED BY <2>2, <2>3, <2>4
<1>4. CASE WReload
  BY <1>4, <1>t DEF WReload, ringVars, readerVars, TypeOK, WriterInv, ReaderInv
<1>5. CASE WCopy
  <2> DEFINE slot == SlotAt(w, wi)
  <2>1. /\ wpc = "copy" /\ wl = w /\ wi < wk /\ wk <= Space(w, r)
        /\ wi' = wi + 1 /\ UNCHANGED <<w, r, wpc, src, wl, wk, readerVars>>
        /\ buf' = [buf EXCEPT ![slot] = src[wi + 1]]
    BY <1>5 DEF WCopy, WriterInv
  <2>2. slot \in Slots /\ wi \in 0..Frames /\ wi < Space(w, r)
    <3>1. wi < Frames - held /\ wi \in Nat
      BY <2>1, <1>t, <1>h
    <3>2. wi \in 0..Frames /\ wi \in 0..Cap
      BY <3>1, <1>h DEF Cap
    <3> QED BY <3>1, <3>2, <1>t, <1>h, IndexTypes
  <2>3. src[wi + 1] \in Frame
    BY <2>1, <1>t
  <2>4. TypeOK'
    BY <2>1, <2>2, <2>3, <1>t DEF readerVars, TypeOK
  <2>5. ASSUME NEW j \in 0..(wi' - 1)
        PROVE  buf'[SlotAt(w, j)] = src[j + 1]
    <3>1. j \in 0..Frames /\ SlotAt(w, j) \in Slots
      <4>1. j \in 0..Frames /\ j \in 0..Cap
        BY <2>1, <2>2, <1>t, <1>h DEF Cap
      <4> QED BY <4>1, <1>t, IndexTypes
    <3>2. CASE j = wi
      BY <3>2, <2>1, <2>2, <1>t
    <3>3. CASE j # wi
      <4>1. SlotAt(w, j) # slot
        BY <3>1, <3>3, <2>2, <1>t, SlotAtInjective
      <4>2. buf[SlotAt(w, j)] = src[j + 1]
        BY <3>3, <2>1, <1>t DEF WriterInv
      <4> QED BY <4>1, <4>2, <3>1, <2>1, <1>t
    <3> QED BY <3>2, <3>3
  <2>6. WriterInv'
    BY <2>1, <2>5, <1>t DEF readerVars, WriterInv
  <2>7. ASSUME rpc = "copy", NEW j \in 0..(ri - 1)
        PROVE  dst[j + 1] = buf'[SlotAt(r, j)]
    <3>1. j \in Nat /\ j < Avail(w, r)
      BY <2>7, <1>t, <1>h DEF ReaderInv
    <3>2. SlotAt(r, j) \in Slots
      BY <3>1, <1>t, <1>h, IndexTypes, RingAssumption DEF Cap
    <3>3. SlotAt(r, j) # slot
      BY <3>1, <2>2, <1>t, FreeIsNotHeld
    <3>4. dst[j + 1] = buf[SlotAt(r, j)]
      BY <2>7 DEF ReaderInv
    <3> QED BY <3>2, <3>3, <3>4, <2>1, <1>t
  <2>8. ReaderInv'
    BY <2>1, <2>7 DEF readerVars, ReaderInv
  <2> QED BY <2>4, <2>6, <2>8
<1>6. CASE WPublish
  <2>1. /\ wk <= Space(w, r) /\ w' = SlotAt(w, wk) /\ wpc' = "idle"
        /\ UNCHANGED <<buf, r, src, wl, wk, wi, readerVars>>
    BY <1>6 DEF WPublish, WriterInv
  <2>2. w' \in Slots /\ wk \in 0..Space(w, r)
    BY <2>1, <1>t, <1>h, IndexTypes, RingAssumption DEF Cap
  <2>3. Avail(w', r) = held + wk
    BY <2>1, <2>2, <1>t, PublishAvail
  <2>4. TypeOK'
    BY <2>1, <2>2, <1>t DEF readerVars, TypeOK
  <2>5. WriterInv'
    BY <2>1 DEF WriterInv
  <2>6. Avail(rw, r) \in Int
    BY <1>t, IndexTypes
  <2>7. ReaderInv'
    BY <2>1, <2>3, <2>6, <1>t, <1>h DEF readerVars, ReaderInv
  <2> QED BY <2>4, <2>5, <2>7
<1>7. CASE RCall
  BY <1>7, IndexTypes, RingAssumption
  DEF RCall, ringVars, writerVars, TypeOK, WriterInv, ReaderInv
<1>8. CASE RLoadW
  BY <1>8, <1>t, <1>h DEF RLoadW, ringVars, writerVars, TypeOK, WriterInv, ReaderInv
<1>9. CASE RLoadR
  <2>1. Avail(rw, r) \in 0..Frames /\ Avail(rw, r) <= held
    BY <1>9, <1>t, IndexTypes DEF RLoadR, ReaderInv
  <2>2. rk' \in 0..rn /\ rk' <= held
    BY <1>9, <2>1, <1>t, <1>h DEF RLoadR, Least
  <2>3. TypeOK'
    BY <1>9, <2>2, <1>t DEF RLoadR, ringVars, writerVars, TypeOK, ReaderInv
  <2>4. WriterInv'
    BY <1>9 DEF RLoadR, ringVars, writerVars, WriterInv
  <2>5. ReaderInv'
    BY <1>9, <2>2 DEF RLoadR, ringVars, writerVars, ReaderInv
  <2> QED BY <2>3, <2>4, <2>5
<1>10. CASE RReload
  BY <1>10, <1>t DEF RReload, ringVars, writerVars, TypeOK, WriterInv, ReaderInv
<1>11. CASE RCopy
  <2> DEFINE frame == buf[SlotAt(r, ri)]
  <2>1. /\ rpc = "copy" /\ rl = r /\ ri < rk /\ rk <= held
        /\ dst' = Append(dst, frame) /\ ri' = ri + 1
        /\ UNCHANGED <<ringVars, rpc, rn, rw, rl, rk, writerVars>>
    BY <1>11 DEF RCopy, ReaderInv
  <2>2. frame \in Frame
    BY <2>1, <1>t, <1>h, IndexTypes, RingAssumption DEF Cap
  <2>3. /\ dst' \in Seq(Frame) /\ Len(dst') = ri + 1
        /\ \A j \in 1..ri : dst'[j] = dst[j]
        /\ dst'[ri + 1] = frame
    <3> HIDE DEF frame
    <3> QED BY <2>1, <2>2, <1>t
  <2>4. TypeOK'
    BY <2>1, <2>3, <1>t DEF ringVars, writerVars, TypeOK
  <2>5. WriterInv'
    BY <2>1 DEF ringVars, writerVars, WriterInv
  <2>6. ASSUME NEW j \in 0..(ri' - 1)
        PROVE  dst'[j + 1] = buf[SlotAt(r, j)]
    <3>1. CASE j = ri
      BY <3>1, <2>3
    <3>2. CASE j # ri
      BY <3>2, <2>1, <2>3, <1>t DEF ReaderInv
    <3> QED BY <3>1, <3>2
  <2>7. ReaderInv'
    BY <2>1, <2>6 DEF ringVars, writerVars, ReaderInv
  <2> QED BY <2>4, <2>5, <2>7
<1>12. CASE RPublish
  <2>1. /\ rk <= held /\ r' = SlotAt(r, rk) /\ rpc' = "idle" /\ ri = rk
        /\ UNCHANGED <<buf, w, rn, rw, rl, rk, ri, dst, writerVars>>
    BY <1>12 DEF RPublish, ReaderInv
  <2>2. r' \in Slots /\ rk \in 0..held
    BY <2>1, <1>t, <1>h, IndexTypes, RingAssumption DEF Cap
  <2>3. Avail(w, r') = held - rk
    BY <2>1, <2>2, <1>t, ReleaseAvail
  <2>4. Space(w, r') = Space(w, r) + rk
    BY <2>3, <1>t, <1>h, RingAssumption DEF Space, Cap
  <2>5. TypeOK'
    BY <2>1, <2>2, <1>t DEF writerVars, TypeOK
  <2>6. WriterInv'
    BY <2>1, <2>4, <1>t, <1>h DEF writerVars, WriterInv
  <2>7. ReaderInv'
    BY <2>1 DEF ReaderInv
  <2> QED BY <2>5, <2>6, <2>7
<1>13. CASE UNCHANGED vars
  BY <1>13 DEF vars, ringVars, writerVars, readerVars, TypeOK, WriterInv, ReaderInv
<1> QED
  BY <1>1, <1>2, <1>3, <1>4, <1>5, <1>6, <1>7, <1>8, <1>9, <1>10, <1>11, <1>12, <1>13
  DEF Next, WriteStep, ReadStep

(* The ring's inductive invariant holds in every state, for a ring of any   *)
(* size: in particular its types (both indices stay inside the buffer).     *)
THEOREM RingInvariant == Spec => []RingInv
<1> QED BY RingInvInit, RingInvStep, PTL DEF Spec

(* No slot of the buffer is ever copied into and copied out at once         *)
(* (djmt1_iso.c:39 and :47), for a ring of any size.                        *)
THEOREM RingHasNoDataRace == Spec => []NoDataRace
<1>1. RingInv => NoDataRace
  <2> SUFFICES ASSUME RingInv, wpc = "copy", wi < wk, rpc = "copy", ri < rk
               PROVE  SlotAt(wl, wi) # SlotAt(rl, ri)
    BY DEF NoDataRace
  <2>1. /\ wl = w /\ wk <= Space(w, r) /\ rl = r /\ rk <= Avail(w, r)
        /\ w \in Slots /\ r \in Slots
        /\ wi \in Nat /\ wk \in Nat /\ ri \in Nat /\ rk \in Nat
    BY DEF RingInv, TypeOK, WriterInv, ReaderInv
  <2>2. Avail(w, r) \in Int /\ Space(w, r) \in Int
    BY <2>1, IndexTypes
  <2>3. wi < Space(w, r) /\ ri < Avail(w, r)
    BY <2>1, <2>2
  <2> QED BY <2>1, <2>3, FreeIsNotHeld
<1> QED BY <1>1, RingInvariant, PTL

-----------------------------------------------------------------------------
(* The ring implements FrameQueue *)

(* What the ring holds is a sequence of at most Frames frames. *)
ContentsOK ==
  /\ Held \in 0..Frames
  /\ Contents \in Seq(Frame) /\ Len(Contents) = Held
  /\ \A i \in 1..Held : Contents[i] = buf[SlotAt(r, i - 1)]

(* The frames read off the buffer are a contents of the queue. *)
LEMMA ContentsType == TypeOK => ContentsOK
<1> SUFFICES ASSUME TypeOK PROVE ContentsOK
  OBVIOUS
<1>1. Held \in 0..Frames /\ Held \in Nat
  BY IndexTypes, RingAssumption DEF Held, TypeOK
<1>2. ASSUME NEW i \in 1..Held PROVE buf[SlotAt(r, i - 1)] \in Frame
  <2>1. i - 1 \in 0..Cap
    BY <1>1, RingAssumption DEF Cap
  <2> QED BY <2>1, IndexTypes DEF TypeOK
<1>3. Contents \in [1..Held -> Frame]
  BY <1>2 DEF Contents
<1> QED BY <1>1, <1>3 DEF Contents, ContentsOK

(* Nothing of the queue changes in a step that keeps the indices and every  *)
(* slot that holds a frame.                                                 *)
LEMMA ContentsKept ==
  ASSUME TypeOK, w' = w, r' = r,
         \A i \in 0..(Held - 1) : buf'[SlotAt(r, i)] = buf[SlotAt(r, i)]
  PROVE  Contents' = Contents
<1>1. Held' = Held /\ Held \in Nat
  BY ContentsType DEF ContentsOK, Held
<1>2. \A i \in 1..Held : buf'[SlotAt(r, i - 1)] = buf[SlotAt(r, i - 1)]
  BY <1>1
<1>3. Contents' = [i \in 1..Held |-> buf'[SlotAt(r, i - 1)]]
  BY <1>1 DEF Contents
<1> QED BY <1>2, <1>3 DEF Contents
(* A step that leaves the ring alone leaves the queue alone. *)
LEMMA ContentsUnchanged == UNCHANGED ringVars => Contents' = Contents
BY DEF ringVars, Contents, Held

(* Every step of the ring is a step of the queue or leaves the queue as it is. *)
LEMMA QueueStep ==
  ASSUME RingInv, RingInv', [Next]_vars
  PROVE  [Queue!Next]_(Queue!vars)
<1> USE DEF Queue!Next, Queue!vars, Queue!writerVars, Queue!readerVars
<1>t. /\ TypeOK /\ TypeOK' /\ WriterInv /\ ReaderInv
      /\ w \in Slots /\ r \in Slots /\ rw \in Slots
      /\ src \in Seq(Frame) /\ Len(src) \in Nat
      /\ wk \in 0..Len(src) /\ wk \in Nat /\ wi \in 0..wk /\ wi \in Nat
      /\ rn \in Nat /\ rk \in 0..rn /\ rk \in Nat /\ ri \in 0..rk /\ ri \in Nat
      /\ dst \in Seq(Frame) /\ Len(dst) = ri
  BY DEF RingInv, TypeOK
<1>c. /\ Held \in 0..Frames /\ Held \in Nat
      /\ Contents \in Seq(Frame) /\ Len(Contents) = Held
      /\ \A i \in 1..Held : Contents[i] = buf[SlotAt(r, i - 1)]
      /\ Held = Avail(w, r) /\ Space(w, r) = Frames - Held /\ Frames \in Nat
  <2>1. ContentsOK
    BY <1>t, ContentsType
  <2>2. Held \in Nat /\ Held = Avail(w, r)
    BY <2>1, RingAssumption DEF ContentsOK, Held
  <2>3. Space(w, r) = Frames - Held
    BY <2>2, RingAssumption DEF Space, Cap
  <2> QED BY <2>1, <2>2, <2>3, RingAssumption DEF ContentsOK
<1>p. ContentsOK'
  <2>1. TypeOK'
    BY <1>t
  <2> QED BY <2>1, ContentsType, PTL
<1>1. CASE WCall
  <2>1. Contents' = Contents
    BY <1>1, ContentsUnchanged DEF WCall
  <2>2. src' \in Queue!Blocks
    BY <1>1 DEF WCall, Blocks, Queue!Blocks
  <2>3. Queue!WriteCall
    BY <1>1, <2>1, <2>2
    DEF WCall, readerVars, Queue!WriteCall, AbsWst, AbsRst, AbsRk, AbsGot, ringVars
  <2> QED BY <2>3
<1>2. CASE WLoadW
  BY <1>2, ContentsUnchanged
  DEF WLoadW, readerVars, ringVars, AbsWst, AbsRst, AbsRk, AbsGot
<1>3. CASE WLoadR
  <2>1. Contents' = Contents
    BY <1>3, ContentsUnchanged DEF WLoadR
  <2>2. wk' = Queue!Least(Len(src), Frames - Len(Contents))
    BY <1>3, <1>t, <1>c DEF WLoadR, WriterInv, Least, Queue!Least
  <2>3. Queue!WriteGrant
    BY <1>3, <2>1, <2>2
    DEF WLoadR, readerVars, Queue!WriteGrant, AbsWst, AbsRst, AbsRk, AbsGot, ringVars
  <2> QED BY <2>3
<1>4. CASE WReload
  BY <1>4, ContentsUnchanged
  DEF WReload, readerVars, ringVars, AbsWst, AbsRst, AbsRk, AbsGot
<1>5. CASE WCopy
  <2>1. /\ wl = w /\ wi < wk /\ wk <= Space(w, r)
        /\ UNCHANGED <<w, r, wpc, src, wl, wk, readerVars>>
        /\ buf' = [buf EXCEPT ![SlotAt(w, wi)] = src[wi + 1]]
    BY <1>5, <1>t DEF WCopy, WriterInv
  <2>2. ASSUME NEW i \in 0..(Held - 1)
        PROVE  buf'[SlotAt(r, i)] = buf[SlotAt(r, i)]
    <3>1. i \in Nat /\ i < Avail(w, r) /\ i \in 0..Cap
      BY <1>c DEF Cap
    <3>2. wi < Space(w, r)
      BY <2>1, <1>t, <1>c
    <3>3. SlotAt(r, i) # SlotAt(w, wi)
      BY <3>1, <3>2, <1>t, FreeIsNotHeld
    <3>4. SlotAt(r, i) \in Slots
      BY <3>1, <1>t, IndexTypes
    <3> QED BY <3>3, <3>4, <2>1, <1>t DEF TypeOK
  <2>3. Contents' = Contents
    BY <2>1, <2>2, <1>t, ContentsKept
  <2> QED BY <2>1, <2>3 DEF readerVars, AbsWst, AbsRst, AbsRk, AbsGot
<1>6. CASE WPublish
  <2>1. /\ wl = w /\ wi = wk /\ wk <= Space(w, r) /\ w' = SlotAt(w, wk)
        /\ UNCHANGED <<buf, r, src, wk, readerVars>>
        /\ \A j \in 0..(wk - 1) : buf[SlotAt(w, j)] = src[j + 1]
    BY <1>6, <1>t DEF WPublish, WriterInv
  <2>2. Held' = Held + wk
    <3>1. wk \in 0..Space(w, r)
      BY <2>1, <1>t, <1>c
    <3> QED BY <3>1, <2>1, <1>t, PublishAvail DEF Held
  <2>3. /\ Contents' \in Seq(Frame) /\ Len(Contents') = Held + wk
        /\ \A i \in 1..(Held + wk) : Contents'[i] = buf[SlotAt(r, i - 1)]
    BY <1>p, <2>1, <2>2 DEF ContentsOK
  <2> DEFINE block == SubSeq(src, 1, wk)
  <2>4. /\ block \in Seq(Frame) /\ Len(block) = wk
        /\ \A i \in 1..wk : block[i] = src[i]
    BY <1>t, SubSeqProperties
  <2> HIDE DEF block
  <2>5. /\ Contents \o block \in Seq(Frame)
        /\ Len(Contents \o block) = Held + wk
        /\ \A i \in 1..(Held + wk) :
             (Contents \o block)[i] = IF i <= Held THEN Contents[i] ELSE block[i - Held]
    <3> HIDE DEF Contents
    <3>1. Contents \in Seq(Frame) /\ Len(Contents) = Held
      BY <1>c
    <3> QED BY <3>1, <2>4, ConcatProperties
  <2>6. ASSUME NEW i \in 1..(Held + wk)
        PROVE  Contents'[i] = (Contents \o block)[i]
    <3>1. CASE i <= Held
      BY <3>1, <2>3, <2>5, <1>c
    <3>2. CASE i > Held
      <4> DEFINE k == i - Held - 1
      <4>1. k \in 0..(wk - 1) /\ k \in Nat /\ k <= Space(w, r) /\ Held + k = i - 1
        BY <3>2, <2>1, <1>t, <1>c
      <4>2. SlotAt(r, i - 1) = SlotAt(w, k)
        <5> HIDE DEF k
        <5>1. SlotAt(r, Avail(w, r) + k) = SlotAt(w, k)
          BY <4>1, <1>t, FreeFollowsHeld
        <5> QED BY <5>1, <4>1, <1>c
      <4>3. Contents'[i] = src[k + 1]
        BY <4>1, <4>2, <2>1, <2>3
      <4>4. k + 1 = i - Held /\ k + 1 \in 1..wk /\ ~(i <= Held)
        BY <3>2, <1>c, <1>t
      <4>5. (Contents \o block)[i] = block[k + 1]
        BY <4>4, <2>5
      <4>6. block[k + 1] = src[k + 1]
        BY <4>4, <2>4
      <4> HIDE DEF k
      <4> QED BY <4>3, <4>5, <4>6
    <3>3. i <= Held \/ i > Held
      BY <1>c, <1>t
    <3> QED BY <3>1, <3>2, <3>3
  <2>7. Contents' = Contents \o block
    BY <2>3, <2>5, <2>6, SeqEqual
  <2>8. Queue!WriteCommit
    BY <1>6, <2>1, <2>7
    DEF block, WPublish, readerVars, Queue!WriteCommit, AbsWst, AbsRst, AbsRk, AbsGot
  <2> QED BY <2>8
<1>7. CASE RCall
  <2>1. Contents' = Contents
    BY <1>7, ContentsUnchanged DEF RCall
  <2>2. Queue!ReadCall
    BY <1>7, <2>1
    DEF RCall, writerVars, Queue!ReadCall, AbsWst, AbsRst, AbsRk, AbsGot, ringVars
  <2> QED BY <2>2
<1>8. CASE RLoadW
  <2>1. Contents' = Contents
    BY <1>8, ContentsUnchanged DEF RLoadW
  <2>2. AbsRk' = Queue!Least(rn, Len(Contents))
    BY <1>8, <1>c DEF RLoadW, ringVars, AbsRk, Least, Queue!Least
  <2>3. Queue!ReadGrant
    BY <1>8, <2>1, <2>2
    DEF RLoadW, writerVars, Queue!ReadGrant, AbsWst, AbsRst, AbsGot, ringVars
  <2> QED BY <2>3
<1>9. CASE RLoadR
  BY <1>9, ContentsUnchanged
  DEF RLoadR, writerVars, ringVars, AbsWst, AbsRst, AbsRk, AbsGot
<1>10. CASE RReload
  BY <1>10, ContentsUnchanged
  DEF RReload, writerVars, ringVars, AbsWst, AbsRst, AbsRk, AbsGot
<1>11. CASE RCopy
  BY <1>11, ContentsUnchanged
  DEF RCopy, writerVars, ringVars, AbsWst, AbsRst, AbsRk, AbsGot
<1>12. CASE RPublish
  <2>1. /\ rl = r /\ ri = rk /\ rk <= Held /\ r' = SlotAt(r, rk)
        /\ UNCHANGED <<buf, w, rn, rk, ri, dst, writerVars>>
        /\ \A j \in 0..(rk - 1) : dst[j + 1] = buf[SlotAt(r, j)]
    BY <1>12, <1>t, <1>c DEF RPublish, ReaderInv
  <2>2. Held' = Held - rk
    <3>1. rk \in 0..Avail(w, r)
      BY <2>1, <1>t, <1>c
    <3> QED BY <3>1, <2>1, <1>t, ReleaseAvail DEF Held
  <2>3. /\ Contents' \in Seq(Frame) /\ Len(Contents') = Held - rk
        /\ \A i \in 1..(Held - rk) : Contents'[i] = buf[SlotAt(SlotAt(r, rk), i - 1)]
    BY <1>p, <2>1, <2>2 DEF ContentsOK
  <2> DEFINE taken == SubSeq(Contents, 1, rk)
             left  == SubSeq(Contents, rk + 1, Held)
  <2>4. \A i \in 1..Held : Contents[i] \in Frame
    BY <1>c
  <2>5. /\ taken \in Seq(Frame) /\ Len(taken) = rk
        /\ \A i \in 1..rk : taken[i] = Contents[i]
    BY <1>t, <1>c, <2>1, <2>4, SubSeqProperties
  <2>6. /\ left \in Seq(Frame) /\ Len(left) = Held - rk
        /\ \A i \in 1..(Held - rk) : left[i] = Contents[rk + i]
    <3>1. \A i \in (rk + 1)..Held : Contents[i] \in Frame
      BY <2>4, <1>t, <1>c
    <3>2. /\ left \in Seq(Frame)
          /\ Len(left) = IF rk + 1 <= Held THEN Held - (rk + 1) + 1 ELSE 0
          /\ \A i \in 1..(Held - (rk + 1) + 1) : left[i] = Contents[(rk + 1) + i - 1]
      <4>1. rk + 1 \in Int /\ Held \in Int
        BY <1>t, <1>c
      <4> HIDE DEF Contents
      <4> QED BY <3>1, <4>1, SubSeqProperties
    <3> HIDE DEF left
    <3> QED BY <3>2, <2>1, <1>t, <1>c
  <2> HIDE DEF taken, left
  <2>7. ASSUME NEW i \in 1..(Held - rk)
        PROVE  Contents'[i] = left[i]
    <3>1. SlotAt(SlotAt(r, rk), i - 1) = SlotAt(r, rk + (i - 1))
      <4>1. i - 1 \in Nat /\ rk + (i - 1) <= Frames
        BY <1>t, <1>c
      <4> QED BY <4>1, <1>t, SlotAtAdds
    <3>2. rk + (i - 1) = (rk + i) - 1 /\ rk + i \in 1..Held
      BY <1>t, <1>c
    <3> QED BY <3>1, <3>2, <2>3, <2>6, <1>c
  <2>8. Contents' = left
    BY <2>3, <2>6, <2>7, SeqEqual
  <2>9. dst = taken
    <3>1. ASSUME NEW i \in 1..rk
          PROVE  dst[i] = taken[i]
      <4>1. i - 1 \in 0..(rk - 1) /\ (i - 1) + 1 = i /\ i \in 1..Held
        BY <2>1, <1>t, <1>c
      <4>2. dst[i] = buf[SlotAt(r, i - 1)]
        BY <4>1, <2>1
      <4> QED BY <4>1, <4>2, <2>5, <1>c
    <3> QED BY <3>1, <2>1, <2>5, <1>t, SeqEqual
  <2>10. Queue!ReadCommit
    BY <1>12, <2>1, <2>8, <2>9, <1>c
    DEF taken, left, RPublish, writerVars, Queue!ReadCommit, AbsWst, AbsRst, AbsRk, AbsGot
  <2> QED BY <2>10
<1>13. CASE UNCHANGED vars
  BY <1>13, ContentsUnchanged
  DEF vars, ringVars, writerVars, readerVars, AbsWst, AbsRst, AbsRk, AbsGot
<1> QED
  BY <1>1, <1>2, <1>3, <1>4, <1>5, <1>6, <1>7, <1>8, <1>9, <1>10, <1>11, <1>12, <1>13
  DEF Next, WriteStep, ReadStep

(* A ring as ring_init leaves it is the empty queue. *)
LEMMA QueueInit == Init => Queue!Init
<1> SUFFICES ASSUME Init PROVE Queue!Init
  OBVIOUS
<1>1. TypeOK /\ Avail(0, 0) = 0
  BY RingInvInit, AvailIs, IndexTypes DEF RingInv
<1>2. Contents = <<>>
  <2>1. Held = 0
    BY <1>1 DEF Init, Held
  <2>2. Contents \in Seq(Frame) /\ Len(Contents) = 0
    BY <1>1, <2>1, ContentsType DEF ContentsOK
  <2> QED BY <2>2
<1> QED BY <1>2 DEF Init, Queue!Init, AbsWst, AbsRst, AbsRk, AbsGot

(* The ring of djmt1_iso.c, of any size, implements FrameQueue: no frame is *)
(* lost, doubled, torn or reordered between the two threads, whatever their *)
(* interleaving.                                                            *)
THEOREM RingImplementsQueue == Spec => RingIsFifo
<1>1. RingInv /\ RingInv' /\ [Next]_vars => [Queue!Next]_(Queue!vars)
  BY QueueStep
<1> QED BY <1>1, QueueInit, RingInvariant, PTL DEF Spec, RingIsFifo, Queue!Spec

-----------------------------------------------------------------------------
(* The ring, reduced to how many frames it holds *)

(* What the ring holds after a write was published or a read gave its slots    *)
(* back.                                                                       *)
LEMMA HeldStep ==
  ASSUME RingInv
  PROVE  /\ Held \in 0..Frames /\ Space(w, r) = Frames - Held
         /\ WPublish => Held' = Held + wk
         /\ RPublish => Held' = Held - rk
<1>1. Held \in 0..Frames /\ Space(w, r) = Frames - Held
  <2>1. ContentsOK
    BY ContentsType DEF RingInv
  <2> QED
    BY <2>1, RingAssumption DEF ContentsOK, Held, Space, Cap
<1>2. ASSUME WPublish PROVE Held' = Held + wk
  <2>1. w' = SlotAt(w, wk) /\ r' = r /\ wk \in 0..Space(w, r) /\ w \in Slots /\ r \in Slots
    BY <1>2 DEF WPublish, RingInv, WriterInv, TypeOK
  <2> QED
    BY <2>1, PublishAvail DEF Held
<1>3. ASSUME RPublish PROVE Held' = Held - rk
  <2>1. r' = SlotAt(r, rk) /\ w' = w /\ rk \in 0..Avail(w, r) /\ w \in Slots /\ r \in Slots
    BY <1>3 DEF RPublish, RingInv, ReaderInv, TypeOK
  <2> QED
    BY <2>1, ReleaseAvail DEF Held
<1> QED
  BY <1>1, <1>2, <1>3

(* A write is granted when ring_avail loads r, a read when it loads w; the     *)
(* stores of w and r take effect; every other access is none for the load.     *)
LEMMA LoadStep ==
  ASSUME RingInv, [Next]_vars
  PROVE  [Load!Next]_(Load!vars)
<1> USE DEF Load!vars, AbsWst, AbsRst, AbsRk, ringVars, writerVars, readerVars
<1>1. Held \in 0..Frames /\ Held = Avail(w, r) /\ Space(w, r) = Frames - Held
  BY HeldStep DEF Held
<1>2. CASE WLoadR
  <2>1. wl = w /\ Len(src) \in Nat
    BY <1>2 DEF WLoadR, RingInv, WriterInv, TypeOK
  <2>2. wk' \in 0..(Frames - Held)
    BY <1>1, <1>2, <2>1, RingAssumption DEF WLoadR, Least
  <2>3. Held' = Held
    BY <1>2 DEF WLoadR, Held
  <2>4. Load!WriteGrant
    BY <1>2, <2>2, <2>3 DEF WLoadR, Load!WriteGrant
  <2> QED
    BY <2>4 DEF Load!Next
<1>3. CASE WPublish
  <2>1. Held' = Held + wk
    BY <1>3, HeldStep
  <2>2. Load!WriteCommit
    BY <1>3, <2>1 DEF WPublish, Load!WriteCommit
  <2> QED
    BY <2>2 DEF Load!Next
<1>4. CASE RLoadW
  <2>1. rn \in Nat /\ Held' = Held
    BY <1>4 DEF RLoadW, RingInv, TypeOK, Held
  <2>2. AbsRk' \in 0..Held
    BY <1>1, <1>4, <2>1 DEF RLoadW, Least
  <2>3. Load!ReadGrant
    BY <1>4, <2>1, <2>2 DEF RLoadW, Load!ReadGrant
  <2> QED
    BY <2>3 DEF Load!Next
<1>5. CASE RPublish
  <2>1. Held' = Held - rk
    BY <1>5, HeldStep
  <2>2. Load!ReadCommit
    BY <1>5, <2>1 DEF RPublish, Load!ReadCommit
  <2> QED
    BY <2>2 DEF Load!Next
<1>6. CASE UNCHANGED vars
  BY <1>6 DEF vars, Held
<1>7. CASE WCall
  BY <1>7 DEF WCall, Held
<1>8. CASE WLoadW \/ WReload \/ WCopy
  BY <1>8 DEF WLoadW, WReload, WCopy, Held
<1>9. CASE RCall
  BY <1>9 DEF RCall, Held
<1>10. CASE RLoadR \/ RReload \/ RCopy
  BY <1>10 DEF RLoadR, RReload, RCopy, Held
<1> QED
  BY <1>2, <1>3, <1>4, <1>5, <1>6, <1>7, <1>8, <1>9, <1>10 DEF Next, WriteStep, ReadStep

(* The ring is what IsoEngine takes its two rings for, for every size of the   *)
(* ring, every frame and every call.                                           *)
THEOREM RingImplementsCount == Spec => RingIsCounted
<1>1. Init => Load!Init
  <2>1. Init => Held = 0
    <3>1. 0 \in Slots
      BY RingAssumption DEF Slots, Cap
    <3> QED
      BY <3>1, AvailIs DEF Init, Held
  <2> QED
    BY <2>1 DEF Init, Load!Init, AbsWst, AbsRst
<1>2. RingInv /\ [Next]_vars => [Load!Next]_(Load!vars)
  BY LoadStep
<1> QED
  BY <1>1, <1>2, RingInvariant, PTL DEF Spec, RingIsCounted, Load!Spec
=============================================================================
