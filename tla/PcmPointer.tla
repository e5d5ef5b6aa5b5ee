----------------------------- MODULE PcmPointer -----------------------------
(***************************************************************************)
(* djmt1_transfer of kernel/djmt1_audio.c: how one packet moves a stream's *)
(* pointers and which slots of the ALSA ring its frames go to (capture) or *)
(* come from (playback).  Frames are numbered from 0 at each prepare, as   *)
(* the device or the application numbers them.                             *)
(***************************************************************************)
EXTENDS Integers

CONSTANTS
  PacketFrames, \* FRAMES_PER_PKT: the most frames a packet holds
  MaxBuffer,    \* the longest buffer, in frames (buffer_bytes_max)
  MaxMoved      \* bound of the runs: frames moved since prepare

ASSUME PointerAssumption ==
  PacketFrames \in Nat \ {0} /\ MaxBuffer \in Nat /\ MaxMoved \in Nat

VARIABLES
  buffer_size, period_size,  \* of struct snd_pcm_runtime, in frames
  hwptr, period_pos,  \* of struct djmt1_stream
  ring,               \* the frame last copied at each offset of the ALSA ring
  moved,              \* history: frames moved since prepare
  elapsed             \* history: calls of snd_pcm_period_elapsed since prepare

pointerVars == <<buffer_size, period_size, hwptr, period_pos, ring, moved, elapsed>>

Offsets == 0..(buffer_size - 1)
None == -1   \* no frame copied here since prepare

(* djmt1_hw: a period holds at least one packet (period_bytes_min), a buffer  *)
(* at least two periods (periods_min).                                        *)
Sizes(b, p) == b \in 0..MaxBuffer /\ p \in PacketFrames..b /\ 2 * p <= b

PointerInit ==
  /\ buffer_size \in 0..MaxBuffer /\ period_size \in 0..MaxBuffer
  /\ Sizes(buffer_size, period_size)
  /\ hwptr = 0 /\ period_pos = 0
  /\ ring = [o \in Offsets |-> None]
  /\ moved = 0 /\ elapsed = 0

(* hw_params allocates a buffer of the size the application asks for, and     *)
(* djmt1_prepare resets the pointers.                                         *)
Prepare(b, p) ==
  /\ Sizes(b, p)
  /\ buffer_size' = b /\ period_size' = p
  /\ hwptr' = 0 /\ period_pos' = 0
  /\ ring' = [o \in 0..(b - 1) |-> None]
  /\ moved' = 0 /\ elapsed' = 0

(* fault: the remainder of a period is dropped when it elapses *)
PeriodAfterDropped(pos) == IF pos >= period_size THEN 0 ELSE pos

(* fault: > for >= *)
PeriodAfterLate(pos) == IF pos > period_size THEN pos % period_size ELSE pos

(* s->period_pos after it was advanced to pos. *)
PeriodAfter(pos) == IF pos >= period_size THEN pos % period_size ELSE pos

(* fault: the copy starts one slot late *)
SlotOfLate(i) == (hwptr + i + 1) % buffer_size

(* Where the i-th frame of the packet lies in the ring. *)
SlotOf(i) == (hwptr + i) % buffer_size

(* djmt1_transfer: n frames. *)
Transfer(n) ==
  /\ ring' = [o \in Offsets |->
       IF \E i \in 0..(n - 1) : o = SlotOf(i)
         THEN moved + (CHOOSE i \in 0..(n - 1) : o = SlotOf(i))
         ELSE ring[o]]
  /\ hwptr' = (hwptr + n) % buffer_size
  /\ period_pos' = PeriodAfter(period_pos + n)
  /\ elapsed' = IF period_pos + n >= period_size THEN elapsed + 1 ELSE elapsed
  /\ moved' = moved + n
  /\ UNCHANGED <<buffer_size, period_size>>

PointerNext ==
  \/ \E b, p \in 0..MaxBuffer : Prepare(b, p)
  \/ \E n \in 1..PacketFrames : moved + n <= MaxMoved /\ Transfer(n)

PointerSpec == PointerInit /\ [][PointerNext]_pointerVars

(* The pointers keep their types: hwptr, which djmt1_pointer returns, is an *)
(* offset into the ring.                                                    *)
PointerTypeOK ==
  /\ Sizes(buffer_size, period_size)
  /\ hwptr \in Offsets /\ period_pos \in 0..(period_size - 1)
  /\ ring \in [Offsets -> Int] /\ moved \in Nat /\ elapsed \in Nat

(* The application is woken exactly once for every period's worth of frames *)
(* (djmt1_audio.c:100-104), however the packets straddle the boundaries.    *)
OneWakeupPerPeriod == moved = elapsed * period_size + period_pos

(* hwptr stands where the next frame goes, and the ring holds the last      *)
(* buffer_size frames, each at its own place: no packet that wraps           *)
(* (djmt1_audio.c:90-99) misplaces, doubles or overwrites a frame.          *)
RingHoldsTheLastFrames ==
  /\ hwptr = moved % buffer_size
  /\ \A f \in 0..(moved - 1) : f >= moved - buffer_size => ring[f % buffer_size] = f
=============================================================================
