------------------------------ MODULE SpscRing ------------------------------
(***************************************************************************)
(* The lock-free ring of audio/djmt1_iso.c (struct ring, ring_write,       *)
(* ring_read), one action per atomic access.  Two threads use a ring and   *)
(* share nothing but the two atomic indices and the buffer:                *)
(*                                                                         *)
(*   capture ring   writer: in_cb on the iso thread                        *)
(*                  reader: djmt1_iso_read on PipeWire's data thread       *)
(*   playback ring  writer: djmt1_iso_write on PipeWire's data thread      *)
(*                  reader: out_cb on the iso thread                       *)
(*                                                                         *)
(* The indices are sequentially consistent atomics; the buffer is plain    *)
(* memory, so that two overlapping accesses to one slot, one of them a     *)
(* write, would be a data race.  A memcpy of one frame is in progress in   *)
(* every state whose pc is "copy" and whose counter is below the count;    *)
(* the step that leaves that state is its end.                             *)
(***************************************************************************)
EXTENDS Integers, Sequences

CONSTANTS
  Frames,   \* ring_frames
  Frame,    \* the values of one interleaved 6-channel frame
  Silence,  \* the frame of zeros calloc fills the buffer with
  MaxCall   \* the most frames one call asks to move

ASSUME RingAssumption ==
  /\ Frames \in Nat
  /\ MaxCall \in Nat
  /\ Silence \in Frame

VARIABLES
  buf, w, r,                \* struct ring
  wpc, src, wl, wk, wi,     \* ring_write: n is Len(src), then wk; w is wl; i is wi
  rpc, rn, rw, rl, rk, ri,  \* ring_read: n is rn, then rk; ring_avail's w is rw; r is rl
  dst                       \* frames copied so far to the caller's buffer

ringVars == <<buf, w, r>>
writerVars == <<wpc, src, wl, wk, wi>>
readerVars == <<rpc, rn, rw, rl, rk, ri, dst>>
vars == <<ringVars, writerVars, readerVars>>

Least(a, b) == IF a <= b THEN a ELSE b
Blocks == UNION {[1..n -> Frame] : n \in 0..MaxCall}

(* ring_init: one spare slot, so that a full ring differs from an empty one. *)
Cap == Frames + 1
Slots == 0..(Cap - 1)

(* ring_avail and ring_space, from the two index values a call has loaded. *)
Avail(lw, lr) == (lw - lr + Cap) % Cap
SpaceNoSpare(lw, lr) == Cap - Avail(lw, lr)   \* fault: the spare slot is used too
Space(lw, lr) == Cap - 1 - Avail(lw, lr)

(* The slot i frames after index x. *)
SlotAtNoWrap(x, i) == Least(x + i, Cap - 1)   \* fault: the copy does not wrap
SlotAt(x, i) == (x + i) % Cap

Init ==
  /\ buf = [s \in Slots |-> Silence] /\ w = 0 /\ r = 0
  /\ wpc = "idle" /\ src = <<>> /\ wl = 0 /\ wk = 0 /\ wi = 0
  /\ rpc = "idle" /\ rn = 0 /\ rw = 0 /\ rl = 0 /\ rk = 0 /\ ri = 0 /\ dst = <<>>

-----------------------------------------------------------------------------
(* ring_write *)

WCall ==
  /\ wpc = "idle"
  /\ wpc' = "loadw"
  /\ src' \in Blocks
  /\ wl' = 0 /\ wk' = 0 /\ wi' = 0
  /\ UNCHANGED <<ringVars, readerVars>>

(* ring_avail loads w, the writer's own index ... *)
WLoadW ==
  /\ wpc = "loadw"
  /\ wpc' = "loadr"
  /\ wl' = w
  /\ UNCHANGED <<ringVars, src, wk, wi, readerVars>>

(* ... then r, and ring_write clips n to the space that leaves. *)
WLoadR ==
  /\ wpc = "loadr"
  /\ wpc' = "reload"
  /\ wk' = Least(Len(src), Space(wl, r))
  /\ UNCHANGED <<ringVars, src, wl, wi, readerVars>>

(* ring_write loads w once more for the copy. *)
WReload ==
  /\ wpc = "reload"
  /\ wpc' = "copy"
  /\ wl' = w
  /\ UNCHANGED <<ringVars, src, wk, wi, readerVars>>

WCopy ==
  /\ wpc = "copy" /\ wi < wk
  /\ buf' = [buf EXCEPT ![SlotAt(wl, wi)] = src[wi + 1]]
  /\ wi' = wi + 1
  /\ UNCHANGED <<w, r, wpc, src, wl, wk, readerVars>>

(* The store of w makes the copied frames visible to the reader. *)
WPublish ==
  /\ wpc = "copy" /\ wi = wk
  /\ w' = SlotAt(wl, wk)
  /\ wpc' = "idle"
  /\ UNCHANGED <<buf, r, src, wl, wk, wi, readerVars>>

-----------------------------------------------------------------------------
(* ring_read *)

RCall ==
  /\ rpc = "idle"
  /\ rpc' = "loadw"
  /\ rn' \in 0..MaxCall
  /\ rw' = 0 /\ rl' = 0 /\ rk' = 0 /\ ri' = 0 /\ dst' = <<>>
  /\ UNCHANGED <<ringVars, writerVars>>

(* ring_avail loads w, the other side's index ... *)
RLoadW ==
  /\ rpc = "loadw"
  /\ rpc' = "loadr"
  /\ rw' = w
  /\ UNCHANGED <<ringVars, rn, rl, rk, ri, dst, writerVars>>

(* fault: the reader waits until the ring holds what it was asked for *)
RLoadRBlocking ==
  /\ rpc = "loadr"
  /\ Avail(w, r) >= rn
  /\ rpc' = "reload"
  /\ rk' = rn
  /\ UNCHANGED <<ringVars, rn, rw, rl, ri, dst, writerVars>>

(* ... then r, and ring_read clips n to what the ring held. *)
RLoadR ==
  /\ rpc = "loadr"
  /\ rpc' = "reload"
  /\ rk' = Least(rn, Avail(rw, r))
  /\ UNCHANGED <<ringVars, rn, rw, rl, ri, dst, writerVars>>

RReload ==
  /\ rpc = "reload"
  /\ rpc' = "copy"
  /\ rl' = r
  /\ UNCHANGED <<ringVars, rn, rw, rk, ri, dst, writerVars>>

RCopy ==
  /\ rpc = "copy" /\ ri < rk
  /\ dst' = Append(dst, buf[SlotAt(rl, ri)])
  /\ ri' = ri + 1
  /\ UNCHANGED <<ringVars, rpc, rn, rw, rl, rk, writerVars>>

(* fault: the slots are given back before they are copied *)
RPublishEarly ==
  /\ rpc \in {"reload", "copy"} /\ r = rl
  /\ r' = SlotAt(rl, rk)
  /\ rpc' = "copy"
  /\ UNCHANGED <<buf, w, rn, rw, rl, rk, ri, dst, writerVars>>

(* The store of r gives the copied slots back to the writer. *)
RPublish ==
  /\ rpc = "copy" /\ ri = rk
  /\ r' = SlotAt(rl, rk)
  /\ rpc' = "idle"
  /\ UNCHANGED <<buf, w, rn, rw, rl, rk, ri, dst, writerVars>>

-----------------------------------------------------------------------------
WriteStep == WLoadW \/ WLoadR \/ WReload \/ WCopy \/ WPublish
ReadStep == RLoadW \/ RLoadR \/ RReload \/ RCopy \/ RPublish

Next == WCall \/ WriteStep \/ RCall \/ ReadStep

Spec == Init /\ [][Next]_vars

(* A thread inside a call is not stopped for ever: an audio thread runs.    *)
WriterRuns == WF_vars(WriteStep)
ReaderRuns == WF_vars(ReadStep)

-----------------------------------------------------------------------------
(* Properties *)

(* The ring's variables keep their types: the indices stay inside the      *)
(* buffer, a call never moves more than it was asked to.                    *)
TypeOK ==
  /\ buf \in [Slots -> Frame] /\ w \in Slots /\ r \in Slots
  /\ wpc \in {"idle", "loadw", "loadr", "reload", "copy"}
  /\ src \in Seq(Frame) /\ wl \in Slots
  /\ wk \in 0..Len(src) /\ wi \in 0..wk
  /\ rpc \in {"idle", "loadw", "loadr", "reload", "copy"}
  /\ rn \in Nat /\ rw \in Slots /\ rl \in Slots
  /\ rk \in 0..rn /\ ri \in 0..rk
  /\ dst \in Seq(Frame) /\ Len(dst) = ri

(* No data race on the buffer: while the writer copies a frame into a slot *)
(* (djmt1_iso.c:39) the reader is never copying that slot out              *)
(* (djmt1_iso.c:47), although neither side takes a lock and each works      *)
(* from an index the other may have moved since.                            *)
NoDataRace ==
  ~ /\ wpc = "copy" /\ wi < wk
    /\ rpc = "copy" /\ ri < rk
    /\ SlotAt(wl, wi) = SlotAt(rl, ri)

(* What the ring holds, oldest frame first. *)
Held == Avail(w, r)
Contents == [i \in 1..Held |-> buf[SlotAt(r, i - 1)]]

(* The calls as FrameQueue sees them.  A write is granted its frames when   *)
(* ring_avail loads r, a read when ring_avail loads w: that is the other    *)
(* side's index, and the only one that can move during the call.            *)
AbsWst == CASE wpc = "idle" -> "idle"
            [] wpc \in {"loadw", "loadr"} -> "asked"
            [] OTHER -> "granted"
AbsRst == CASE rpc = "idle" -> "idle"
            [] rpc = "loadw" -> "asked"
            [] OTHER -> "granted"
AbsRk == IF rpc = "loadr" THEN Least(rn, Avail(rw, r)) ELSE rk
AbsGot == IF rpc = "idle" THEN dst ELSE <<>>

Queue == INSTANCE FrameQueue
  WITH q <- Contents, wst <- AbsWst, rst <- AbsRst, rk <- AbsRk, got <- AbsGot

(* The ring is a bounded FIFO of frames: every frame ring_write accepted is *)
(* delivered by ring_read once, whole and in order, and the count each call *)
(* returns is the most the ring allowed when the call looked.               *)
RingIsFifo == Queue!Spec

(* The same ring, reduced to how many frames it holds.                      *)
Load == INSTANCE FrameCount
  WITH len <- Held,
       wst <- IF AbsWst = "granted" THEN "granted" ELSE "idle",
       wk <- IF AbsWst = "granted" THEN wk ELSE 0,
       rst <- IF AbsRst = "granted" THEN "granted" ELSE "idle",
       rk <- IF AbsRst = "granted" THEN AbsRk ELSE 0

(* What IsoEngine takes for a ring is one: the calls of ring_write and      *)
(* ring_read are granted no more than fits, or is there, and move that many.*)
RingIsCounted == Load!Spec

(* ring_write returns however long the reader stalls, and ring_read however *)
(* long the writer does: both run in a libusb callback and in PipeWire's    *)
(* real-time callback, neither of which may block (djmt1_iso.c:35-50).      *)
(* Only the caller's own thread is assumed to run.                          *)
CallsReturn ==
  /\ WriterRuns => ((wpc # "idle") ~> (wpc = "idle"))
  /\ ReaderRuns => ((rpc # "idle") ~> (rpc = "idle"))

-----------------------------------------------------------------------------
(* The inductive invariant behind NoDataRace and RingIsFifo *)

(* What the writer worked out stays true while the reader moves: the count  *)
(* it clipped still fits (the reader only ever makes room), and what it     *)
(* copied is still in place beyond the last published frame.                *)
WriterInv ==
  /\ wpc \in {"loadr", "copy"} => wl = w
  /\ wpc \in {"reload", "copy"} => wk <= Space(w, r)
  /\ wpc \in {"loadw", "loadr", "reload"} => wi = 0
  /\ wpc = "copy" => \A j \in 0..(wi - 1) : buf[SlotAt(w, j)] = src[j + 1]

(* What the reader worked out stays true while the writer moves: the frames *)
(* it counted are still there, and what it copied is still in the buffer.   *)
ReaderInv ==
  /\ rpc = "loadr" => Avail(rw, r) <= Avail(w, r)
  /\ rpc \in {"reload", "copy"} => rk <= Avail(w, r)
  /\ rpc = "copy" => rl = r
  /\ rpc \in {"loadw", "loadr", "reload"} => ri = 0
  /\ rpc = "copy" => \A j \in 0..(ri - 1) : dst[j + 1] = buf[SlotAt(r, j)]

(* The ring's inductive invariant: its types and what each side knows.      *)
RingInv == TypeOK /\ WriterInv /\ ReaderInv
=============================================================================
