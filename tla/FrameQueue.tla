----------------------------- MODULE FrameQueue -----------------------------
(***************************************************************************)
(* What a ring of audio/djmt1_iso.c promises its two users: a bounded FIFO *)
(* of audio frames with one writer and one reader.  A call takes three     *)
(* steps: it starts, it is granted as many frames as fit (or as are        *)
(* there), and it takes effect at once, for exactly that many frames.      *)
(* Neither side ever waits for the other.                                  *)
(***************************************************************************)
EXTENDS Integers, Sequences

CONSTANTS
  Frames,   \* (a natural number) the ring_frames argument of djmt1_iso_start: frames it can hold
  Frame,    \* the values of one interleaved 6-channel frame
  MaxCall   \* the most frames one call asks to move

VARIABLES
  q,       \* frames written and not yet read, oldest first
  wst,     \* progress of the writer's call: idle, asked or granted
  src,     \* the frames that call was given
  wk,      \* frames granted to the writer; once idle, what the call returned
  rst,     \* progress of the reader's call
  rn,      \* frames that call was asked for
  rk,      \* frames granted to the reader
  got      \* what the last finished read delivered (empty during a read)

vars == <<q, wst, src, wk, rst, rn, rk, got>>
writerVars == <<wst, src, wk>>
readerVars == <<rst, rn, rk, got>>

Least(a, b) == IF a <= b THEN a ELSE b

(* The arguments of a write: any number of frames up to MaxCall. *)
Blocks == UNION {[1..n -> Frame] : n \in 0..MaxCall}

Init ==
  /\ q = <<>>
  /\ wst = "idle" /\ src = <<>> /\ wk = 0
  /\ rst = "idle" /\ rn = 0 /\ rk = 0 /\ got = <<>>

WriteCall ==
  /\ wst = "idle"
  /\ wst' = "asked"
  /\ src' \in Blocks
  /\ wk' = 0
  /\ UNCHANGED <<q, readerVars>>

WriteGrant ==
  /\ wst = "asked"
  /\ wst' = "granted"
  /\ wk' = Least(Len(src), Frames - Len(q))
  /\ UNCHANGED <<q, src, readerVars>>

WriteCommit ==
  /\ wst = "granted"
  /\ wst' = "idle"
  /\ q' = q \o SubSeq(src, 1, wk)
  /\ UNCHANGED <<src, wk, readerVars>>

ReadCall ==
  /\ rst = "idle"
  /\ rst' = "asked"
  /\ rn' \in 0..MaxCall
  /\ rk' = 0
  /\ got' = <<>>
  /\ UNCHANGED <<q, writerVars>>

ReadGrant ==
  /\ rst = "asked"
  /\ rst' = "granted"
  /\ rk' = Least(rn, Len(q))
  /\ UNCHANGED <<q, rn, got, writerVars>>

ReadCommit ==
  /\ rst = "granted"
  /\ rst' = "idle"
  /\ got' = SubSeq(q, 1, rk)
  /\ q' = SubSeq(q, rk + 1, Len(q))
  /\ UNCHANGED <<rn, rk, writerVars>>

Next == WriteCall \/ WriteGrant \/ WriteCommit \/ ReadCall \/ ReadGrant \/ ReadCommit

Spec == Init /\ [][Next]_vars
=============================================================================
