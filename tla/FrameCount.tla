----------------------------- MODULE FrameCount -----------------------------
(***************************************************************************)
(* How many frames a ring of audio/djmt1_iso.c holds, and what its users   *)
(* owe it: one call of each side at a time, and a new ring (djmt1_iso_stop *)
(* frees, djmt1_iso_start allocates) only when neither is inside one.      *)
(*                                                                         *)
(* SpscRing implements it from below: every ring_write and ring_read is    *)
(* such a call.  IsoEngine implements it from above, once for each of its  *)
(* rings: no interleaving of its threads asks anything else of a ring.     *)
(***************************************************************************)
EXTENDS Integers

CONSTANT Frames   \* (a natural number) frames the ring can hold

VARIABLES
  len,       \* frames the ring holds
  wst, wk,   \* the writer's call: idle or granted, and the frames it was granted
  rst, rk    \* the reader's call

vars == <<len, wst, wk, rst, rk>>

Init == len = 0 /\ wst = "idle" /\ wk = 0 /\ rst = "idle" /\ rk = 0

(* A write is granted frames there is room for; how many it asks for is free. *)
WriteGrant ==
  /\ wst = "idle"
  /\ wst' = "granted" /\ wk' \in 0..(Frames - len)
  /\ UNCHANGED <<len, rst, rk>>

WriteCommit ==
  /\ wst = "granted"
  /\ len' = len + wk
  /\ wst' = "idle" /\ wk' = 0
  /\ UNCHANGED <<rst, rk>>

ReadGrant ==
  /\ rst = "idle"
  /\ rst' = "granted" /\ rk' \in 0..len
  /\ UNCHANGED <<len, wst, wk>>

ReadCommit ==
  /\ rst = "granted"
  /\ len' = len - rk
  /\ rst' = "idle" /\ rk' = 0
  /\ UNCHANGED <<wst, wk>>

(* The ring is freed, and a new and empty one takes its place. *)
Renew ==
  /\ wst = "idle" /\ rst = "idle"
  /\ len' = 0
  /\ UNCHANGED <<wst, wk, rst, rk>>

Next == WriteGrant \/ WriteCommit \/ ReadGrant \/ ReadCommit \/ Renew

Spec == Init /\ [][Next]_vars
=============================================================================
