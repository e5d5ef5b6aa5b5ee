----------------------------- MODULE DataPaths ------------------------------
(***************************************************************************)
(* The three places where the programs of this repository move data about, *)
(* side by side: the lock-free ring of the audio engine (SpscRing), the    *)
(* pointers of the kernel driver's stream (PcmPointer) and the conversions *)
(* of the MIDI bridge (UsbMidi).  They share nothing; each runs while the  *)
(* other two are at rest, so that a run visits the states of each and not  *)
(* their product.                                                          *)
(***************************************************************************)
EXTENDS SpscRing, PcmPointer, UsbMidi

(* The state each starts in, and comes back to. *)
RingRests == Init
PointerRests == PointerInit /\ buffer_size = MaxBuffer /\ period_size = PacketFrames
ConvRests == ConvInit

DataInit == Init /\ PointerInit /\ ConvInit

DataNext ==
  \/ PointerRests /\ ConvRests /\ Next /\ UNCHANGED <<pointerVars, convVars>>
  \/ RingRests /\ ConvRests /\ PointerNext /\ UNCHANGED <<vars, convVars>>
  \/ RingRests /\ PointerRests /\ ConvNext /\ UNCHANGED <<vars, pointerVars>>

DataSpec == DataInit /\ [][DataNext]_<<vars, pointerVars, convVars>>
=============================================================================
