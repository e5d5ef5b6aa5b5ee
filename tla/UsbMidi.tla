------------------------------ MODULE UsbMidi -------------------------------
(***************************************************************************)
(* The two conversions of midi/djm_midi.c (and djm_full.c, which holds the *)
(* same code): send_to_device packs the bytes of an ALSA sequencer event   *)
(* into four-byte USB-MIDI packets, midi_cb takes packets apart again.     *)
(* The loops are stepped through byte by byte and packet by packet, for    *)
(* every event and every USB buffer of the run.                            *)
(*                                                                         *)
(* External: snd_midi_event_decode without running status gives one whole  *)
(* message of an event, or a piece of a system exclusive one.              *)
(***************************************************************************)
EXTENDS Integers, Sequences, SequencesExt

CONSTANTS
  Status,      \* status bytes of the messages
  Data,        \* data bytes
  MaxSysEx,    \* bound of the run: bytes in a piece of a system exclusive message
  MaxPackets,  \* packets pkt[64] holds: 16
  Cable,       \* cable numbers the mixer uses
  MaxIn        \* bound of the run: packets in one transfer from the mixer

ASSUME CodecAssumption ==
  /\ Status \subseteq 128..255 /\ Data \subseteq 0..127 /\ Cable \subseteq 0..15
  /\ MaxSysEx \in Nat /\ MaxPackets \in Nat \ {0, 1} /\ MaxIn \in Nat

Byte == 0..255
High(b) == b \div 16

(* The length of a message, by the MIDI standard; 0 for system exclusive. *)
MessageLength(s) ==
  CASE High(s) \in {8, 9, 10, 11, 14} \/ s = 242 -> 3
    [] High(s) \in {12, 13} \/ s \in {241, 243} -> 2
    [] s \in {240, 247} -> 0
    [] OTHER -> 1

(* What snd_midi_event_decode may leave in buf. *)
Messages == UNION {{<<s>> \o d : d \in [1..(MessageLength(s) - 1) -> Data]} :
                     s \in {t \in Status : MessageLength(t) > 0}}
Ends(b) == IF b \in Status THEN {<<>>, <<b>>} ELSE {<<>>}
SysExPieces ==
  {f \o d \o l : f \in Ends(240), d \in BoundedSeq(Data, MaxSysEx), l \in Ends(247)} \ {<<>>}

(* A whole channel-voice message or a single-byte one. *)
Carried(m) == m \in Messages /\ (m[1] < 240 \/ Len(m) = 1)

VARIABLES
  at,    \* drain_seq_input waits, or send_to_device packs, or midi_cb parses
  midi, i,  \* the event's bytes, and the index of the loop that runs (from 1)
  pkt,   \* packets packed so far, or the buffer of the completed transfer
  out    \* bytes handed to snd_midi_event_encode_byte

convVars == <<at, midi, i, pkt, out>>

ConvInit == at = "wait" /\ midi = <<>> /\ i = 1 /\ pkt = <<>> /\ out = <<>>

-----------------------------------------------------------------------------
(* drain_seq_input hands an event to send_to_device. *)
DrainSeqInput ==
  /\ at = "wait"
  /\ midi' \in Messages \cup SysExPieces
  /\ at' = "pack" /\ i' = 1 /\ pkt' = <<>> /\ out' = <<>>

(* The condition of the packing loop. *)
More == i <= Len(midi) /\ Len(pkt) < MaxPackets

(* A data byte without a status is skipped. *)
SkipStray ==
  /\ at = "pack" /\ More /\ midi[i] < 128
  /\ i' = i + 1
  /\ UNCHANGED <<at, midi, pkt, out>>

(* fault: channel pressure is not in the switch *)
PackedLengthNoPressure(s) ==
  IF High(s) \in {8, 9, 10, 11, 14} THEN 3 ELSE IF High(s) = 12 THEN 2 ELSE 1

(* mlen and cin: every system message counts as a single byte. *)
PackedLength(s) ==
  CASE High(s) \in {8, 9, 10, 11, 14} -> 3
    [] High(s) \in {12, 13} -> 2
    [] OTHER -> 1

(* fault: the status nibble is not shifted down *)
CinOfUnshifted(s) == IF PackedLength(s) > 1 THEN 16 * High(s) ELSE 15

CinOf(s) == IF PackedLength(s) > 1 THEN High(s) ELSE 15

(* One packet for the message that starts here; missing data bytes are zero. *)
Pack ==
  /\ at = "pack" /\ More /\ midi[i] >= 128
  /\ LET mlen == PackedLength(midi[i])
         At(n) == IF mlen > n /\ i + n <= Len(midi) THEN midi[i + n] ELSE 0
     IN /\ pkt' = Append(pkt, <<CinOf(midi[i]), midi[i], At(1), At(2)>>)
        /\ i' = i + mlen
  /\ UNCHANGED <<at, midi, out>>

(* The bulk write to the mixer, if there is anything to write. *)
Write ==
  /\ at = "pack" /\ ~More
  /\ at' = "wait" /\ midi' = <<>> /\ i' = 1 /\ pkt' = <<>> /\ out' = <<>>

-----------------------------------------------------------------------------
(* A transfer with packets of the mixer's own completes: padding is all zero. *)
MixerPackets ==
  {<<0, 0, 0, 0>>} \cup
  {<<c * 16 + High(s), s, d, e>> :
     c \in Cable, s \in {t \in Status : t < 240 \/ t > 247}, d \in Data, e \in Data}
Completed ==
  /\ at = "wait"
  /\ \E n \in 1..MaxIn : pkt' \in [1..n -> MixerPackets]
  /\ at' = "parse" /\ i' = 1 /\ out' = <<>>
  /\ UNCHANGED midi

(* cin_len, for the code index numbers 0 to 15. *)
CinLength == <<0, 0, 2, 3, 3, 1, 2, 3, 3, 3, 3, 3, 2, 2, 3, 1>>

(* fault: all three bytes of a packet are taken *)
BytesAll(p) == IF p = <<0, 0, 0, 0>> THEN <<>> ELSE SubSeq(p, 2, 4)

(* The bytes midi_cb gives to emit_midi for one packet; the cable number is   *)
(* masked away.                                                               *)
Bytes(p) == IF p = <<0, 0, 0, 0>> THEN <<>> ELSE SubSeq(p, 2, 1 + CinLength[(p[1] % 16) + 1])

(* One round of midi_cb's loop. *)
Parse ==
  /\ at = "parse" /\ i <= Len(pkt)
  /\ out' = out \o Bytes(pkt[i])
  /\ i' = i + 1
  /\ UNCHANGED <<at, midi, pkt>>

ParseDone ==
  /\ at = "parse" /\ i > Len(pkt)
  /\ at' = "wait" /\ i' = 1 /\ pkt' = <<>> /\ out' = <<>>
  /\ UNCHANGED midi

ConvNext == DrainSeqInput \/ SkipStray \/ Pack \/ Write \/ Completed \/ Parse \/ ParseDone
ConvSpec == ConvInit /\ [][ConvNext]_convVars

-----------------------------------------------------------------------------
(* Properties *)

(* The types of the state; packets for the mixer go out on cable 0. *)
ConvTypeOK ==
  /\ at \in {"wait", "pack", "parse"}
  /\ midi \in Seq(Byte) /\ i \in 1..(Len(midi) + MaxIn + 2) /\ out \in Seq(Byte)
  /\ \A j \in DOMAIN pkt : pkt[j] \in [1..4 -> Byte] /\ (at = "pack" => pkt[j][1] < 16)

(* What send_to_device packed, taken apart the way midi_cb (and the mixer)    *)
(* does, is the message: every channel-voice and single-byte message comes    *)
(* through whole, and once (the comment at djm_midi.c:103-106); and no event  *)
(* at all is cut short by the size of pkt (djm_midi.c:109).                   *)
MessagesRoundTrip ==
  at = "pack" /\ ~More =>
    /\ i > Len(midi)
    /\ Carried(midi) => FlattenSeq([j \in DOMAIN pkt |-> Bytes(pkt[j])]) = midi

(* The bytes of a packet's message, by the MIDI standard. *)
StandardBytes(p) == IF p = <<0, 0, 0, 0>> THEN <<>> ELSE SubSeq(p, 2, 1 + MessageLength(p[2]))

(* The bytes the sequencer gets are the messages of the packets, in order:    *)
(* the table of djm_midi.c:74 agrees with the lengths of the MIDI standard on *)
(* every cable, and padding anywhere in the buffer adds nothing.              *)
MixerMessagesArrive ==
  at = "parse" => out = FlattenSeq([j \in 1..(i - 1) |-> StandardBytes(pkt[j])])
=============================================================================
