\* The ring: two frames (three slots) and calls of up to three frames: clipped writes,
\* short reads, empty calls and every wrap of both indices occur.
\* The pointers: every buffer of up to nine frames and every period that fits it, packets
\* of up to two frames, three laps of the longest buffer.
\* The conversions: a status of every kind, pkt filled by two packets.
SPECIFICATION DataSpec
CONSTANTS
  Frames = 2
  Frame = {zero, tone}
  Silence = zero
  MaxCall = 3
  PacketFrames = 2
  MaxBuffer = 9
  MaxMoved = 27
  Status = {128, 144, 160, 179, 192, 223, 224, 240, 241, 242, 247, 248, 254}
  Data = {0, 1, 127}
  MaxSysEx = 3
  MaxPackets = 2
  Cable = {0, 1}
  MaxIn = 2
INVARIANTS
  RingInv
  NoDataRace
  PointerTypeOK
  OneWakeupPerPeriod
  RingHoldsTheLastFrames
  ConvTypeOK
  MessagesRoundTrip
  MixerMessagesArrive
PROPERTIES
  RingIsFifo
  CallsReturn
