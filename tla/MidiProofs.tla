----------------------------- MODULE MidiProofs -----------------------------
(***************************************************************************)
(* What djm_midi.c promises: the life cycle of MidiBridge and the two      *)
(* conversions of UsbMidi.                                                 *)
(*                                                                         *)
(* MidiBridge, for any audio transfers, any number of attempts and any     *)
(* drivers that hold interfaces: PipesStayOpen and NothingInFlightAtClose  *)
(* are about the end of a phase of main; they become inductive once every  *)
(* earlier phase says what holds so far.                                   *)
(*                                                                         *)
(* UsbMidi, for any status and data bytes, any length of a system          *)
(* exclusive piece and of a transfer, and any pkt of two packets or more:  *)
(* the loops' invariants say what is packed or parsed so far.  The         *)
(* messages of a transfer are put together by FlattenSeq, a recursive      *)
(* function; what it does with one piece more is proved first.             *)
(***************************************************************************)
EXTENDS MidiBridge, UsbMidi, SequenceTheorems, WellFoundedInduction, TLAPS

(* TypeOK in three parts. *)
FlagsTyped ==
  /\ plugged \in BOOLEAN /\ armed \in BOOLEAN /\ conn \in BOOLEAN /\ armok \in BOOLEAN
  /\ do_quit \in BOOLEAN /\ running \in BOOLEAN /\ hid_on \in BOOLEAN
CountTyped ==
  /\ pc \in {"down", "open", "audio", "midi", "hid", "settle", "arm", "loop", "drain",
             "teardown", "pump"}
  /\ count \in Nat
  /\ count > 0 => \/ pc = "open" /\ count < Tries
                  \/ pc = "arm" /\ count <= ArmSteps
                  \/ pc = "pump" /\ count <= 5
XferTyped ==
  /\ xfer \in [Pipes -> {"none", "flight", "dead"} \cup Statuses]
  /\ refused \subseteq Refusable

(* The flags main clears only in its teardown. *)
Flags ==
  /\ pc \in {"open", "audio", "midi", "hid", "settle", "arm", "loop", "drain", "teardown"} =>
       running
  /\ pc \in {"open", "audio", "midi", "hid"} => hid_on

(* The transfers that were submitted when main is past their claim. *)
Claimed ==
  CASE pc = "midi" -> AudioPipes
    [] pc = "hid" -> AudioPipes \cup {"midi"}
    [] pc \in {"settle", "arm", "loop", "drain"} -> Pipes \ (IF hid_on THEN {} ELSE {"hid"})
    [] OTHER -> {}

PipesSoFar ==
  conn /\ ~do_quit => \A p \in Claimed : xfer[p] = "none" \/ xfer[p] = "dead" => p \in refused

(* After the cancellation nothing is in flight, and the first pump reaps all. *)
PumpsReap ==
  /\ pc = "pump" => ~running /\ \A p \in Pipes : xfer[p] # "flight"
  /\ pc = "pump" /\ count > 0 => \A p \in Pipes : ~Ready(p)

BridgeInv == FlagsTyped /\ CountTyped /\ XferTyped /\ Flags /\ PipesSoFar /\ PumpsReap

(* Audio transfers are not the two reads. *)
LEMMA PipeNames == \A p \in AudioPipes : p # "midi" /\ p # "hid"
BY BridgeAssumption

(* Before its service starts it, the bridge has nothing in flight. *)
LEMMA BridgeInit == Init => BridgeInv
<1> SUFFICES ASSUME Init PROVE BridgeInv
  OBVIOUS
<1>1. FlagsTyped
  BY DEF Init, FlagsTyped
<1>2. CountTyped
  BY DEF Init, CountTyped
<1>3. XferTyped
  BY DEF Init, XferTyped
<1>4. Flags /\ PipesSoFar /\ PumpsReap
  BY DEF Init, Flags, PipesSoFar, Claimed, PumpsReap
<1> QED
  BY <1>1, <1>2, <1>3, <1>4 DEF BridgeInv

(* main up to the arming: every claim adds its transfer. *)
LEMMA ClaimsKeepInv ==
  ASSUME BridgeInv, ServiceStart \/ Open \/ ClaimAudio \/ ClaimMidi \/ ClaimHid
  PROVE  BridgeInv'
<1> USE BridgeAssumption, PipeNames
    DEF BridgeInv, FlagsTyped, CountTyped, XferTyped, Flags, PipesSoFar, Claimed,
        PumpsReap, Goto, Exit, Submit, flags, mixerVars, transfers, Statuses
<1>1. CASE ServiceStart
  <2>1. FlagsTyped'
    BY <1>1 DEF ServiceStart
  <2>2. CountTyped'
    BY <1>1 DEF ServiceStart
  <2>3. XferTyped'
    BY <1>1 DEF ServiceStart
  <2>4. Flags'
    BY <1>1 DEF ServiceStart
  <2>5. PipesSoFar'
    BY <1>1 DEF ServiceStart
  <2>6. PumpsReap'
    BY <1>1 DEF ServiceStart
  <2> QED
    BY <2>1, <2>2, <2>3, <2>4, <2>5, <2>6
<1>2. CASE Open
  <2>1. FlagsTyped'
    BY <1>2 DEF Open
  <2>2. CountTyped'
    BY <1>2 DEF Open
  <2>3. XferTyped'
    BY <1>2 DEF Open
  <2>4. Flags'
    BY <1>2 DEF Open
  <2>5. PipesSoFar'
    BY <1>2 DEF Open
  <2>6. PumpsReap'
    BY <1>2 DEF Open
  <2> QED
    BY <2>1, <2>2, <2>3, <2>4, <2>5, <2>6
<1>3. CASE ClaimAudio
  <2>1. FlagsTyped'
    BY <1>3 DEF ClaimAudio, Pipes
  <2>2. CountTyped'
    BY <1>3 DEF ClaimAudio, Pipes
  <2>3. XferTyped'
    BY <1>3 DEF ClaimAudio, Pipes
  <2>4. Flags'
    BY <1>3 DEF ClaimAudio, Pipes
  <2>5. PipesSoFar'
    BY <1>3 DEF ClaimAudio, Pipes
  <2>6. PumpsReap'
    BY <1>3 DEF ClaimAudio, Pipes
  <2> QED
    BY <2>1, <2>2, <2>3, <2>4, <2>5, <2>6
<1>4. CASE ClaimMidi
  <2>1. FlagsTyped'
    BY <1>4 DEF ClaimMidi, Pipes
  <2>2. CountTyped'
    BY <1>4 DEF ClaimMidi, Pipes
  <2>3. XferTyped'
    BY <1>4 DEF ClaimMidi, Pipes
  <2>4. Flags'
    BY <1>4 DEF ClaimMidi, Pipes
  <2>5. PipesSoFar'
    BY <1>4 DEF ClaimMidi, Pipes
  <2>6. PumpsReap'
    BY <1>4 DEF ClaimMidi, Pipes
  <2> QED
    BY <2>1, <2>2, <2>3, <2>4, <2>5, <2>6
<1>5. CASE ClaimHid
  <2>1. FlagsTyped'
    BY <1>5 DEF ClaimHid, Pipes
  <2>2. CountTyped'
    BY <1>5 DEF ClaimHid, Pipes
  <2>3. XferTyped'
    BY <1>5 DEF ClaimHid, Pipes
  <2>4. Flags'
    BY <1>5 DEF ClaimHid, Pipes
  <2>5. PipesSoFar'
    BY <1>5 DEF ClaimHid, Pipes
  <2>6. PumpsReap'
    BY <1>5 DEF ClaimHid, Pipes
  <2> QED
    BY <2>1, <2>2, <2>3, <2>4, <2>5, <2>6
<1> QED
  BY <1>1, <1>2, <1>3, <1>4, <1>5

(* The arming, the loop and the teardown. *)
LEMMA LoopKeepsInv ==
  ASSUME BridgeInv,
         Settle \/ ArmStep \/ ArmDone \/ LoopQuit \/ Drain \/ Teardown \/ Pump \/ Close
  PROVE  BridgeInv'
<1> USE BridgeAssumption
    DEF BridgeInv, FlagsTyped, CountTyped, XferTyped, Flags, PipesSoFar, Claimed,
        PumpsReap, Goto, Exit, flags, mixerVars, transfers,
        Statuses, Ready, ArmSteps
<1>1. CASE Settle
  BY <1>1 DEF Settle
<1>2. CASE ArmStep
  <2>1. armok' \in BOOLEAN /\ armed' \in BOOLEAN
    BY <1>2 DEF ArmStep
  <2>2. FlagsTyped'
    BY <1>2, <2>1 DEF ArmStep
  <2>3. CountTyped' /\ XferTyped' /\ Flags' /\ PipesSoFar' /\ PumpsReap'
    BY <1>2 DEF ArmStep
  <2> QED
    BY <2>2, <2>3
<1>3. CASE ArmDone
  BY <1>3 DEF ArmDone
<1>4. CASE LoopQuit
  BY <1>4 DEF LoopQuit
<1>5. CASE Drain
  BY <1>5 DEF Drain
<1>6. CASE Teardown
  <2>1. FlagsTyped'
    BY <1>6 DEF Teardown
  <2>2. CountTyped'
    BY <1>6 DEF Teardown
  <2>3. XferTyped'
    BY <1>6 DEF Teardown
  <2>4. Flags'
    BY <1>6 DEF Teardown
  <2>5. PipesSoFar'
    BY <1>6 DEF Teardown
  <2>6. PumpsReap'
    BY <1>6 DEF Teardown
  <2> QED
    BY <2>1, <2>2, <2>3, <2>4, <2>5, <2>6
<1>7. CASE Pump
  BY <1>7 DEF Pump
<1>8. CASE Close
  <2>1. FlagsTyped'
    BY <1>8 DEF Close
  <2>2. CountTyped'
    BY <1>8 DEF Close
  <2>3. XferTyped'
    BY <1>8 DEF Close
  <2>4. Flags'
    BY <1>8 DEF Close
  <2>5. PipesSoFar'
    BY <1>8 DEF Close
  <2>6. PumpsReap'
    BY <1>8 DEF Close
  <2> QED
    BY <2>1, <2>2, <2>3, <2>4, <2>5, <2>6
<1> QED
  BY <1>1, <1>2, <1>3, <1>4, <1>5, <1>6, <1>7, <1>8

(* A callback takes its transfer away only when the bridge is about to end,   *)
(* the device is gone or libusb refuses it.                                   *)
LEMMA CallbackKeepsInv ==
  ASSUME BridgeInv, NEW q \in Pipes, Callback(q)
  PROVE  BridgeInv'
<1> USE BridgeAssumption
    DEF BridgeInv, FlagsTyped, CountTyped, XferTyped, Flags, PumpsReap, flags, mixerVars,
        Statuses, Ready, Callback, Submit, Drop, Flagged
<1>1. FlagsTyped' /\ CountTyped' /\ XferTyped'
  OBVIOUS
<1>2. Flags' /\ PumpsReap'
  BY DEF HandlesEvents
<1>3. PipesSoFar'
  <2> SUFFICES ASSUME conn, ~do_quit', NEW p \in Claimed, xfer'[p] \in {"none", "dead"}
               PROVE  p \in refused'
    BY DEF PipesSoFar, Claimed
  <2>1. p \in Pipes /\ (xfer[p] \in {"none", "dead"} => p \in refused)
    BY DEF PipesSoFar, Claimed, Pipes
  <2>2. CASE p # q
    BY <2>1, <2>2
  <2>3. CASE p = q
    <3>1. Flagged(p)
      BY <2>3 DEF Claimed, HandlesEvents
    <3> QED
      BY <2>1, <2>3, <3>1
  <2> QED
    BY <2>2, <2>3
<1> QED
  BY <1>1, <1>2, <1>3

(* The mixer, the user and signals break nothing. *)
LEMMA EnvironmentKeepsInv ==
  ASSUME BridgeInv, Environment
  PROVE  BridgeInv'
<1> USE BridgeAssumption
    DEF BridgeInv, FlagsTyped, CountTyped, XferTyped, Flags, PipesSoFar, Claimed,
        PumpsReap, flags, mixerVars, transfers, Statuses, Ready
<1>1. ASSUME NEW p \in Pipes, NEW status \in {"ok", "error"}, Complete(p, status) PROVE BridgeInv'
  BY <1>1 DEF Complete
<1>2. CASE Unplug
  BY <1>2 DEF Unplug
<1>3. CASE Plug
  BY <1>3 DEF Plug
<1>4. CASE Signal
  BY <1>4 DEF Signal
<1> QED
  BY <1>1, <1>2, <1>3, <1>4 DEF Environment

(* The inductive invariant holds in every reachable state of djm_midi. *)
THEOREM BridgeInvariant == Spec => []BridgeInv
<1>1. BridgeInv /\ [Next]_vars => BridgeInv'
  <2> SUFFICES ASSUME BridgeInv, [Next]_vars PROVE BridgeInv'
    OBVIOUS
  <2>1. CASE UNCHANGED vars
    BY <2>1 DEF BridgeInv, FlagsTyped, CountTyped, XferTyped, Flags, PipesSoFar, Claimed,
        PumpsReap, Ready, vars, mixerVars, flags, transfers
  <2> QED
    BY <2>1, ClaimsKeepInv, LoopKeepsInv, CallbackKeepsInv, EnvironmentKeepsInv DEF Next, Main
<1> QED
  BY BridgeInit, <1>1, PTL DEF Spec

(* The types hold, and no loop of main counts past its end. *)
THEOREM BridgeTypes == Spec => []TypeOK
<1>1. BridgeInv => TypeOK
  BY DEF BridgeInv, FlagsTyped, CountTyped, XferTyped, TypeOK
<1> QED
  BY BridgeInvariant, <1>1, PTL

(* No read is lost while the mixer stays attached (djm_midi.c:137-172), unless *)
(* libusb refused it, whatever audio transfers there are and whichever it may  *)
(* refuse.                                                                     *)
THEOREM ReadsAreKept == Spec => []PipesStayOpen
<1>1. BridgeInv => PipesStayOpen
  BY DEF BridgeInv, PipesSoFar, Claimed, PipesStayOpen
<1> QED
  BY BridgeInvariant, <1>1, PTL

(* Nothing is in flight when the handle is closed (djm_midi.c:259-268).       *)
THEOREM ClosesQuietly == Spec => []NothingInFlightAtClose
<1>1. BridgeInv => NothingInFlightAtClose
  BY DEF BridgeInv, XferTyped, PumpsReap, Ready, Statuses, NothingInFlightAtClose
<1> QED
  BY BridgeInvariant, <1>1, PTL

-----------------------------------------------------------------------------
(* FlattenSeq, one piece at a time *)

(* f holds, for each j up to n, the first j pieces of s put together. *)
Concatenations(s, n, f) == f = [j \in 1..n |-> IF j = 1 THEN s[j] ELSE f[j - 1] \o s[j]]

(* A set of naturals with a member has a least one: what the inductions stand on. *)
LEMMA LeastNat ==
  ASSUME NEW T \in SUBSET Nat, T # {}
  PROVE  \E m \in T : \A n \in T : m <= n
<1>1. PICK m \in T : \A n \in T : ~(<<n, m>> \in OpToRel(<, Nat))
  BY NatLessThanWellFounded, WFMin
<1>2. ASSUME NEW n \in T PROVE m <= n
  <2>1. ~(n < m)
    BY <1>1 DEF OpToRel
  <2> QED
    BY <2>1
<1> QED
  BY <1>2

(* The recursive function FlattenSeq is made of exists, by the least n for which it does not. *)
LEMMA ConcatenationsExist ==
  ASSUME NEW s, NEW N \in Nat
  PROVE  \E f : Concatenations(s, N, f)
<1> DEFINE T == {n \in Nat : ~ \E f : Concatenations(s, n, f)}
<1> SUFFICES ASSUME T # {} PROVE FALSE
  OBVIOUS
<1>1. PICK m \in T : \A n \in T : m <= n
  BY LeastNat
<1>2. m \in Nat /\ ~ \E f : Concatenations(s, m, f)
  OBVIOUS
<1>3. m # 0
  <2> DEFINE g == [j \in 1..0 |-> 0]
  <2>1. Concatenations(s, 0, g)
    BY DEF Concatenations
  <2> QED
    BY <1>2, <2>1
<1>4. m - 1 \in Nat /\ m - 1 \notin T
  BY <1>1, <1>2, <1>3
<1>5. PICK f : Concatenations(s, m - 1, f)
  BY <1>4
<1> DEFINE g == [j \in 1..m |-> IF j = 1 THEN s[j] ELSE f[j - 1] \o s[j]]
<1>6. \A j \in 1..(m - 1) : f[j] = g[j]
  <2> TAKE j \in 1..(m - 1)
  <2>1. j \in 1..m
    BY <1>2
  <2>2. f[j] = IF j = 1 THEN s[j] ELSE f[j - 1] \o s[j]
    BY <1>5 DEF Concatenations
  <2> QED
    BY <2>1, <2>2
<1>7. Concatenations(s, m, g)
  <2>1. \A j \in 1..m : j # 1 => j - 1 \in 1..(m - 1)
    BY <1>2
  <2>2. \A j \in 1..m : (IF j = 1 THEN s[j] ELSE f[j - 1] \o s[j]) =
                         (IF j = 1 THEN s[j] ELSE g[j - 1] \o s[j])
    BY <2>1, <1>6
  <2> HIDE DEF g
  <2>3. g = [j \in 1..m |-> IF j = 1 THEN s[j] ELSE f[j - 1] \o s[j]]
    BY DEF g
  <2> QED
    BY <2>2, <2>3 DEF Concatenations
<1> QED
  BY <1>2, <1>7

(* It is determined by the pieces, by the least index at which two of them differ. *)
LEMMA ConcatenationsAgree ==
  ASSUME NEW s, NEW t, NEW N \in Nat, NEW M \in Nat, N <= M, NEW f, NEW g,
         Concatenations(s, N, f), Concatenations(t, M, g), \A j \in 1..N : s[j] = t[j]
  PROVE  \A j \in 1..N : f[j] = g[j]
<1> DEFINE T == {n \in 1..N : f[n] # g[n]}
<1> SUFFICES ASSUME T # {} PROVE FALSE
  OBVIOUS
<1>0. T \in SUBSET Nat
  OBVIOUS
<1> HIDE DEF T
<1>1. PICK m \in T : \A n \in T : m <= n
  BY <1>0, LeastNat
<1>a. m \in 1..N /\ m \in 1..M
  BY DEF T
<1>2. m # 1 => f[m - 1] = g[m - 1]
  <2>1. m # 1 => m - 1 \in 1..N /\ m - 1 \notin T
    BY <1>1, <1>a
  <2> QED
    BY <2>1 DEF T
<1>3. f[m] = (IF m = 1 THEN s[m] ELSE f[m - 1] \o s[m])
  BY <1>a DEF Concatenations
<1>4. g[m] = (IF m = 1 THEN t[m] ELSE g[m - 1] \o t[m])
  BY <1>a DEF Concatenations
<1>5. s[m] = t[m] /\ f[m] # g[m]
  BY <1>a DEF T
<1> QED
  BY <1>2, <1>3, <1>4, <1>5

(* FlattenSeq is the last of the concatenations. *)
LEMMA FlattenIsLast ==
  ASSUME NEW S, NEW s \in Seq(S), Len(s) # 0, NEW f, Concatenations(s, Len(s), f)
  PROVE  FlattenSeq(s) = f[Len(s)]
<1> DEFINE g == CHOOSE g : g = [j \in 1..Len(s) |-> IF j = 1 THEN s[j] ELSE g[j - 1] \o s[j]]
<1>1. FlattenSeq(s) = g[Len(s)]
  BY DEF FlattenSeq
<1>2. Concatenations(s, Len(s), g)
  BY ConcatenationsExist DEF Concatenations
<1> QED
  BY <1>1, <1>2, ConcatenationsAgree

(* Nothing put together is nothing, ... *)
LEMMA FlattenEmpty == FlattenSeq(<<>>) = <<>>
BY DEF FlattenSeq

Agree(s, t, n) == \A j \in 1..n : s[j] = t[j]

(* One piece more is put behind the concatenation of the others. *)
LEMMA OneMore ==
  ASSUME NEW n \in Nat, NEW s, NEW t, Agree(s, t, n),
         NEW f, Concatenations(s, n, f), NEW g, Concatenations(t, n + 1, g)
  PROVE  /\ n = 0 => g[n + 1] = t[n + 1]
         /\ n # 0 => g[n + 1] = f[n] \o t[n + 1]
<1>1. n + 1 \in Nat /\ n + 1 \in 1..(n + 1) /\ (n + 1) - 1 = n /\ n <= n + 1
  OBVIOUS
<1>2. g[n + 1] = IF n + 1 = 1 THEN t[n + 1] ELSE g[n] \o t[n + 1]
  BY <1>1 DEF Concatenations
<1>3. \A j \in 1..n : f[j] = g[j]
  BY <1>1, ConcatenationsAgree DEF Agree
<1>4. n # 0 => g[n] = f[n]
  <2>1. n # 0 => n \in 1..n
    OBVIOUS
  <2> QED
    BY <1>3, <2>1
<1>5. (n = 0 <=> n + 1 = 1)
  OBVIOUS
<1> QED
  BY <1>2, <1>4, <1>5

(* ... a piece more goes to the end, ... *)
LEMMA FlattenAppend ==
  ASSUME NEW S, NEW s \in Seq(S), NEW e \in S, <<>> \o e = e
  PROVE  FlattenSeq(Append(s, e)) = FlattenSeq(s) \o e
<1>1. SUFFICES ASSUME NEW t \in Seq(S), t = Append(s, e), NEW n \in Nat, n = Len(s),
                      Len(t) = n + 1, t[n + 1] = e, \A j \in 1..n : s[j] = t[j]
               PROVE  FlattenSeq(t) = FlattenSeq(s) \o e
  <2>1. Append(s, e) \in Seq(S) /\ Len(Append(s, e)) = Len(s) + 1 /\ Len(s) \in Nat
    OBVIOUS
  <2>2. Append(s, e)[Len(s) + 1] = e /\ \A j \in 1..Len(s) : s[j] = Append(s, e)[j]
    OBVIOUS
  <2> QED
    BY <2>1, <2>2
<1>a. n + 1 \in Nat /\ n + 1 # 0
  OBVIOUS
<1>2. PICK g : Concatenations(t, n + 1, g)
  BY <1>a, ConcatenationsExist
<1>3. PICK f : Concatenations(s, n, f)
  BY ConcatenationsExist
<1>4. FlattenSeq(t) = g[n + 1]
  <2>1. Len(t) # 0 /\ Concatenations(t, Len(t), g)
    BY <1>1, <1>2, <1>a, Zenon
  <2> QED
    BY <1>1, <2>1, FlattenIsLast, Zenon
<1>5. g[n + 1] = IF n = 0 THEN e ELSE f[n] \o e
  <2>1. Agree(s, t, n)
    BY <1>1 DEF Agree
  <2>2. /\ n = 0 => g[n + 1] = t[n + 1]
        /\ n # 0 => g[n + 1] = f[n] \o t[n + 1]
    BY <2>1, <1>2, <1>3, OneMore, Zenon
  <2> QED
    BY <1>1, <2>2
<1>6. FlattenSeq(s) = IF n = 0 THEN <<>> ELSE f[n]
  <2>1. n = 0 => s = <<>>
    BY <1>1
  <2> QED
    BY <1>1, <1>3, <2>1, FlattenIsLast, FlattenEmpty
<1>7. <<>> \o e = e
  OBVIOUS
<1> QED
  BY <1>4, <1>5, <1>6, <1>7

(* ... and a single piece is itself. *)
LEMMA FlattenOne ==
  ASSUME NEW X, NEW e \in Seq(X)
  PROVE  FlattenSeq(<<e>>) = e
<1>1. <<>> \in Seq({e}) /\ <<e>> = Append(<<>>, e) /\ <<>> \o e = e
  OBVIOUS
<1> QED
  BY <1>1, FlattenAppend, FlattenEmpty

-----------------------------------------------------------------------------
(* The bytes of messages and packets *)

(* mlen against the lengths of the MIDI standard, for every status byte. *)
LEMMA StatusLengths ==
  ASSUME NEW s \in 128..255
  PROVE  /\ High(s) \in 8..15 /\ PackedLength(s) \in 1..3 /\ MessageLength(s) \in 0..3
         /\ MessageLength(s) > 0 => PackedLength(s) <= MessageLength(s)
         /\ s < 240 => High(s) < 15 /\ PackedLength(s) = MessageLength(s) /\ PackedLength(s) > 1
         /\ s >= 240 => High(s) = 15 /\ PackedLength(s) = 1
         /\ s > 247 => MessageLength(s) = 1
<1>1. High(s) \in 8..15 /\ (s < 240 => High(s) < 15) /\ (s >= 240 => High(s) = 15)
  BY DEF High
<1>2. PackedLength(s) \in 1..3 /\ MessageLength(s) \in 0..3
  BY DEF PackedLength, MessageLength
<1>3. CASE s < 240
  BY <1>1, <1>2, <1>3 DEF PackedLength, MessageLength
<1>4. CASE s >= 240
  BY <1>1, <1>2, <1>4 DEF PackedLength, MessageLength
<1> QED
  BY <1>1, <1>2, <1>3, <1>4

(* Bytes are numbers, data bytes lie below 128. *)
LEMMA ByteRanges ==
  /\ 0 \in Byte /\ \A x \in Byte : x \in Int /\ (x >= 128 => x \in 128..255)
  /\ \A x \in Data : x \in Byte /\ x < 128
BY CodecAssumption DEF Byte

(* Any number of data bytes is a sequence of them. *)
LEMMA DataShape ==
  ASSUME NEW k \in Nat, NEW d \in [1..k -> Data]
  PROVE  d \in Seq(Byte) /\ Len(d) = k /\ \A n \in 1..k : d[n] < 128
<1>1. \A n \in 1..k : d[n] \in Data
  OBVIOUS
<1>2. \A n \in 1..k : d[n] \in Byte /\ d[n] < 128
  BY <1>1, ByteRanges
<1>3. d \in [1..k -> Byte]
  BY <1>2
<1>4. d \in Seq(Byte) /\ Len(d) = k
  BY <1>3
<1> QED
  BY <1>2, <1>4

(* A whole message: its status byte, then as many data bytes as the standard says. *)
LEMMA MessageShape ==
  ASSUME NEW m \in Messages
  PROVE  /\ m \in Seq(Byte) /\ Len(m) = MessageLength(m[1]) /\ Len(m) \in 1..3
         /\ m[1] \in 128..255 /\ \A n \in 2..Len(m) : m[n] < 128
<1>1. PICK s \in Status : /\ MessageLength(s) > 0
                          /\ \E d \in [1..(MessageLength(s) - 1) -> Data] : m = <<s>> \o d
  BY DEF Messages
<1>2. PICK d \in [1..(MessageLength(s) - 1) -> Data] : m = <<s>> \o d
  BY <1>1
<1>3. s \in 128..255 /\ MessageLength(s) \in 1..3
  <2>1. s \in 128..255
    BY CodecAssumption
  <2>2. MessageLength(s) \in 0..3
    BY <2>1, StatusLengths
  <2> QED
    BY <1>1, <2>1, <2>2
<1>4. d \in Seq(Byte) /\ Len(d) = MessageLength(s) - 1 /\ \A n \in 1..Len(d) : d[n] < 128
  <2>1. MessageLength(s) - 1 \in Nat
    BY <1>3
  <2> QED
    BY <2>1, DataShape
<1>5. Len(m) = 1 + Len(d) /\ m[1] = s /\ \A n \in 2..Len(m) : m[n] = d[n - 1]
  BY <1>2, <1>4
<1>6. m \in Seq(Byte)
  BY <1>2, <1>3, <1>4 DEF Byte
<1> QED
  BY <1>3, <1>4, <1>5, <1>6

(* Status bytes of system exclusive data: at its ends, and messages of their own. *)
SingleBytes(m) ==
  \A n \in 1..Len(m) : m[n] >= 128 => (n = 1 \/ n = Len(m)) /\ PackedLength(m[n]) = 1

(* A byte or nothing before bytes below 128, and a byte or nothing behind them. *)
LEMMA BehindFirst ==
  ASSUME NEW f, f = <<>> \/ f = << 240 >>,
         NEW d \in Seq(Byte), \A n \in 1..Len(d) : d[n] < 128
  PROVE  /\ f \o d \in Seq(Byte)
         /\ \A n \in 1..Len(f \o d) : (f \o d)[n] >= 128 => n = 1 /\ PackedLength((f \o d)[n]) = 1
<1>1. CASE f = <<>>
  <2>1. f \o d = d
    BY <1>1
  <2>2. \A n \in 1..Len(d) : d[n] \in Int
    <3>1. \A n \in 1..Len(d) : d[n] \in Byte
      OBVIOUS
    <3> QED
      BY <3>1, ByteRanges
  <2> QED
    BY <2>1, <2>2
<1>2. CASE f = << 240 >>
  <2>0. PackedLength(240) = 1 /\ (<< 240 >> \o d)[1] = 240
    BY StatusLengths
  <2>1. << 240 >> \in Seq(Byte) /\ Len(<< 240 >>) = 1
    BY DEF Byte
  <2>2. << 240 >> \o d \in Seq(Byte) /\ Len(<< 240 >> \o d) = Len(d) + 1
        /\ \A n \in 2..(Len(d) + 1) : (<< 240 >> \o d)[n] = d[n - 1]
    BY <2>1
  <2>3. \A n \in 1..Len(d) : d[n] \in Int
    <3>1. \A n \in 1..Len(d) : d[n] \in Byte
      OBVIOUS
    <3> QED
      BY <3>1, ByteRanges
  <2>4. ASSUME NEW n \in 2..(Len(d) + 1) PROVE ~((<< 240 >> \o d)[n] >= 128)
    <3>1. n - 1 \in 1..Len(d)
      OBVIOUS
    <3> QED
      BY <2>2, <2>3, <3>1
  <2>5. \A n \in 1..(Len(d) + 1) : n = 1 \/ n \in 2..(Len(d) + 1)
    OBVIOUS
  <2> QED
    BY <1>2, <2>0, <2>2, <2>4, <2>5
<1> QED
  BY <1>1, <1>2

(* ... and a closing byte changes nothing of that. *)
LEMMA BeforeLast ==
  ASSUME NEW g \in Seq(Byte), \A n \in 1..Len(g) : g[n] >= 128 => n = 1 /\ PackedLength(g[n]) = 1,
         NEW l, l = <<>> \/ l = << 247 >>
  PROVE  g \o l \in Seq(Byte) /\ SingleBytes(g \o l)
<1>1. CASE l = <<>>
  <2>1. g \o l = g
    BY <1>1
  <2> QED
    BY <2>1 DEF SingleBytes
<1>2. CASE l = << 247 >>
  <2>1. 247 \in Byte /\ PackedLength(247) = 1
    BY StatusLengths DEF Byte
  <2>2. g \o l = Append(g, 247)
    BY <1>2, <2>1
  <2>3. Append(g, 247) \in Seq(Byte) /\ Len(Append(g, 247)) = Len(g) + 1
        /\ Append(g, 247)[Len(g) + 1] = 247
        /\ \A n \in 1..Len(g) : Append(g, 247)[n] = g[n]
    BY <2>1
  <2>4. \A n \in 1..(Len(g) + 1) : n \in 1..Len(g) \/ n = Len(g) + 1
    OBVIOUS
  <2> QED
    BY <2>1, <2>2, <2>3, <2>4 DEF SingleBytes
<1> QED
  BY <1>1, <1>2

(* A piece of system exclusive data is such a sequence. *)
LEMMA SysExShape ==
  ASSUME NEW m \in SysExPieces
  PROVE  m \in Seq(Byte) /\ Len(m) >= 1 /\ SingleBytes(m)
<1>1. PICK f \in Ends(240), d \in BoundedSeq(Data, MaxSysEx), l \in Ends(247) :
        m = f \o d \o l /\ m # <<>>
  BY DEF SysExPieces
<1>2. (f = <<>> \/ f = << 240 >>) /\ (l = <<>> \/ l = << 247 >>)
  BY DEF Ends
<1>3. d \in Seq(Byte) /\ \A n \in 1..Len(d) : d[n] < 128
  <2>1. \E k \in 0..MaxSysEx : d \in [1..k -> Data]
    BY DEF BoundedSeq, SeqOf
  <2> QED
    BY <2>1, DataShape, CodecAssumption
<1>4. /\ f \o d \in Seq(Byte)
      /\ \A n \in 1..Len(f \o d) :
           (f \o d)[n] >= 128 => n = 1 /\ PackedLength((f \o d)[n]) = 1
  BY <1>2, <1>3, BehindFirst
<1>5. m \in Seq(Byte) /\ SingleBytes(m)
  <2> DEFINE g == f \o d
  <2>1. g \in Seq(Byte) /\ \A n \in 1..Len(g) : g[n] >= 128 => n = 1 /\ PackedLength(g[n]) = 1
    BY <1>4
  <2>2. m = g \o l
    BY <1>1
  <2> HIDE DEF g
  <2>3. g \o l \in Seq(Byte) /\ SingleBytes(g \o l)
    BY <2>1, <1>2, BeforeLast
  <2> QED
    BY <2>2, <2>3
<1> QED
  BY <1>1, <1>5

(* A message that is carried is as long as send_to_device takes it to be. *)
LEMMA CarriedShape ==
  ASSUME NEW m, Carried(m)
  PROVE  m \in Seq(Byte) /\ m[1] \in 128..255 /\ Len(m) = PackedLength(m[1])
<1>1. m \in Messages /\ (m[1] < 240 \/ Len(m) = 1)
  BY DEF Carried
<1>2. m \in Seq(Byte) /\ Len(m) = MessageLength(m[1]) /\ m[1] \in 128..255
  BY <1>1, MessageShape
<1>3. Len(m) = PackedLength(m[1])
  <2> DEFINE s == m[1]
  <2>1. s \in 128..255 /\ Len(m) = MessageLength(s) /\ (s < 240 \/ Len(m) = 1)
    BY <1>1, <1>2
  <2> HIDE DEF s
  <2>2. s < 240 => PackedLength(s) = MessageLength(s)
    BY <2>1, StatusLengths
  <2>3. s >= 240 => PackedLength(s) = 1
    BY <2>1, StatusLengths
  <2>4. Len(m) = PackedLength(s)
    BY <2>1, <2>2, <2>3
  <2> QED
    BY <2>4 DEF s
<1> QED
  BY <1>2, <1>3

(* A packet taken apart gives the bytes that were packed. *)
LEMMA PackedBytes ==
  ASSUME NEW s \in 128..255, NEW a \in Byte, NEW b \in Byte, NEW c \in 0..15,
         NEW p, p = <<c * 16 + High(s), s, a, b>>
  PROVE  p \in [1..4 -> Byte] /\ Bytes(p) = SubSeq(p, 2, 1 + PackedLength(s))
<1>1. High(s) \in 8..15 /\ p[1] = c * 16 + High(s) /\ p[1] % 16 = High(s) /\ p # <<0, 0, 0, 0>>
  BY StatusLengths
<1>2. p \in [1..4 -> Byte]
  BY <1>1 DEF Byte
<1>3. CinLength[High(s) + 1] = PackedLength(s)
  BY <1>1 DEF CinLength, PackedLength
<1> QED
  BY <1>1, <1>2, <1>3 DEF Bytes

(* The code index of a packet is the high nibble of its status byte, 15 included. *)
LEMMA CinIsHigh == \A s \in 128..255 : CinOf(s) = High(s)
BY StatusLengths DEF CinOf

(* The packet send_to_device builds: cable 0, and its own bytes come back. *)
LEMMA CableZero ==
  ASSUME NEW s \in 128..255, NEW a \in Byte, NEW b \in Byte, NEW p, p = <<CinOf(s), s, a, b>>
  PROVE  p \in [1..4 -> Byte] /\ Bytes(p) = SubSeq(p, 2, 1 + PackedLength(s)) /\ p[1] < 16
<1>1. CinOf(s) = High(s) /\ High(s) \in 8..15
  BY CinIsHigh, StatusLengths
<1>2. 0 \in 0..15 /\ 0 * 16 + High(s) = CinOf(s)
  BY <1>1
<1>3. p = <<0 * 16 + High(s), s, a, b>>
  BY <1>2
<1>4. p \in [1..4 -> Byte] /\ Bytes(p) = SubSeq(p, 2, 1 + PackedLength(s))
  BY <1>2, <1>3, PackedBytes
<1>5. p[1] < 16
  BY <1>1
<1> QED
  BY <1>4, <1>5

(* A carried message fits one packet and comes back whole. *)
LEMMA CarriedWhole ==
  ASSUME NEW m, Carried(m), NEW p, NEW a, NEW b, p \in [1..4 -> Byte],
         p = <<CinOf(m[1]), m[1], a, b>>,
         Bytes(p) = SubSeq(p, 2, 1 + PackedLength(m[1])),
         PackedLength(m[1]) > 1 => a = m[2], PackedLength(m[1]) > 2 => b = m[3]
  PROVE  Bytes(p) = m
<1>1. m \in Seq(Byte) /\ m[1] \in 128..255 /\ Len(m) = PackedLength(m[1])
  BY CarriedShape
<1> DEFINE n == PackedLength(m[1])
<1>2. n \in 1..3
  BY <1>1, StatusLengths
<1>3. \A j \in 1..n : p[j + 1] = m[j]
  <2>1. p[2] = m[1] /\ (n > 1 => p[3] = m[2]) /\ (n > 2 => p[4] = m[3])
    OBVIOUS
  <2> HIDE DEF n
  <2>2. \A j \in 1..n : j = 1 \/ (j = 2 /\ n > 1) \/ (j = 3 /\ n > 2)
    BY <1>2
  <2> QED
    BY <2>1, <2>2
<1>4. p \in Seq(Byte) /\ Len(p) = 4
  OBVIOUS
<1> HIDE DEF n
<1>5. SubSeq(p, 2, 1 + n) \in Seq(Byte) /\ Len(SubSeq(p, 2, 1 + n)) = n
      /\ \A j \in 1..n : SubSeq(p, 2, 1 + n)[j] = p[j + 1]
  BY <1>2, <1>4
<1>6. SubSeq(p, 2, 1 + n) = m
  <2>1. Len(m) = n
    BY <1>1 DEF n
  <2>2. \A j \in 1..n : SubSeq(p, 2, 1 + n)[j] = m[j]
    BY <1>3, <1>5
  <2> QED
    BY <1>1, <1>5, <2>1, <2>2, SeqEqual
<1> QED
  BY <1>6 DEF n

(* The table of the code agrees with the MIDI standard on the mixer's packets. *)
LEMMA MixerPacketBytes ==
  ASSUME NEW p \in MixerPackets
  PROVE  p \in [1..4 -> Byte] /\ Bytes(p) = StandardBytes(p) /\ Bytes(p) \in Seq(Byte)
<1>1. CASE p = <<0, 0, 0, 0>>
  BY <1>1 DEF Bytes, StandardBytes, Byte
<1>2. CASE p # <<0, 0, 0, 0>>
  <2>1. PICK c \in Cable, s \in Status, d \in Data, e \in Data :
          (s < 240 \/ s > 247) /\ p = <<c * 16 + High(s), s, d, e>>
    BY <1>2 DEF MixerPackets
  <2>2. c \in 0..15 /\ s \in 128..255 /\ d \in Byte /\ e \in Byte /\ p[2] = s
    BY <2>1, CodecAssumption DEF Byte
  <2>3. p \in [1..4 -> Byte] /\ Bytes(p) = SubSeq(p, 2, 1 + PackedLength(s))
    <3>1. \A q : q = <<c * 16 + High(s), s, d, e>> =>
                 q \in [1..4 -> Byte] /\ Bytes(q) = SubSeq(q, 2, 1 + PackedLength(s))
      BY <2>2, PackedBytes
    <3> QED
      BY <2>1, <3>1
  <2>4. PackedLength(s) = MessageLength(s) /\ PackedLength(s) \in 1..3
    BY <2>1, <2>2, StatusLengths
  <2>5. p \in Seq(Byte) /\ Len(p) = 4
    BY <2>1, <2>3
  <2>6. SubSeq(p, 2, 1 + PackedLength(s)) \in Seq(Byte)
    <3>1. 2 \in Int /\ 1 + PackedLength(s) \in Int
          /\ \A j \in 2..(1 + PackedLength(s)) : j \in 1..4
      BY <2>4
    <3>2. \A j \in 2..(1 + PackedLength(s)) : p[j] \in Byte
      BY <2>3, <3>1, Zenon
    <3> QED
      BY <3>1, <3>2, SubSeqProperties, Zenon
  <2> QED
    BY <1>2, <2>2, <2>3, <2>4, <2>6 DEF StandardBytes
<1> QED
  BY <1>1, <1>2

-----------------------------------------------------------------------------
(* What is packed so far: status bytes stand at the ends of an event, so that *)
(* it takes two packets at most; a carried message takes one and all of it.   *)
Packing ==
  at = "pack" =>
    /\ midi \in Messages \cup SysExPieces
    /\ i \in 1..(Len(midi) + 1)
    /\ \A j \in 1..Len(pkt) : pkt[j][1] < 16
    /\ Len(pkt) <= (IF i = 1 THEN 0 ELSE IF i <= Len(midi) THEN 1 ELSE 2)
    /\ Carried(midi) => \/ i = 1
                        \/ i = Len(midi) + 1 /\ Len(pkt) = 1 /\ Bytes(pkt[1]) = midi
(* What is parsed so far. *)
Parsing ==
  at = "parse" =>
    /\ Len(pkt) <= MaxIn /\ i \in 1..(Len(pkt) + 1)
    /\ \A j \in 1..Len(pkt) : pkt[j] \in MixerPackets
    /\ out = FlattenSeq([j \in 1..(i - 1) |-> StandardBytes(pkt[j])])
(* The buffers are the loop's own, and empty between two of them. *)
Buffers ==
  /\ at \in {"wait", "pack", "parse"}
  /\ pkt \in Seq([1..4 -> Byte]) /\ out \in Seq(Byte)
  /\ at # "pack" => midi = <<>>
  /\ at = "wait" => i = 1
(* The inductive invariant of the two conversions. *)
ConvInv == Buffers /\ Packing /\ Parsing

(* Before any event or transfer. *)
LEMMA ConvInitOK == ConvInit => ConvInv
BY DEF ConvInit, ConvInv, Buffers, Packing, Parsing

(* An event has bytes, and the loop never runs past its end. *)
LEMMA EventShape ==
  ASSUME NEW m \in Messages \cup SysExPieces
  PROVE  m \in Seq(Byte) /\ Len(m) >= 1
BY MessageShape, SysExShape

(* A packed message ends inside its event, and starts it or is its last byte. *)
LEMMA PackStaysInside ==
  ASSUME NEW m \in Messages \cup SysExPieces, NEW n \in 1..Len(m), NEW s, s = m[n], s >= 128
  PROVE  /\ s \in 128..255 /\ n + PackedLength(s) <= Len(m) + 1
         /\ n = 1 \/ n = Len(m)
<1>1. m \in Seq(Byte)
  BY EventShape
<1>2. s \in Byte
  BY <1>1
<1>3. s \in 128..255
  BY <1>2, ByteRanges
<1>4. CASE m \in Messages
  <2>1. Len(m) = MessageLength(m[1]) /\ Len(m) \in 1..3 /\ \A j \in 2..Len(m) : m[j] < 128
    BY <1>4, MessageShape
  <2>2. n = 1
    <3> SUFFICES ASSUME n # 1 PROVE FALSE
      OBVIOUS
    <3>1. n \in 2..Len(m)
      BY <2>1
    <3>2. s < 128
      BY <2>1, <3>1
    <3> QED
      BY <1>3, <3>2
  <2>3. Len(m) = MessageLength(s)
    BY <2>1, <2>2
  <2>4. MessageLength(s) > 0 => PackedLength(s) <= MessageLength(s)
    BY <1>3, StatusLengths
  <2>5. PackedLength(s) \in 1..3
    BY <1>3, StatusLengths
  <2> HIDE <1>1
  <2> QED
    BY <1>3, <2>1, <2>2, <2>3, <2>4, <2>5
<1>5. CASE m \in SysExPieces
  <2>1. SingleBytes(m) /\ Len(m) \in Nat
    BY <1>5, SysExShape
  <2>2. (n = 1 \/ n = Len(m)) /\ PackedLength(s) = 1
    BY <2>1 DEF SingleBytes
  <2> QED
    BY <1>3, <2>1, <2>2
<1> QED
  BY <1>4, <1>5

(* drain_seq_input hands over an event. *)
LEMMA EventTaken ==
  ASSUME DrainSeqInput
  PROVE  ConvInv'
<1>1. midi' \in Messages \cup SysExPieces /\ at' = "pack" /\ i' = 1 /\ pkt' = <<>> /\ out' = <<>>
  BY DEF DrainSeqInput
<1>2. midi' \in Seq(Byte) /\ Len(midi') >= 1
  BY <1>1, EventShape
<1>3. i' \in 1..(Len(midi') + 1)
  BY <1>1, <1>2
<1>4. Packing'
  BY <1>1, <1>3 DEF Packing
<1> QED
  BY <1>1, <1>4 DEF ConvInv, Buffers, Parsing

(* A stray data byte is not the start of a carried message. *)
LEMMA StraySkipped ==
  ASSUME ConvInv, SkipStray
  PROVE  ConvInv'
<1>1. at = "pack" /\ i <= Len(midi) /\ midi[i] < 128 /\ i' = i + 1
      /\ at' = at /\ midi' = midi /\ pkt' = pkt /\ out' = out
  BY DEF SkipStray, More
<1>2. midi \in Seq(Byte) /\ Len(midi) >= 1 /\ i \in 1..Len(midi)
  BY <1>1, EventShape DEF ConvInv, Packing
<1>3. Carried(midi) => i # 1
  <2>1. Carried(midi) => midi[1] >= 128
    <3>1. ASSUME Carried(midi) PROVE midi[1] \in 128..255
      BY <3>1, CarriedShape
    <3> HIDE <1>2
    <3> QED
      BY <3>1
  <2> QED
    BY <1>1, <2>1, <1>2, ByteRanges
<1>4. i' \in 1..(Len(midi') + 1) /\ i' # 1
  BY <1>1, <1>2
<1>5. ~Carried(midi)
  BY <1>1, <1>2, <1>3 DEF ConvInv, Packing
<1>6. Len(pkt') <= (IF i' = 1 THEN 0 ELSE IF i' <= Len(midi') THEN 1 ELSE 2)
  BY <1>1, <1>2 DEF ConvInv, Packing
<1>7. Packing'
  BY <1>1, <1>4, <1>5, <1>6 DEF ConvInv, Packing, Carried
<1> QED
  BY <1>1, <1>7 DEF ConvInv, Buffers, Parsing

(* One round of the packing loop. *)
LEMMA MessagePacked ==
  ASSUME ConvInv, Pack
  PROVE  ConvInv'
<1>1. PICK s, a, b, p :
        /\ at = "pack" /\ i <= Len(midi) /\ s = midi[i] /\ s >= 128
        /\ a = (IF PackedLength(s) > 1 /\ i + 1 <= Len(midi) THEN midi[i + 1] ELSE 0)
        /\ b = (IF PackedLength(s) > 2 /\ i + 2 <= Len(midi) THEN midi[i + 2] ELSE 0)
        /\ p = <<CinOf(s), s, a, b>>
        /\ pkt' = Append(pkt, p) /\ i' = i + PackedLength(s)
        /\ at' = at /\ midi' = midi /\ out' = out
  BY DEF Pack, More
<1>2. midi \in Messages \cup SysExPieces
  BY <1>1 DEF ConvInv, Packing
<1>3. midi \in Seq(Byte) /\ Len(midi) >= 1 /\ i \in 1..Len(midi)
  BY <1>1, <1>2, EventShape DEF ConvInv, Packing
<1>4. s \in 128..255 /\ i + PackedLength(s) <= Len(midi) + 1 /\ (i = 1 \/ i = Len(midi))
  BY <1>1, <1>2, <1>3, PackStaysInside
<1>5. a \in Byte /\ b \in Byte
  <2>1. i + 1 <= Len(midi) => midi[i + 1] \in Byte
    BY <1>3
  <2>2. i + 2 <= Len(midi) => midi[i + 2] \in Byte
    BY <1>3
  <2> QED
    BY <1>1, <2>1, <2>2, ByteRanges
<1>6. p \in [1..4 -> Byte] /\ Bytes(p) = SubSeq(p, 2, 1 + PackedLength(s)) /\ p[1] < 16
  <2>1. s \in 128..255 /\ p = <<CinOf(s), s, a, b>>
    BY <1>1, <1>4
  <2> QED
    BY <1>5, <2>1, CableZero, Zenon
<1>7. PackedLength(s) \in 1..3
  BY <1>4, StatusLengths
<1>8. /\ pkt' \in Seq([1..4 -> Byte]) /\ Len(pkt') = Len(pkt) + 1
      /\ pkt'[Len(pkt) + 1] = p /\ \A j \in 1..Len(pkt) : pkt'[j] = pkt[j]
  <2>1. pkt \in Seq([1..4 -> Byte])
    BY DEF ConvInv, Buffers
  <2> QED
    BY <1>1, <1>6, <2>1
<1>9. ASSUME Carried(midi)
      PROVE  i' = Len(midi) + 1 /\ Len(pkt') = 1 /\ Bytes(p) = midi
  <2>1. i = 1 /\ Len(pkt) = 0
    BY <1>1, <1>3, <1>9 DEF ConvInv, Packing, Buffers
  <2>2. Len(midi) = PackedLength(s)
    BY <1>1, <1>9, <2>1, CarriedShape
  <2>3. Bytes(p) = midi
    <3>1. /\ s = midi[1]
          /\ (PackedLength(s) > 1 => a = midi[2]) /\ (PackedLength(s) > 2 => b = midi[3])
      BY <1>1, <1>3, <1>7, <2>1, <2>2
    <3>2. p = <<CinOf(midi[1]), midi[1], a, b>>
      BY <1>1, <3>1
    <3> QED
      BY <1>6, <1>9, <3>1, <3>2, CarriedWhole
  <2> QED
    BY <1>1, <1>7, <1>8, <2>1, <2>2, <2>3
<1>10. pkt \in Seq([1..4 -> Byte]) /\ out \in Seq(Byte)
       /\ Len(pkt) <= (IF i = 1 THEN 0 ELSE IF i <= Len(midi) THEN 1 ELSE 2)
       /\ \A j \in 1..Len(pkt) : pkt[j][1] < 16
  BY <1>1 DEF ConvInv, Buffers, Packing
<1>11. i' \in 1..(Len(midi) + 1) /\ i' # 1
       /\ Len(pkt') <= (IF i' = 1 THEN 0 ELSE IF i' <= Len(midi) THEN 1 ELSE 2)
  <2>1. Len(pkt) \in Nat /\ Len(midi) \in Nat
    BY <1>3, <1>10
  <2>2. i' = i + PackedLength(s) /\ PackedLength(s) \in Nat /\ PackedLength(s) >= 1
    BY <1>1, <1>7
  <2>3. CASE i = 1
    BY <1>3, <1>4, <1>8, <1>10, <2>1, <2>2, <2>3
  <2>4. CASE i # 1
    BY <1>3, <1>4, <1>8, <1>10, <2>1, <2>2, <2>4
  <2> QED
    BY <2>3, <2>4
<1>12. \A j \in 1..Len(pkt') : pkt'[j][1] < 16
  <2>1. \A j \in 1..Len(pkt') : j \in 1..Len(pkt) \/ j = Len(pkt) + 1
    BY <1>8, <1>10
  <2> QED
    BY <1>6, <1>8, <1>10, <2>1
<1>13. Carried(midi') => i' = Len(midi') + 1 /\ Len(pkt') = 1 /\ Bytes(pkt'[1]) = midi'
  <2>1. Carried(midi') <=> Carried(midi)
    BY <1>1
  <2>2. Carried(midi) => Len(pkt) + 1 = 1
    BY <1>8, <1>9
  <2> QED
    BY <1>1, <1>8, <1>9, <2>1, <2>2
<1>14. Packing'
  BY <1>1, <1>2, <1>11, <1>12, <1>13 DEF Packing
<1> QED
  BY <1>1, <1>8, <1>10, <1>14 DEF ConvInv, Buffers, Parsing

(* The packets are written. *)
LEMMA PacketsWritten ==
  ASSUME ConvInv, Write
  PROVE  ConvInv'
BY DEF Write, ConvInv, Buffers, Packing, Parsing

(* A transfer of the mixer completes. *)
LEMMA TransferCompleted ==
  ASSUME ConvInv, Completed
  PROVE  ConvInv'
<1>1. PICK n \in 1..MaxIn : pkt' \in [1..n -> MixerPackets]
  BY DEF Completed
<1>2. at' = "parse" /\ i' = 1 /\ out' = <<>> /\ midi' = <<>>
  BY DEF Completed, ConvInv, Buffers
<1>3. n \in Nat /\ n <= MaxIn
  BY CodecAssumption
<1>4. pkt' \in [1..n -> [1..4 -> Byte]] /\ \A j \in 1..n : pkt'[j] \in MixerPackets
  BY <1>1, MixerPacketBytes
<1>5. pkt' \in Seq([1..4 -> Byte]) /\ Len(pkt') = n
  BY <1>3, <1>4
<1>6. out' = FlattenSeq([j \in 1..(i' - 1) |-> StandardBytes(pkt'[j])])
  <2>1. [j \in 1..(i' - 1) |-> StandardBytes(pkt'[j])] = <<>>
    BY <1>2
  <2> QED
    BY <1>2, <2>1, FlattenEmpty
<1>7. Parsing'
  BY <1>2, <1>3, <1>4, <1>5, <1>6 DEF Parsing
<1>8. Packing'
  BY <1>2 DEF Packing
<1> QED
  BY <1>2, <1>5, <1>7, <1>8 DEF ConvInv, Buffers

(* One round of the parsing loop appends the packet's message. *)
LEMMA PacketParsed ==
  ASSUME ConvInv, Parse
  PROVE  ConvInv'
<1> DEFINE T(n, q) == [j \in 1..n |-> StandardBytes(q[j])]
<1>1. at = "parse" /\ i <= Len(pkt) /\ out' = out \o Bytes(pkt[i]) /\ i' = i + 1
      /\ at' = at /\ midi' = midi /\ pkt' = pkt
  BY DEF Parse
<1>2. pkt \in Seq([1..4 -> Byte]) /\ out \in Seq(Byte) /\ i \in 1..Len(pkt) /\ midi = <<>>
      /\ Len(pkt) <= MaxIn /\ (\A j \in 1..Len(pkt) : pkt[j] \in MixerPackets)
      /\ out = FlattenSeq(T(i - 1, pkt))
  BY <1>1 DEF ConvInv, Buffers, Parsing
<1>3. Bytes(pkt[i]) = StandardBytes(pkt[i]) /\ Bytes(pkt[i]) \in Seq(Byte)
  BY <1>2, MixerPacketBytes
<1>4. \A j \in 1..i : StandardBytes(pkt[j]) \in Seq(Byte)
  <2>1. \A j \in 1..i : j \in 1..Len(pkt)
    BY <1>2
  <2> QED
    BY <1>2, <2>1, MixerPacketBytes
<1>5. T(i, pkt) = Append(T(i - 1, pkt), StandardBytes(pkt[i]))
  BY <1>2
<1>6. T(i - 1, pkt) \in Seq(Seq(Byte))
  BY <1>2, <1>4
<1>7. FlattenSeq(T(i, pkt)) = FlattenSeq(T(i - 1, pkt)) \o StandardBytes(pkt[i])
  <2>1. <<>> \o StandardBytes(pkt[i]) = StandardBytes(pkt[i])
    BY <1>3
  <2> HIDE DEF T
  <2> QED
    BY <1>3, <1>5, <1>6, <2>1, FlattenAppend
<1>8. out' \in Seq(Byte) /\ out' = FlattenSeq(T(i' - 1, pkt'))
  <2>1. i' - 1 = i
    BY <1>1, <1>2
  <2>2. out \o Bytes(pkt[i]) \in Seq(Byte)
    BY <1>2, <1>3
  <2> HIDE DEF T
  <2> QED
    BY <1>1, <1>2, <1>3, <1>7, <2>1, <2>2
<1>9. i' \in 1..(Len(pkt') + 1)
  BY <1>1, <1>2
<1> QED
  BY <1>1, <1>2, <1>8, <1>9 DEF ConvInv, Buffers, Packing, Parsing

(* The transfer is taken apart. *)
LEMMA TransferDone ==
  ASSUME ConvInv, ParseDone
  PROVE  ConvInv'
BY DEF ParseDone, ConvInv, Buffers, Packing, Parsing

(* Every step of the two loops keeps the invariant. *)
THEOREM ConversionsInvariant == ConvSpec => []ConvInv
<1>1. ConvInv /\ [ConvNext]_convVars => ConvInv'
  <2> SUFFICES ASSUME ConvInv, [ConvNext]_convVars PROVE ConvInv'
    OBVIOUS
  <2>1. CASE UNCHANGED convVars
    BY <2>1 DEF convVars, ConvInv, Buffers, Packing, Parsing, Carried
  <2> QED
    BY <2>1, EventTaken, StraySkipped, MessagePacked, PacketsWritten, TransferCompleted,
       PacketParsed, TransferDone DEF ConvNext
<1> QED
  BY <1>1, ConvInitOK, PTL DEF ConvSpec

(* ConvTypeOK for every status and data byte, every event size and transfer size. *)
THEOREM ConversionTypes == ConvSpec => []ConvTypeOK
<1>1. ConvInv => ConvTypeOK
  <2> SUFFICES ASSUME ConvInv PROVE ConvTypeOK
    OBVIOUS
  <2>1. midi \in Seq(Byte) /\ Len(midi) \in Nat
    <3>1. CASE at = "pack"
      BY <3>1, EventShape DEF ConvInv, Packing
    <3>2. CASE at # "pack"
      BY <3>2 DEF ConvInv, Buffers
    <3> QED
      BY <3>1, <3>2
  <2>2. i \in 1..(Len(midi) + MaxIn + 2)
    BY <2>1, CodecAssumption DEF ConvInv, Buffers, Packing, Parsing
  <2>3. \A j \in DOMAIN pkt : pkt[j] \in [1..4 -> Byte] /\ (at = "pack" => pkt[j][1] < 16)
    BY DEF ConvInv, Buffers, Packing
  <2> QED
    BY <2>1, <2>2, <2>3 DEF ConvInv, Buffers, ConvTypeOK
<1> QED
  BY <1>1, ConversionsInvariant, PTL

(* What send_to_device packs is the message, whole and once (djm_midi.c:103-106, 109). *)
THEOREM MessagesComeThrough == ConvSpec => []MessagesRoundTrip
<1>1. ConvInv => MessagesRoundTrip
  <2> SUFFICES ASSUME ConvInv, at = "pack", ~More
               PROVE  /\ i > Len(midi)
                      /\ Carried(midi) => FlattenSeq([j \in DOMAIN pkt |-> Bytes(pkt[j])]) = midi
    BY DEF MessagesRoundTrip
  <2>1. midi \in Seq(Byte) /\ Len(midi) >= 1 /\ pkt \in Seq([1..4 -> Byte])
    BY EventShape DEF ConvInv, Buffers, Packing
  <2>2. i > Len(midi)
    BY <2>1, CodecAssumption DEF More, ConvInv, Packing
  <2>3. ASSUME Carried(midi) PROVE FlattenSeq([j \in DOMAIN pkt |-> Bytes(pkt[j])]) = midi
    <3>1. Len(pkt) = 1 /\ Bytes(pkt[1]) = midi
      BY <2>1, <2>2, <2>3 DEF ConvInv, Packing
    <3>2. [j \in DOMAIN pkt |-> Bytes(pkt[j])] = <<midi>>
      BY <2>1, <3>1
    <3> QED
      BY <2>1, <3>2, FlattenOne
  <2> QED
    BY <2>2, <2>3
<1> QED
  BY <1>1, ConversionsInvariant, PTL

(* What midi_cb hands on is what the mixer sent, in order (djm_midi.c:74). *)
THEOREM MixerIsHeard == ConvSpec => []MixerMessagesArrive
<1>1. ConvInv => MixerMessagesArrive
  BY DEF ConvInv, Parsing, MixerMessagesArrive
<1> QED
  BY <1>1, ConversionsInvariant, PTL
=============================================================================
