-------------------------- MODULE IsoEngineProofs ---------------------------
(***************************************************************************)
(* What IsoEngine promises, for any number of transfers, packets and       *)
(* frames.  Four invariants, each resting on the ones before it:           *)
(*                                                                         *)
(*   Control     who can be where in each phase of main, the types, and    *)
(*               the room each pending ring call was granted;              *)
(*   Accounted   inflight counts the transfers, each in one place;         *)
(*   Kept        no transfer goes missing without a refusal or an unplug;  *)
(*   Escaped     what a callback may submit behind the cancellation.       *)
(***************************************************************************)
EXTENDS IsoEngine, FiniteSetTheorems, TLAPS

-----------------------------------------------------------------------------
(* Control *)

(* Clients exist only between MakeStreams and the end of the "destroy" phase, *)
(* the thread only between pthread_create and pthread_join, and running is    *)
(* set from the start until djmt1_iso_stop.                                   *)
Phases ==
  /\ mpc \notin {"up", "destroy"} => streams = {}
  /\ "monitor" \in streams => mpc = "up"
  /\ mpc \in {"off", "submit", "free"} => tpc = "none"
  /\ running <=> mpc \in {"submit", "started", "up", "destroy"}
  /\ mpc \in {"submit", "cancel"} => mi >= 1
  /\ mpc = "off" => ~valid /\ wire = {} /\ done = {} /\ inflight = 0

(* A client is inside a call only as long as it exists. *)
CallHasClient ==
  /\ dpc \in {"source", "sink"} => dpc \in streams
  /\ dpc \in {"monitor_read", "monitor_write"} => "monitor" \in streams

(* The thread is in a callback exactly where it has a transfer. *)
CallbackHasTransfer ==
  /\ InCallback <=> tpc \in {"packets", "write", "fill", "take", "check", "resubmit", "giveup"}
  /\ tpc = "write" => pk > 0

(* The other side of a ring only makes room for a granted call. *)
GrantsHold ==
  /\ tpc = "write" => k <= RingFrames - capLen
  /\ tpc = "take" => k <= playLen
  /\ dpc \in {"source", "monitor_read"} => dk <= capLen
  /\ dpc \in {"sink", "monitor_write"} => dk <= RingFrames - playLen

(* TypeOK, but for inflight being natural, which is part of Accounted. *)
Types ==
  /\ mpc \in {"off", "submit", "started", "up", "destroy", "cancel", "free"}
  /\ mi \in 0..(2 * NXFR + 1) /\ running \in BOOLEAN
  /\ streams \subseteq {"source", "sink", "monitor"}
  /\ valid \in BOOLEAN /\ refused \in BOOLEAN
  /\ wire \subseteq Transfers /\ done \subseteq Transfers /\ freed \subseteq Transfers
  /\ inflight \in Int
  /\ tpc \in {"none", "loop", "events", "packets", "write", "fill", "take", "check",
              "resubmit", "giveup", "exited"}
  /\ cb \in Transfers \cup {NoTransfer} /\ pk \in 0..NPKT
  /\ nf \in Nat /\ k \in 0..nf
  /\ capLen \in 0..RingFrames /\ playLen \in 0..RingFrames
  /\ dpc \in {"idle", "source", "sink", "monitor_read", "monitor_write"}
  /\ want \in 0..Quantum /\ dk \in 0..want

Control == Types /\ Phases /\ CallHasClient /\ CallbackHasTransfer /\ GrantsHold

(* The loops of start and stop walk over transfers. *)
LEMMA NthIsTransfer == ASSUME NEW i \in 1..(2 * NXFR) PROVE Nth(i) \in Transfers
BY EngineAssumption DEF Nth, Transfers

(* The thread outside a callback has no transfer. *)
LEMMA NoTransferIsNone == NoTransfer \notin Transfers
BY DEF NoTransfer, Transfers

(* StopClose empties the sets of transfers. *)
LEMMA EmptyIsSubset == \A S : {} \subseteq S
OBVIOUS

(* The constants, one by one. *)
LEMMA Constants ==
  /\ NXFR \in Nat /\ NXFR >= 1 /\ NPKT \in Nat /\ NPKT >= 1 /\ MaxPacket \in Nat
  /\ RingFrames \in Nat /\ Quantum \in Nat /\ NPKT * PerPacket \in Nat
BY EngineAssumption

(* Before the start, every thread is out. *)
LEMMA ControlInit == Init => Control
<1> SUFFICES ASSUME Init PROVE Control
  OBVIOUS
<1> USE Constants, NoTransferIsNone DEF Init
<1>1. Types
  <2>1. /\ streams \subseteq {"source", "sink", "monitor"}
        /\ wire \subseteq Transfers /\ done \subseteq Transfers /\ freed \subseteq Transfers
    BY EmptyIsSubset
  <2>2. mi \in 0..(2 * NXFR + 1) /\ inflight \in Int /\ pk \in 0..NPKT /\ nf \in Nat /\ k \in 0..nf
    OBVIOUS
  <2>3. /\ capLen \in 0..RingFrames /\ playLen \in 0..RingFrames
        /\ want \in 0..Quantum /\ dk \in 0..want
    OBVIOUS
  <2> QED
    BY <2>1, <2>2, <2>3 DEF Types
<1>2. Phases
  BY DEF Phases
<1>3. CallHasClient /\ CallbackHasTransfer /\ GrantsHold
  BY DEF CallHasClient, CallbackHasTransfer, GrantsHold, InCallback
<1> QED
  BY <1>1, <1>2, <1>3 DEF Control

(* What main does: the streams are gone before running is cleared, the thread *)
(* before anything is freed.                                                  *)
LEMMA MainKeepsControl ==
  ASSUME Control, StartOpen \/ StartStep \/ DoQuit \/ MonitorEnds \/ StopStep
  PROVE  Control'
<1> USE Constants, NoTransferIsNone
    DEF Control, Types, Phases, CallHasClient, CallbackHasTransfer, GrantsHold, InCallback,
        mainVars, usbVars, isoVars, dataVars, rings
<1>1. CASE StartOpen
  BY <1>1 DEF StartOpen
<1>2. CASE StartSubmit
  BY <1>2, NthIsTransfer DEF StartSubmit, Accept, Refuse
<1>3. CASE StartThread
  BY <1>3 DEF StartThread
<1>4. CASE MakeStreams
  BY <1>4 DEF MakeStreams
<1>5. CASE MonitorStart
  BY <1>5 DEF MonitorStart
<1>6. CASE DoQuit
  BY <1>6 DEF DoQuit
<1>7. CASE MonitorEnds
  BY <1>7 DEF MonitorEnds
<1>8. ASSUME NEW s \in {"source", "sink"}, DestroyStream(s) PROVE Control'
  BY <1>8 DEF DestroyStream
<1>9. CASE StopFlag
  <2>1. Types'
    <3>1. /\ streams' \subseteq {"source", "sink", "monitor"}
          /\ wire' \subseteq Transfers /\ done' \subseteq Transfers /\ freed' \subseteq Transfers
      BY <1>9, EmptyIsSubset DEF StopFlag
    <3>2. mi' \in 0..(2 * NXFR + 1) /\ inflight' \in Int
      BY <1>9 DEF StopFlag
    <3>3. running' \in BOOLEAN /\ valid' \in BOOLEAN /\ refused' \in BOOLEAN
      BY <1>9 DEF StopFlag
    <3>4. mpc' \in {"off", "submit", "started", "up", "destroy", "cancel", "free"}
      BY <1>9 DEF StopFlag
    <3>5. capLen' \in 0..RingFrames /\ playLen' \in 0..RingFrames
      BY <1>9 DEF StopFlag
    <3>6. UNCHANGED <<tpc, cb, pk, nf, k, dpc, want, dk>>
      BY <1>9 DEF StopFlag
    <3> QED
      BY <3>1, <3>2, <3>3, <3>4, <3>5, <3>6
  <2>2. Phases'
    BY <1>9 DEF StopFlag
  <2>3. CallHasClient' /\ CallbackHasTransfer' /\ GrantsHold'
    BY <1>9 DEF StopFlag
  <2> QED
    BY <2>1, <2>2, <2>3
<1>10. CASE StopCancel
  BY <1>10, NthIsTransfer DEF StopCancel
<1>11. CASE StopJoin
  BY <1>11 DEF StopJoin
<1>12. CASE StopFree
  <2>1. PICK i \in 1..(2 * NXFR) : freed' = freed \cup {Nth(i)}
    BY <1>12 DEF StopFree
  <2>2. freed' \subseteq Transfers
    BY <2>1, NthIsTransfer
  <2> QED
    BY <1>12, <2>2 DEF StopFree
<1>13. CASE StopClose
  <2>1. Types'
    <3>1. /\ streams' \subseteq {"source", "sink", "monitor"}
          /\ wire' \subseteq Transfers /\ done' \subseteq Transfers /\ freed' \subseteq Transfers
      BY <1>13, EmptyIsSubset DEF StopClose
    <3>2. mi' \in 0..(2 * NXFR + 1) /\ inflight' \in Int
      BY <1>13 DEF StopClose
    <3>3. running' \in BOOLEAN /\ valid' \in BOOLEAN /\ refused' \in BOOLEAN
      BY <1>13 DEF StopClose
    <3>4. mpc' \in {"off", "submit", "started", "up", "destroy", "cancel", "free"}
      BY <1>13 DEF StopClose
    <3>5. capLen' \in 0..RingFrames /\ playLen' \in 0..RingFrames
      BY <1>13 DEF StopClose
    <3>6. UNCHANGED <<tpc, cb, pk, nf, k, dpc, want, dk>>
      BY <1>13 DEF StopClose
    <3> QED
      BY <3>1, <3>2, <3>3, <3>4, <3>5, <3>6
  <2>2. Phases'
    BY <1>13 DEF StopClose
  <2>3. CallHasClient' /\ CallbackHasTransfer' /\ GrantsHold'
    BY <1>13 DEF StopClose
  <2> QED
    BY <2>1, <2>2, <2>3
<1> QED
  BY <1>1, <1>2, <1>3, <1>4, <1>5, <1>6, <1>7, <1>8, <1>9, <1>10, <1>11, <1>12, <1>13
     DEF StartStep, StopStep

(* The device moves no thread. *)
LEMMA DeviceKeepsControl ==
  ASSUME Control, Device
  PROVE  Control'
<1> USE DEF Control, mainVars, isoVars, dataVars, rings
<1>1. ~(mpc = "off") /\ UNCHANGED <<mainVars, inflight, isoVars, dataVars, rings>>
  BY DEF Device, Complete, Unplug, Phases
<1>2. valid' \in BOOLEAN /\ refused' \in BOOLEAN
  BY DEF Device, Complete, Unplug, Types
<1>3. wire' \subseteq Transfers /\ done' \subseteq Transfers /\ freed' \subseteq Transfers
  BY EmptyIsSubset DEF Device, Complete, Unplug, Types
<1>4. Types'
  BY <1>1, <1>2, <1>3 DEF Types
<1>5. Phases' /\ CallHasClient' /\ CallbackHasTransfer' /\ GrantsHold'
  BY <1>1 DEF Phases, CallHasClient, CallbackHasTransfer, GrantsHold, InCallback
<1> QED
  BY <1>4, <1>5

(* The iso thread and its callbacks. *)
LEMMA ThreadKeepsControl ==
  ASSUME Control, IsoThread
  PROVE  Control'
<1> USE Constants, NoTransferIsNone
    DEF Control, Types, Phases, CallHasClient, CallbackHasTransfer, GrantsHold, InCallback,
        mainVars, usbVars, isoVars, dataVars, rings
<1>1. CASE ThreadTest
  BY <1>1 DEF ThreadTest
<1>2. CASE ThreadReturn
  BY <1>2 DEF ThreadReturn
<1>3. CASE Reap
  BY <1>3 DEF Reap
<1>4. CASE InSkip
  BY <1>4 DEF InSkip
<1>5. CASE InOffer
  BY <1>5 DEF Least, InOffer
<1>6. CASE InWrite
  BY <1>6 DEF InWrite
<1>7. CASE InDone
  BY <1>7 DEF InDone
<1>8. CASE OutAsk
  BY <1>8 DEF Least, OutAsk
<1>9. CASE OutTake
  BY <1>9 DEF OutTake
<1>10. CASE Check
  BY <1>10 DEF Check
<1>11. CASE Resubmit
  BY <1>11 DEF Resubmit, Accept, Refuse
<1>12. CASE GiveUp
  BY <1>12 DEF GiveUp
<1> QED
  BY <1>1, <1>2, <1>3, <1>4, <1>5, <1>6, <1>7, <1>8, <1>9, <1>10, <1>11, <1>12
     DEF IsoThread, Callback, InCb, OutCb

(* The clients' calls. *)
LEMMA ClientKeepsControl ==
  ASSUME Control, Client
  PROVE  Control'
<1> USE Constants, NoTransferIsNone
    DEF Control, Types, Phases, CallHasClient, CallbackHasTransfer, GrantsHold, InCallback,
        mainVars, usbVars, isoVars, dataVars, rings
<1>1. CASE SourceProcess
  BY <1>1 DEF Least, SourceProcess
<1>2. CASE SinkProcess
  BY <1>2 DEF Least, SinkProcess
<1>3. CASE SourceReturn
  BY <1>3 DEF SourceReturn
<1>4. CASE SinkReturn
  BY <1>4 DEF SinkReturn
<1>5. CASE MonitorRead
  BY <1>5 DEF Least, MonitorRead
<1>6. CASE MonitorTone
  BY <1>6 DEF Least, MonitorTone
<1>7. CASE MonitorWritten
  BY <1>7 DEF MonitorWritten
<1> QED
  BY <1>1, <1>2, <1>3, <1>4, <1>5, <1>6, <1>7 DEF Client, ProcessReturn

(* In every reachable state the phases hold: djmt1-pipewire.c:119-122 destroys *)
(* the streams before it stops the engine, and djmt1_iso_stop joins the thread *)
(* before it frees.                                                            *)
THEOREM EngineControl == Spec => []Control
<1>1. Control /\ [Next]_vars => Control'
  <2> SUFFICES ASSUME Control, [Next]_vars PROVE Control'
    OBVIOUS
  <2>1. CASE UNCHANGED vars
    BY <2>1 DEF Control, Types, Phases, CallHasClient, CallbackHasTransfer, GrantsHold,
                InCallback, vars, mainVars, usbVars, isoVars, dataVars, rings
  <2> QED
    BY <2>1, MainKeepsControl, DeviceKeepsControl, ThreadKeepsControl, ClientKeepsControl
       DEF Next
<1> QED
  BY ControlInit, <1>1, PTL DEF Spec

(* Once djmt1_iso_stop frees (djmt1_iso.c:161-170), no thread of the program's *)
(* own is inside the engine or can enter it.                                   *)
THEOREM EngineThreadsAreOut == Spec => []ThreadsAreOutAtFree
<1>1. Control => ThreadsAreOutAtFree
  BY DEF Control, Types, Phases, CallHasClient, CallbackHasTransfer, ThreadsAreOutAtFree
<1> QED
  BY EngineControl, <1>1, PTL

-----------------------------------------------------------------------------
(* Accounted *)

(* While djmt1_iso_start submits, what it has not reached is nowhere yet. *)
Fresh ==
  mpc = "submit" => \A j \in mi..(2 * NXFR) : Nth(j) \notin wire \cup done

Accounted == InflightIsExact /\ Fresh

(* The submission loop takes every transfer once. *)
LEMMA NthIsInjective ==
  ASSUME NEW i \in 1..(2 * NXFR), NEW j \in 1..(2 * NXFR), Nth(i) = Nth(j)
  PROVE  i = j
<1>1. (i + 1) \div 2 = (j + 1) \div 2 /\ (i % 2 = 1 <=> j % 2 = 1)
  BY Constants DEF Nth
<1>2. i \in Nat /\ j \in Nat
  BY Constants
<1> QED
  BY <1>1, <1>2

(* Every transfer has its turn in djmt1_iso_start and djmt1_iso_stop. *)
LEMMA NthCovers ==
  ASSUME NEW x \in Transfers
  PROVE  \E i \in 1..(2 * NXFR) : x = Nth(i)
<1>1. PICK d \in {"in", "out"}, n \in 1..NXFR : x = <<d, n>>
  BY DEF Transfers
<1>2. CASE d = "in"
  <2>1. 2 * n - 1 \in 1..(2 * NXFR) /\ (2 * n - 1) % 2 = 1 /\ (2 * n - 1 + 1) \div 2 = n
    BY Constants
  <2> QED
    BY <1>1, <1>2, <2>1 DEF Nth
<1>3. CASE d = "out"
  <2>1. 2 * n \in 1..(2 * NXFR) /\ (2 * n) % 2 # 1 /\ (2 * n + 1) \div 2 = n
    BY Constants
  <2> QED
    BY <1>1, <1>3, <2>1 DEF Nth
<1> QED
  BY <1>1, <1>2, <1>3

(* The places a transfer can be in are finite sets. *)
LEMMA PlacesAreFinite ==
  ASSUME Control
  PROVE  /\ IsFiniteSet(wire) /\ Cardinality(wire) \in Nat
         /\ IsFiniteSet(done) /\ Cardinality(done) \in Nat
<1>1. IsFiniteSet(1..NXFR)
  BY FS_Interval, Constants
<1>2. IsFiniteSet({"in", "out"})
  <2>1. {"in", "out"} = {"in"} \cup {"out"}
    OBVIOUS
  <2>2. IsFiniteSet({"in"})
    BY FS_Singleton
  <2>3. IsFiniteSet({"in"} \cup {"out"})
    BY <2>2, FS_AddElement
  <2> QED
    BY <2>1, <2>3
<1>3. IsFiniteSet(Transfers)
  BY <1>1, <1>2, FS_Product DEF Transfers
<1> QED
  BY <1>3, FS_Subset, FS_CardinalityType DEF Control, Types

(* Before the start nothing is in flight. *)
LEMMA AccountedInit == Init => Accounted
BY FS_EmptySet, NoTransferIsNone DEF Init, Accounted, InflightIsExact, InCallback, Fresh

(* Main: a submission adds one transfer, a cancellation moves one, the end of *)
(* djmt1_iso_stop clears everything.                                          *)
LEMMA MainKeepsAccounted ==
  ASSUME Control, Control', Accounted, StartOpen \/ StartStep \/ DoQuit \/ MonitorEnds \/ StopStep
  PROVE  Accounted'
<1> DEFINE Places == <<wire, done, inflight, cb>>
<1> USE Constants, PlacesAreFinite DEF Accounted, InflightIsExact, InCallback
<1>1. CASE StartOpen
  <2>1. wire = {} /\ done = {} /\ UNCHANGED Places
    BY <1>1 DEF StartOpen, isoVars, Control, Phases
  <2> QED
    BY <2>1 DEF Fresh
<1>2. CASE StartSubmit
  <2>1. mi \in 1..(2 * NXFR) /\ mi' = mi + 1 /\ Nth(mi) \notin wire \cup done
    BY <1>2 DEF StartSubmit, Fresh, Control, Types, Phases
  <2>2. cb = NoTransfer /\ cb' = cb /\ done' = done /\ mpc = "submit"
    BY <1>2 DEF StartSubmit, Accept, Refuse, isoVars, Control, Phases, CallbackHasTransfer
  <2>3. \A j \in mi'..(2 * NXFR) : j \in mi..(2 * NXFR) /\ j # mi
    BY <2>1 DEF Control, Types
  <2>4. CASE Accept(Nth(mi)) /\ inflight' = inflight + 1
    <3>1. Cardinality(wire') = Cardinality(wire) + 1 /\ wire' = wire \cup {Nth(mi)}
      BY <2>1, <2>4, FS_AddElement DEF Accept
    <3>2. Nth(mi) # NoTransfer /\ NoTransfer \notin wire'
      BY <2>1, <3>1, NthIsTransfer, NoTransferIsNone DEF Control, Types
    <3>3. InflightIsExact'
      BY <2>1, <2>2, <2>4, <3>1, <3>2 DEF Control, Types
    <3>4. Fresh'
      <4> SUFFICES ASSUME NEW j \in mi'..(2 * NXFR) PROVE Nth(j) \notin wire' \cup done'
        BY DEF Fresh
      <4>1. Nth(j) \notin wire \cup done
        BY <2>2, <2>3 DEF Fresh
      <4>2. Nth(j) # Nth(mi)
        BY <2>1, <2>3, NthIsInjective DEF Control, Types, Phases
      <4> QED
        BY <2>2, <3>1, <4>1, <4>2
    <3> QED
      BY <3>3, <3>4
  <2>5. CASE Refuse /\ UNCHANGED inflight
    BY <2>2, <2>3, <2>5 DEF Refuse, Fresh
  <2> QED
    BY <1>2, <2>4, <2>5 DEF StartSubmit
<1>3. CASE StopCancel /\ Nth(mi) \in wire
  <2>1. wire' = wire \ {Nth(mi)} /\ done' = done \cup {Nth(mi)} /\ UNCHANGED <<inflight, cb>>
    BY <1>3 DEF StopCancel, isoVars
  <2>2. Cardinality(wire') = Cardinality(wire) - 1 /\ Cardinality(done') = Cardinality(done) + 1
    BY <1>3, <2>1, FS_AddElement, FS_RemoveElement
  <2> QED
    BY <1>3, <2>1, <2>2 DEF StopCancel, Fresh
<1>4. CASE StopClose
  <2>1. wire' = {} /\ done' = {} /\ inflight' = 0 /\ cb' = NoTransfer /\ mpc' = "off"
    BY <1>4 DEF StopClose, isoVars, Control, Phases, CallbackHasTransfer, InCallback
  <2> QED
    BY <2>1, FS_EmptySet DEF Fresh
<1>5. CASE StartThread \/ MakeStreams \/ MonitorStart \/ DoQuit \/ MonitorEnds \/ StopFlag \/ StopJoin
           \/ StopFree \/ (StopCancel /\ Nth(mi) \notin wire) \/ (\E s \in {"source", "sink"} : DestroyStream(s))
  <2>1. UNCHANGED Places /\ mpc' # "submit"
    BY <1>5 DEF StartThread, MakeStreams, MonitorStart, DoQuit, MonitorEnds, StopFlag,
        StopJoin, StopFree,
                StopCancel, DestroyStream, usbVars, isoVars
  <2> QED
    BY <2>1 DEF Fresh
<1> QED
  BY <1>1, <1>2, <1>3, <1>4, <1>5 DEF StartStep, StopStep

(* The device: a transfer the kernel held waits to be reaped. *)
LEMMA DeviceKeepsAccounted ==
  ASSUME Control, Accounted, Device
  PROVE  Accounted'
<1> USE PlacesAreFinite DEF Accounted, InflightIsExact, InCallback
<1>1. UNCHANGED <<mpc, mi, inflight, cb>> /\ wire' \cup done' = wire \cup done
  BY DEF Device, Complete, Unplug, mainVars, isoVars
<1>2. Fresh'
  BY <1>1 DEF Fresh
<1>3. CASE \E x \in Transfers : Complete(x)
  <2>1. PICK x \in wire : wire' = wire \ {x} /\ done' = done \cup {x}
    BY <1>3 DEF Complete
  <2>2. Cardinality(wire') = Cardinality(wire) - 1 /\ Cardinality(done') = Cardinality(done) + 1
    BY <2>1, FS_AddElement, FS_RemoveElement
  <2> QED
    BY <1>1, <1>2, <2>1, <2>2
<1>4. CASE Unplug
  <2>1. wire' = {} /\ done' = done \cup wire
    BY <1>4 DEF Unplug
  <2>2. Cardinality(wire') = 0 /\ Cardinality(done') = Cardinality(done) + Cardinality(wire)
    <3>1. Cardinality(done \cup wire)
            = Cardinality(done) + Cardinality(wire) - Cardinality(done \cap wire)
      BY FS_Union
    <3>2. done \cap wire = {}
      OBVIOUS
    <3>3. Cardinality(done \cap wire) = 0 /\ Cardinality(wire') = 0
      BY <2>1, <3>2, FS_EmptySet, Zenon
    <3>4. Cardinality(done') = Cardinality(done) + Cardinality(wire) - Cardinality(done \cap wire)
      BY <2>1, <3>1, Zenon
    <3> QED
      BY <3>3, <3>4
  <2> QED
    BY <1>1, <1>2, <2>1, <2>2
<1> QED
  BY <1>3, <1>4 DEF Device

(* The thread: what is reaped is submitted again or counted out. *)
LEMMA ThreadKeepsAccounted ==
  ASSUME Control, Accounted, IsoThread
  PROVE  Accounted'
<1> USE PlacesAreFinite DEF Accounted, InflightIsExact, InCallback
<1>1. CASE Reap
  <2>1. PICK x \in done : cb' = x /\ done' = done \ {x} /\ UNCHANGED <<wire, inflight, mpc, mi>>
    BY <1>1 DEF Reap, mainVars
  <2>2. cb = NoTransfer /\ x # NoTransfer
    BY <1>1, NoTransferIsNone DEF Reap, Control, Types, CallbackHasTransfer
  <2>3. Cardinality(done') = Cardinality(done) - 1
    BY <2>1, FS_RemoveElement
  <2> QED
    BY <2>1, <2>2, <2>3 DEF Fresh
<1>2. CASE Resubmit /\ Accept(cb)
  <2>1. wire' = wire \cup {cb} /\ UNCHANGED <<done, inflight, mpc>>
    BY <1>2 DEF Resubmit, Accept, mainVars
  <2>2. cb # NoTransfer /\ cb \in Transfers /\ mpc # "submit"
    BY <1>2 DEF Resubmit, Control, Types, Phases, CallbackHasTransfer
  <2>3. cb' = NoTransfer \/ cb' = cb
    BY <1>2 DEF Resubmit
  <2>4. Cardinality(wire') = Cardinality(wire) + 1
    BY <2>1, FS_AddElement
  <2>5. CASE cb' = NoTransfer
    BY <2>1, <2>2, <2>4, <2>5, NoTransferIsNone DEF Fresh, Control, Types
  <2>6. CASE Refuse /\ cb' = cb
    BY <1>2, <2>6, <2>1 DEF Refuse, Fresh
  <2> QED
    BY <1>2, <2>5, <2>6 DEF Resubmit
<1>3. CASE Resubmit /\ Refuse /\ UNCHANGED cb
  BY <1>3 DEF Resubmit, Refuse, Fresh, mainVars
<1>4. CASE GiveUp
  <2>1. cb' = NoTransfer /\ cb # NoTransfer /\ inflight' = inflight - 1
        /\ UNCHANGED <<wire, done, mpc, mi>>
    BY <1>4 DEF GiveUp, mainVars, usbVars, Control, CallbackHasTransfer
  <2> QED
    BY <2>1, NoTransferIsNone DEF Fresh, Control, Types
<1>5. CASE ThreadTest \/ ThreadReturn \/ InCb \/ OutCb \/ Check
  <2>1. UNCHANGED <<mpc, mi, wire, done, inflight, cb>>
    BY <1>5 DEF ThreadTest, ThreadReturn, InCb, InSkip, InOffer, InWrite, InDone, OutCb,
        OutAsk,
                OutTake, Check, mainVars, usbVars
  <2> QED
    BY <2>1 DEF Fresh
<1> QED
  BY <1>1, <1>2, <1>3, <1>4, <1>5 DEF IsoThread, Callback, Resubmit

(* PipeWire and the monitor touch no transfer. *)
LEMMA ClientKeepsAccounted ==
  ASSUME Accounted, Client
  PROVE  Accounted'
<1>1. UNCHANGED <<mpc, mi, wire, done, inflight, cb>>
  BY DEF Client, ProcessReturn, SourceProcess, SinkProcess, MonitorRead, SourceReturn,
      SinkReturn,
         MonitorTone, MonitorWritten, mainVars, usbVars, isoVars
<1> QED
  BY <1>1 DEF Accounted, InflightIsExact, InCallback, Fresh

(* e->inflight is exact for any number of transfers (djmt1_iso.c:91-92,       *)
(* 110-111, 137-142): whatever completes, is refused, cancelled or given up.  *)
THEOREM InflightStaysExact == Spec => []InflightIsExact
<1>1. Control /\ Control' /\ Accounted /\ [Next]_vars => Accounted'
  <2> SUFFICES ASSUME Control, Control', Accounted, [Next]_vars PROVE Accounted'
    OBVIOUS
  <2>1. CASE UNCHANGED vars
    BY <2>1 DEF Accounted, InflightIsExact, InCallback, Fresh, vars, mainVars, usbVars,
        isoVars
  <2> QED
    BY <2>1, MainKeepsAccounted, DeviceKeepsAccounted, ThreadKeepsAccounted, ClientKeepsAccounted
       DEF Next
<1>2. Accounted => InflightIsExact
  BY DEF Accounted
<1> QED
  BY EngineControl, AccountedInit, <1>1, <1>2, PTL DEF Spec

(* The types hold, the room each side of a ring was granted included. *)
THEOREM EngineTypes == Spec => []TypeOK
<1>1. Control /\ InflightIsExact => TypeOK
  <2> SUFFICES ASSUME Control, InflightIsExact PROVE TypeOK
    OBVIOUS
  <2>1. inflight \in Nat
    BY PlacesAreFinite DEF InflightIsExact
  <2> QED
    BY <2>1 DEF Control, Types, TypeOK
<1> QED
  BY EngineControl, InflightStaysExact, <1>1, PTL

-----------------------------------------------------------------------------
(* Kept *)

(* What djmt1_iso_start has reached is somewhere, and a callback gives a      *)
(* transfer up only for a reason.                                             *)
Kept ==
  /\ mpc = "submit" /\ valid /\ ~refused => \A j \in 1..(mi - 1) : Nth(j) \in wire \cup done
  /\ tpc = "giveup" => ~running \/ refused \/ ~valid
  /\ StreamKeepsItsTransfers

(* main takes no transfer out of circulation before djmt1_iso_stop. *)
LEMMA MainKeepsKept ==
  ASSUME Control, Kept, StartOpen \/ StartStep \/ DoQuit \/ MonitorEnds \/ StopStep
  PROVE  Kept'
<1> USE Constants DEF Kept, StreamKeepsItsTransfers, InCallback
<1>1. CASE StartOpen
  BY <1>1 DEF StartOpen, isoVars, Control, Phases
<1>2. CASE StartSubmit
  <2>1. mi \in Nat /\ mpc' = "submit" /\ tpc' # "giveup" /\ mi' = mi + 1 /\ done' = done
    BY <1>2 DEF StartSubmit, Accept, Refuse, isoVars, Control, Phases, Types
  <2>2. CASE Refuse
    BY <2>1, <2>2 DEF Refuse
  <2>3. CASE Accept(Nth(mi))
    <3> SUFFICES ASSUME valid, ~refused, NEW j \in 1..(mi' - 1) PROVE Nth(j) \in wire' \cup done'
      BY <2>1, <2>3 DEF Accept
    <3>1. j = mi \/ j \in 1..(mi - 1)
      BY <2>1
    <3> QED
      BY <2>1, <2>3, <3>1, <1>2 DEF Accept, StartSubmit
  <2> QED
    BY <1>2, <2>2, <2>3 DEF StartSubmit
<1>3. CASE StartThread
  <2>1. mpc = "submit" /\ mi > 2 * NXFR /\ mi \in Nat
        /\ UNCHANGED <<valid, refused, wire, done, cb>> /\ tpc' = "loop"
    BY <1>3 DEF StartThread, usbVars, Control, Types
  <2>2. cb = NoTransfer
    BY <2>1 DEF Control, Phases, CallbackHasTransfer
  <2>3. ASSUME valid, ~refused PROVE Transfers = wire \cup done
    <3>1. \A i \in 1..(2 * NXFR) : Nth(i) \in wire \cup done
      BY <2>1, <2>3
    <3> QED
      BY <3>1, NthCovers DEF Control, Types
  <2> QED
    BY <1>3, <2>1, <2>2, <2>3 DEF StartThread
<1>4. CASE MakeStreams \/ MonitorStart \/ DoQuit \/ MonitorEnds
           \/ (\E s \in {"source", "sink"} : DestroyStream(s))
  <2>1. /\ mpc' \in {"up", "destroy"} /\ mpc \in {"started", "up", "destroy"}
        /\ UNCHANGED <<running, valid, refused, wire, done, cb, tpc>>
    BY <1>4 DEF MakeStreams, MonitorStart, DoQuit, MonitorEnds, DestroyStream, usbVars,
        isoVars,
                Control, Phases
  <2> QED
    BY <2>1
<1>5. CASE StopFlag \/ StopCancel \/ StopJoin \/ StopFree \/ StopClose
  <2>1. mpc' \in {"cancel", "free", "off"} /\ ~running'
    BY <1>5 DEF StopFlag, StopCancel, StopJoin, StopFree, StopClose, Control, Phases
  <2> QED
    BY <2>1
<1> QED
  BY <1>1, <1>2, <1>3, <1>4, <1>5 DEF StartStep, StopStep

(* A completion keeps a transfer in circulation; an unplug ends the promise. *)
LEMMA DeviceKeepsKept ==
  ASSUME Control, Kept, Device
  PROVE  Kept'
<1>1. /\ UNCHANGED <<mpc, mi, running, refused, cb, tpc>> /\ wire' \cup done' = wire \cup done
      /\ valid' => valid
  BY DEF Device, Complete, Unplug, mainVars, isoVars
<1> QED
  BY <1>1 DEF Kept, StreamKeepsItsTransfers, InCallback

(* The iso thread gives up a transfer only when it was refused or has to stop. *)
LEMMA ThreadKeepsKept ==
  ASSUME Control, Kept, IsoThread
  PROVE  Kept'
<1> USE DEF Kept, StreamKeepsItsTransfers, InCallback
<1>1. mpc' = mpc /\ running' = running /\ tpc # "none" /\ mpc # "submit"
  BY DEF IsoThread, Callback, InCb, OutCb, ThreadTest, ThreadReturn, Reap, InSkip, InOffer,
      InWrite,
         InDone, OutAsk, OutTake, Check, Resubmit, GiveUp, mainVars, Control, Phases
<1>2. CASE Reap
  <2>1. cb' \in done /\ done' = done \ {cb'} /\ UNCHANGED <<wire, valid, refused>>
        /\ cb = NoTransfer /\ cb' # NoTransfer /\ tpc' # "giveup"
    BY <1>2, NoTransferIsNone DEF Reap, Control, Types, CallbackHasTransfer
  <2> QED
    BY <1>1, <2>1
<1>3. CASE Resubmit
  <2>1. cb # NoTransfer /\ done' = done
    BY <1>3 DEF Resubmit, Accept, Refuse, Control, CallbackHasTransfer
  <2>2. CASE Accept(cb) /\ tpc' = "events" /\ cb' = NoTransfer
    BY <1>1, <2>1, <2>2 DEF Accept
  <2>3. CASE Refuse /\ tpc' = "giveup" /\ UNCHANGED cb
    BY <1>1, <2>1, <2>3 DEF Refuse
  <2> QED
    BY <1>3, <2>2, <2>3 DEF Resubmit
<1>4. CASE GiveUp
  <2>1. mpc \in {"started", "up", "destroy"} => refused \/ ~valid
    BY <1>4 DEF GiveUp, Control, Phases
  <2> QED
    BY <1>1, <1>4, <2>1 DEF GiveUp, usbVars
<1>5. CASE ThreadTest \/ ThreadReturn \/ InCb \/ OutCb \/ Check
  <2>1. UNCHANGED <<valid, refused, wire, done, cb>> /\ (tpc' = "giveup" => ~running)
    BY <1>5 DEF ThreadTest, ThreadReturn, InCb, InSkip, InOffer, InWrite, InDone, OutCb,
        OutAsk,
                OutTake, Check, usbVars
  <2> QED
    BY <1>1, <2>1
<1> QED
  BY <1>2, <1>3, <1>4, <1>5 DEF IsoThread, Callback

(* While the device is there and nothing was refused, the stream has all its  *)
(* transfers (djmt1_iso.c:137-142, 90-93, 109-112).                           *)
THEOREM StreamIsKept == Spec => []StreamKeepsItsTransfers
<1>1. Init => Kept
  BY DEF Init, Kept, StreamKeepsItsTransfers
<1>2. Control /\ Kept /\ [Next]_vars => Kept'
  <2> SUFFICES ASSUME Control, Kept, [Next]_vars PROVE Kept'
    OBVIOUS
  <2>1. CASE UNCHANGED vars \/ Client
    <3>1. UNCHANGED <<mpc, mi, running, valid, refused, wire, done, cb, tpc>>
      BY <2>1 DEF Client, ProcessReturn, SourceProcess, SinkProcess, MonitorRead,
          SourceReturn,
                  SinkReturn, MonitorTone, MonitorWritten, vars, mainVars, usbVars, isoVars
    <3> QED
      BY <3>1 DEF Kept, StreamKeepsItsTransfers, InCallback
  <2> QED
    BY <2>1, MainKeepsKept, DeviceKeepsKept, ThreadKeepsKept DEF Next
<1>3. Kept => StreamKeepsItsTransfers
  BY DEF Kept
<1> QED
  BY EngineControl, <1>1, <1>2, <1>3, PTL DEF Spec

-----------------------------------------------------------------------------
(* Escaped *)

(* Of the transfers the cancellation has passed by, at most one is with the   *)
(* kernel; none as long as a callback has yet to submit.                      *)
Escaped ==
  mpc \in {"cancel", "free"} =>
    /\ \A i, j \in 1..(mi - 1) : Nth(i) \in wire /\ Nth(j) \in wire => i = j
    /\ tpc = "resubmit" => \A i \in 1..(mi - 1) : Nth(i) \notin wire

(* Only the callback that saw running adds to the wire after the cancellation. *)
LEMMA EscapedStep ==
  ASSUME Control, Escaped, Next
  PROVE  Escaped'
<1> USE Constants DEF Escaped
<1> SUFFICES ASSUME mpc' \in {"cancel", "free"} PROVE Escaped'
  OBVIOUS
<1>1. CASE StopFlag
  BY <1>1 DEF StopFlag
<1>2. CASE StopCancel
  <2>1. mi \in 1..(2 * NXFR) /\ mi' = mi + 1 /\ Nth(mi) \notin wire' /\ wire' \subseteq wire
        /\ mpc = "cancel" /\ tpc' = tpc
    BY <1>2 DEF StopCancel, isoVars, Control, Types, Phases
  <2>2. \A i \in 1..(mi' - 1) : i \in 1..(mi - 1) \/ i = mi
    BY <2>1
  <2> QED
    BY <2>1, <2>2
<1>3. CASE Resubmit
  <2>1. mpc' = mpc /\ mi' = mi /\ tpc' # "resubmit" /\ mi \in 0..(2 * NXFR + 1)
    BY <1>3 DEF Resubmit, mainVars, Control, Types
  <2>2. wire' = wire \/ (wire' = wire \cup {cb} /\ \A i \in 1..(mi - 1) : Nth(i) \notin wire)
    BY <1>3, <2>1 DEF Resubmit, Accept, Refuse
  <2>3. \A i, j \in 1..(mi - 1) : Nth(i) = cb /\ Nth(j) = cb => i = j
    BY <2>1, NthIsInjective
  <2> QED
    BY <2>1, <2>2, <2>3
<1>4. CASE StopJoin \/ StopFree \/ Device \/ Client \/ (IsoThread /\ ~Resubmit)
  <2>1. /\ mpc \in {"cancel", "free"} /\ mi' = mi /\ wire' \subseteq wire
        /\ tpc' = "resubmit" => tpc = "resubmit"
    BY <1>4 DEF StopJoin, StopFree, Device, Complete, Unplug, Client, ProcessReturn, SourceProcess,
         SinkProcess, MonitorRead, SourceReturn, SinkReturn, MonitorTone, MonitorWritten,
         IsoThread,
         Callback, InCb, OutCb, ThreadTest, ThreadReturn, Reap, InSkip, InOffer, InWrite,
         InDone,
         OutAsk, OutTake, Check, GiveUp, mainVars, usbVars, isoVars, Control, Phases
  <2> QED
    BY <2>1
<1> QED
  BY <1>1, <1>2, <1>3, <1>4
     DEF Next, StartOpen, StartStep, StartSubmit, StartThread, MakeStreams, MonitorStart,
         DoQuit,
         MonitorEnds, StopStep, StopClose, DestroyStream

(* At most one transfer is freed while the kernel still has it, whatever the  *)
(* number of transfers (djmt1_iso.c:90, 109, 156-165).                        *)
THEOREM OneEscapesAtMost == Spec => []AtMostOneEscapes
<1>1. Init => Escaped
  BY DEF Init, Escaped
<1>2. Control /\ Escaped /\ [Next]_vars => Escaped'
  BY EscapedStep DEF Escaped, vars, mainVars, usbVars, isoVars
<1>3. Control /\ Escaped => AtMostOneEscapes
  <2> SUFFICES ASSUME Control, Escaped, mpc \in {"cancel", "free"}, mi > 2 * NXFR
               PROVE  Cardinality(wire) <= 1
    BY DEF AtMostOneEscapes
  <2>1. 1..(mi - 1) = 1..(2 * NXFR)
    BY Constants DEF Control, Types
  <2>2. \A x, y \in wire : x = y
    <3> SUFFICES ASSUME NEW x \in wire, NEW y \in wire PROVE x = y
      OBVIOUS
    <3>1. x \in Transfers /\ y \in Transfers
      BY DEF Control, Types
    <3>2. PICK i \in 1..(2 * NXFR) : x = Nth(i)
      BY <3>1, NthCovers
    <3>3. PICK j \in 1..(2 * NXFR) : y = Nth(j)
      BY <3>1, NthCovers
    <3> QED
      BY <2>1, <3>2, <3>3 DEF Escaped
  <2>3. CASE wire = {}
    BY <2>3, FS_EmptySet
  <2>4. ASSUME NEW x \in wire PROVE Cardinality(wire) <= 1
    <3>1. wire = {x}
      BY <2>2
    <3>2. Cardinality({x}) = 1
      BY FS_Singleton
    <3> QED
      BY <3>1, <3>2
  <2> QED
    BY <2>3, <2>4
<1> QED
  BY EngineControl, <1>1, <1>2, <1>3, PTL DEF Spec

-----------------------------------------------------------------------------
(* The rings are used as FrameCount means them to be *)

(* A step that neither moves frames nor enters or leaves a call of a ring is   *)
(* none for the ring.                                                          *)
LEMMA RingsIdle ==
  ASSUME UNCHANGED <<capLen, playLen, dpc, dk>>,
         UNCHANGED <<tpc, k>> \/ {tpc, tpc'} \cap {"write", "take"} = {}
  PROVE  UNCHANGED CaptureRing!vars /\ UNCHANGED PlaybackRing!vars
BY DEF CaptureRing!vars, PlaybackRing!vars, Reading, Writing

(* main frees the rings with both sides out of them, and touches them nowhere  *)
(* else.                                                                       *)
LEMMA MainRenewsRings ==
  ASSUME Control, StartOpen \/ StartStep \/ DoQuit \/ MonitorEnds \/ StopStep
  PROVE  [CaptureRing!Next]_(CaptureRing!vars) /\ [PlaybackRing!Next]_(PlaybackRing!vars)
<1> USE DEF mainVars, usbVars, isoVars, dataVars, rings
<1>1. CASE StopClose
  <2>1. tpc = "none" /\ dpc = "idle"
    BY <1>1 DEF StopClose, Control, Types, Phases, CallHasClient
  <2>2. CaptureRing!Renew /\ PlaybackRing!Renew
    BY <1>1, <2>1 DEF StopClose, CaptureRing!Renew, PlaybackRing!Renew, Reading, Writing
  <2> QED
    BY <2>2 DEF CaptureRing!Next, PlaybackRing!Next
<1>2. CASE ~StopClose
  <2>1. UNCHANGED <<capLen, playLen, dpc, dk>>
    BY <1>2 DEF StartOpen, StartStep, StartSubmit, StartThread, MakeStreams, MonitorStart, DoQuit,
                MonitorEnds, StopStep, DestroyStream, StopFlag, StopCancel, StopJoin,
                StopFree
  <2>2. UNCHANGED <<tpc, k>> \/ {tpc, tpc'} \cap {"write", "take"} = {}
    <3>1. CASE StartThread
      BY <3>1 DEF StartThread, Control, Phases
    <3>2. CASE StopJoin
      BY <3>2 DEF StopJoin
    <3>3. CASE ~StartThread /\ ~StopJoin
      BY <1>2, <3>3 DEF StartOpen, StartStep, StartSubmit, MakeStreams, MonitorStart, DoQuit,
                        MonitorEnds, StopStep, DestroyStream, StopFlag, StopCancel,
                        StopFree
    <3> QED
      BY <3>1, <3>2, <3>3
  <2> QED
    BY <2>1, <2>2, RingsIdle
<1> QED
  BY <1>1, <1>2

(* The callbacks write to the capture ring and read from the playback ring. *)
LEMMA ThreadUsesRings ==
  ASSUME Control, IsoThread
  PROVE  [CaptureRing!Next]_(CaptureRing!vars) /\ [PlaybackRing!Next]_(PlaybackRing!vars)
<1> USE DEF mainVars, usbVars, isoVars, dataVars, rings
<1>1. CASE InOffer
  <2>1. /\ k' \in 0..(RingFrames - capLen) /\ tpc = "packets" /\ tpc' = "write"
        /\ UNCHANGED <<capLen, playLen, dpc, dk>>
    BY <1>1, Constants DEF InOffer, Least, Control, Types
  <2>2. CaptureRing!WriteGrant
    BY <2>1 DEF CaptureRing!WriteGrant, Reading
  <2>3. UNCHANGED PlaybackRing!vars
    BY <2>1 DEF PlaybackRing!vars, Writing
  <2> QED
    BY <2>2, <2>3 DEF CaptureRing!Next
<1>2. CASE InWrite
  <2>1. CaptureRing!WriteCommit
    BY <1>2 DEF InWrite, CaptureRing!WriteCommit, Reading
  <2>2. UNCHANGED PlaybackRing!vars
    BY <1>2 DEF InWrite, PlaybackRing!vars, Writing
  <2> QED
    BY <2>1, <2>2 DEF CaptureRing!Next
<1>3. CASE OutAsk
  <2>1. /\ k' \in 0..playLen /\ tpc = "fill" /\ tpc' = "take"
        /\ UNCHANGED <<capLen, playLen, dpc, dk>>
    BY <1>3, Constants DEF OutAsk, Least, Control, Types
  <2>2. PlaybackRing!ReadGrant
    BY <2>1 DEF PlaybackRing!ReadGrant, Writing
  <2>3. UNCHANGED CaptureRing!vars
    BY <2>1 DEF CaptureRing!vars, Reading
  <2> QED
    BY <2>2, <2>3 DEF PlaybackRing!Next
<1>4. CASE OutTake
  <2>1. PlaybackRing!ReadCommit
    BY <1>4 DEF OutTake, PlaybackRing!ReadCommit, Writing
  <2>2. UNCHANGED CaptureRing!vars
    BY <1>4 DEF OutTake, CaptureRing!vars, Reading
  <2> QED
    BY <2>1, <2>2 DEF PlaybackRing!Next
<1>5. CASE ThreadTest \/ ThreadReturn \/ Reap \/ InSkip \/ InDone \/ Check \/ Resubmit \/ GiveUp
  <2>1. /\ UNCHANGED <<capLen, playLen, dpc, dk>>
        /\ {tpc, tpc'} \cap {"write", "take"} = {}
    BY <1>5 DEF ThreadTest, ThreadReturn, Reap, InSkip, InDone, Check, Resubmit, GiveUp
  <2> QED
    BY <2>1, RingsIdle
<1> QED
  BY <1>1, <1>2, <1>3, <1>4, <1>5 DEF IsoThread, Callback, InCb, OutCb

(* The client reads from the capture ring and writes to the playback ring; the *)
(* monitor leaves one call and enters the other in one step.                   *)
LEMMA ClientUsesRings ==
  ASSUME Control, Client
  PROVE  [CaptureRing!Next]_(CaptureRing!vars) /\ [PlaybackRing!Next]_(PlaybackRing!vars)
<1> USE DEF mainVars, usbVars, isoVars, dataVars, rings, Reading, Writing
<1>0. Control /\ capLen \in 0..RingFrames /\ playLen \in 0..RingFrames
  BY DEF Control, Types
<1>1. CASE SourceProcess \/ MonitorRead
  <2>1. /\ dk' \in 0..capLen /\ dpc = "idle" /\ dpc' \in {"source", "monitor_read"}
        /\ UNCHANGED <<capLen, playLen, tpc, k>>
    BY <1>0, <1>1, Constants DEF SourceProcess, MonitorRead, Least
  <2>2. CaptureRing!ReadGrant
    BY <2>1 DEF CaptureRing!ReadGrant
  <2>3. UNCHANGED PlaybackRing!vars
    BY <2>1 DEF PlaybackRing!vars
  <2> QED
    BY <2>2, <2>3 DEF CaptureRing!Next
<1>2. CASE SinkProcess
  <2>1. /\ dk' \in 0..(RingFrames - playLen) /\ dpc = "idle" /\ dpc' = "sink"
        /\ UNCHANGED <<capLen, playLen, tpc, k>>
    BY <1>0, <1>2, Constants DEF SinkProcess, Least
  <2>2. PlaybackRing!WriteGrant
    BY <2>1 DEF PlaybackRing!WriteGrant
  <2>3. UNCHANGED CaptureRing!vars
    BY <2>1 DEF CaptureRing!vars
  <2> QED
    BY <2>2, <2>3 DEF PlaybackRing!Next
<1>3. CASE SourceReturn
  <2>1. CaptureRing!ReadCommit
    BY <1>3 DEF SourceReturn, CaptureRing!ReadCommit
  <2>2. UNCHANGED PlaybackRing!vars
    BY <1>3 DEF SourceReturn, PlaybackRing!vars
  <2> QED
    BY <2>1, <2>2 DEF CaptureRing!Next
<1>4. CASE SinkReturn \/ MonitorWritten
  <2>1. PlaybackRing!WriteCommit
    BY <1>4 DEF SinkReturn, MonitorWritten, PlaybackRing!WriteCommit
  <2>2. UNCHANGED CaptureRing!vars
    BY <1>4 DEF SinkReturn, MonitorWritten, CaptureRing!vars
  <2> QED
    BY <2>1, <2>2 DEF PlaybackRing!Next
<1>5. CASE MonitorTone
  <2>1. CaptureRing!ReadCommit
    BY <1>5 DEF MonitorTone, CaptureRing!ReadCommit
  <2>2. CASE dpc' = "idle"
    <3>1. UNCHANGED PlaybackRing!vars
      BY <1>5, <2>2 DEF MonitorTone, PlaybackRing!vars
    <3> QED
      BY <2>1, <3>1 DEF CaptureRing!Next
  <2>3. CASE dpc' = "monitor_write"
    <3>1. dk' \in 0..(RingFrames - playLen)
      BY <1>0, <1>5, <2>3, Constants DEF MonitorTone, Least
    <3>2. PlaybackRing!WriteGrant
      BY <1>5, <2>3, <3>1 DEF MonitorTone, PlaybackRing!WriteGrant
    <3> QED
      BY <2>1, <3>2 DEF CaptureRing!Next, PlaybackRing!Next
  <2> QED
    BY <1>5, <2>2, <2>3 DEF MonitorTone
<1> QED
  BY <1>1, <1>2, <1>3, <1>4, <1>5 DEF Client, ProcessReturn

(* Whatever the threads do at once, each ring of the engine is a FrameCount:   *)
(* one write and one read in progress, none while it is freed and made anew.   *)
THEOREM EngineUsesRings == Spec => RingsAreUsedAsMeant
<1>1. Init => CaptureRing!Init /\ PlaybackRing!Init
  BY DEF Init, CaptureRing!Init, PlaybackRing!Init, Reading, Writing
<1>2. ASSUME Control, [Next]_vars
      PROVE  [CaptureRing!Next]_(CaptureRing!vars) /\ [PlaybackRing!Next]_(PlaybackRing!vars)
  <2>1. CASE Device \/ UNCHANGED vars
    <3>1. UNCHANGED <<capLen, playLen, dpc, dk, tpc, k>>
      BY <2>1 DEF Device, Complete, Unplug, vars, mainVars, usbVars, isoVars, dataVars, rings
    <3> QED
      BY <3>1, RingsIdle
  <2> QED
    BY <1>2, <2>1, MainRenewsRings, ThreadUsesRings, ClientUsesRings DEF Next
<1> QED
  BY <1>1, <1>2, EngineControl, PTL
     DEF Spec, RingsAreUsedAsMeant, CaptureRing!Spec, PlaybackRing!Spec
=============================================================================
