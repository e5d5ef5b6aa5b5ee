------------------------- MODULE UnifiedDaemonProofs -------------------------
(***************************************************************************)
(* What UnifiedDaemon promises, for any number of arm steps and pumps.     *)
(*                                                                         *)
(*   MainPhases   which threads and streams exist in each phase of main;   *)
(*   ReadsClosed  which reads may be pending in each phase of the thread;  *)
(*   GateSoFar    what the thread has done to open the mixer's gate.       *)
(***************************************************************************)
EXTENDS UnifiedDaemon, TLAPS

FlagsTyped ==
  /\ plugged \in BOOLEAN /\ armed \in BOOLEAN /\ econn \in BOOLEAN /\ mconn \in BOOLEAN
  /\ g_stop \in BOOLEAN /\ unplugged \in BOOLEAN /\ armok \in BOOLEAN
  /\ failed \subseteq Reads \cup {"thread", "arm"}
  /\ econn \/ mconn => plugged
PcsTyped ==
  /\ mpc \in {"down", "seq", "thread", "streams", "loop", "join", "destroy", "free"}
  /\ streams \subseteq StreamsOfNode /\ dpc \in StreamsOfNode \cup {"idle"}
  /\ tpc \in {"none", "open", "claim", "hid", "settle", "arm", "loop", "events", "drain",
              "cancel", "pump", "out", "exited"}
CountTyped ==
  /\ count \in Nat
  /\ count > 0 => (tpc = "arm" /\ count <= ArmSteps) \/ (tpc = "pump" /\ count <= Pumps)
XferTyped == xfer \in [Reads -> {"none", "flight", "done", "nodev", "dead"}]

MainPhases ==
  /\ mpc \in {"down", "seq", "thread", "destroy", "free"} => tpc = "none"
  /\ mpc \notin {"loop", "join", "destroy"} => streams = {}
  /\ dpc # "idle" => dpc \in streams

ReadsClosed ==
  /\ tpc \in {"none", "open", "claim", "out", "exited"} => xfer = NoReads
  /\ tpc \in {"cancel", "pump"} => g_stop
  /\ tpc = "pump" => \A r \in Reads : xfer[r] # "flight"
  /\ tpc = "pump" /\ count > 0 => \A r \in Reads : ~Ready(r)

(* As long as its handle reaches the mixer and nobody stopped the thread, the *)
(* arming and the reads lack only what failed.                                *)
GateSoFar ==
  /\ tpc = "hid" /\ mconn => Pending("midi") \/ "midi" \in failed
  /\ tpc \in {"settle", "arm", "loop", "events", "drain"} /\ mconn /\ ~g_stop =>
       \A r \in Reads : Pending(r) \/ r \in failed
  /\ tpc \in {"settle", "arm"} /\ mconn => armok \/ "arm" \in failed
  /\ tpc = "arm" /\ count = ArmSteps /\ mconn => armed \/ "arm" \in failed
  /\ tpc \in {"loop", "events", "drain"} /\ mconn => armed \/ "arm" \in failed

DaemonInv ==
  /\ FlagsTyped /\ PcsTyped /\ CountTyped /\ XferTyped
  /\ MainPhases /\ ReadsClosed /\ GateSoFar

(* The constants, one by one. *)
LEMMA Counted == ArmSteps \in Nat /\ ArmSteps > 0 /\ Pumps \in Nat /\ Pumps > 0
BY DaemonAssumption

(* Having no reads is a state of the reads. *)
LEMMA NoReadsTyped == NoReads \in [Reads -> {"none", "flight", "done", "nodev", "dead"}]
BY DEF NoReads

(* What failed is kept, and what fails with the handle on the mixer is noted. *)
LEMMA FailsNotes ==
  ASSUME FlagsTyped, NEW what \in Reads \cup {"thread", "arm"}, Fails(what)
  PROVE  /\ failed' \subseteq Reads \cup {"thread", "arm"} /\ failed \subseteq failed'
         /\ mconn => what \in failed'
BY DEF FlagsTyped, Fails

(* A submission leaves the other read alone, and with the handle on the mixer *)
(* its read is pending or noted as failed.                                    *)
LEMMA SubmitNotes ==
  ASSUME FlagsTyped, XferTyped, NEW r \in Reads, Submit(r)
  PROVE  /\ XferTyped' /\ failed' \subseteq Reads \cup {"thread", "arm"}
         /\ failed \subseteq failed'
         /\ \A q \in Reads \ {r} : xfer'[q] = xfer[q]
         /\ mconn => xfer'[r] = "flight" \/ r \in failed'
<1>1. CASE mconn /\ xfer' = [xfer EXCEPT ![r] = "flight"] /\ UNCHANGED failed
  BY <1>1 DEF FlagsTyped, XferTyped
<1>2. CASE xfer' = [xfer EXCEPT ![r] = "dead"] /\ Fails(r)
  BY <1>2, FailsNotes DEF XferTyped
<1> QED
  BY <1>1, <1>2 DEF Submit

(* Before systemd starts it, the daemon has no thread and no handle. *)
LEMMA DaemonInit == Init => DaemonInv
<1> SUFFICES ASSUME Init PROVE DaemonInv
  OBVIOUS
<1>1. FlagsTyped
  BY NoReadsTyped DEF Init, FlagsTyped
<1>2. PcsTyped
  BY NoReadsTyped DEF Init, PcsTyped
<1>3. CountTyped
  BY NoReadsTyped DEF Init, CountTyped
<1>4. XferTyped
  BY NoReadsTyped DEF Init, XferTyped
<1>5. MainPhases
  BY NoReadsTyped DEF Init, MainPhases
<1>6. ReadsClosed
  BY NoReadsTyped DEF Init, ReadsClosed
<1>7. GateSoFar
  BY NoReadsTyped DEF Init, GateSoFar
<1> QED
  BY <1>1, <1>2, <1>3, <1>4, <1>5, <1>6, <1>7 DEF DaemonInv

(* main: the start ... *)
LEMMA StartKeepsInv ==
  ASSUME DaemonInv, StartEngine \/ SeqSetup \/ CreateThread \/ MakeStreams \/ OnSignal
  PROVE  DaemonInv'
<1> USE Counted, NoReadsTyped
    DEF DaemonInv, FlagsTyped, PcsTyped, CountTyped, XferTyped, MainPhases, ReadsClosed,
        GateSoFar,
        Ready, Pending, Reads, StreamsOfNode, NoReads, mixerVars, mainVars, threadVars,
        history, Goto
<1>1. CASE StartEngine
  BY <1>1 DEF StartEngine
<1>2. CASE SeqSetup
  <2>1. FlagsTyped'
    <3>1. plugged' \in BOOLEAN /\ armed' \in BOOLEAN /\ armok' \in BOOLEAN
      BY <1>2 DEF SeqSetup, GiveUpStart
    <3>2. econn' \in BOOLEAN
      BY <1>2 DEF SeqSetup, GiveUpStart
    <3>3. mconn' \in BOOLEAN
      BY <1>2 DEF SeqSetup, GiveUpStart
    <3>4. g_stop' \in BOOLEAN /\ unplugged' \in BOOLEAN
      BY <1>2 DEF SeqSetup, GiveUpStart
    <3>5. failed' \subseteq Reads \cup {"thread", "arm"}
      BY <1>2 DEF SeqSetup, GiveUpStart
    <3>6. econn' \/ mconn' => plugged'
      BY <1>2 DEF SeqSetup, GiveUpStart
    <3> QED
      BY <3>1, <3>2, <3>3, <3>4, <3>5, <3>6
  <2>2. PcsTyped'
    BY <1>2 DEF SeqSetup, GiveUpStart
  <2>3. CountTyped'
    BY <1>2 DEF SeqSetup, GiveUpStart
  <2>4. XferTyped'
    BY <1>2 DEF SeqSetup, GiveUpStart
  <2>5. MainPhases'
    BY <1>2 DEF SeqSetup, GiveUpStart
  <2>6. ReadsClosed'
    BY <1>2 DEF SeqSetup, GiveUpStart
  <2>7. GateSoFar'
    BY <1>2 DEF SeqSetup, GiveUpStart
  <2> QED
    BY <2>1, <2>2, <2>3, <2>4, <2>5, <2>6, <2>7
<1>3. CASE CreateThread
  <2>1. FlagsTyped'
    <3>1. plugged' \in BOOLEAN /\ armed' \in BOOLEAN /\ armok' \in BOOLEAN
      BY <1>3 DEF CreateThread, GiveUpStart
    <3>2. econn' \in BOOLEAN
      BY <1>3 DEF CreateThread, GiveUpStart
    <3>3. mconn' \in BOOLEAN
      BY <1>3 DEF CreateThread, GiveUpStart
    <3>4. g_stop' \in BOOLEAN /\ unplugged' \in BOOLEAN
      BY <1>3 DEF CreateThread, GiveUpStart
    <3>5. failed' \subseteq Reads \cup {"thread", "arm"}
      BY <1>3 DEF CreateThread, GiveUpStart
    <3>6. econn' \/ mconn' => plugged'
      BY <1>3 DEF CreateThread, GiveUpStart
    <3> QED
      BY <3>1, <3>2, <3>3, <3>4, <3>5, <3>6
  <2>2. PcsTyped'
    BY <1>3 DEF CreateThread, GiveUpStart
  <2>3. CountTyped'
    BY <1>3 DEF CreateThread, GiveUpStart
  <2>4. XferTyped'
    BY <1>3 DEF CreateThread, GiveUpStart
  <2>5. MainPhases'
    BY <1>3 DEF CreateThread, GiveUpStart
  <2>6. ReadsClosed'
    BY <1>3 DEF CreateThread, GiveUpStart
  <2>7. GateSoFar'
    BY <1>3 DEF CreateThread, GiveUpStart
  <2> QED
    BY <2>1, <2>2, <2>3, <2>4, <2>5, <2>6, <2>7
<1>4. CASE MakeStreams
  BY <1>4 DEF MakeStreams
<1>5. CASE OnSignal
  BY <1>5 DEF OnSignal
<1> QED
  BY <1>1, <1>2, <1>3, <1>4, <1>5

(* ... and the shutdown. *)
LEMMA ShutdownKeepsInv ==
  ASSUME DaemonInv, Shutdown
  PROVE  DaemonInv'
<1> USE Counted, NoReadsTyped
    DEF DaemonInv, FlagsTyped, PcsTyped, CountTyped, XferTyped, MainPhases, ReadsClosed,
        GateSoFar,
        Ready, Pending, Reads, StreamsOfNode, NoReads, mixerVars, mainVars, threadVars,
        history, Goto
<1>1. CASE Join
  BY <1>1 DEF Join
<1>2. ASSUME NEW s \in StreamsOfNode, DestroyStream(s) PROVE DaemonInv'
  <2>1. /\ mpc = "destroy" /\ dpc # s /\ streams' = streams \ {s}
        /\ UNCHANGED <<mixerVars, g_stop, mpc, threadVars, xfer, dpc, history>>
    BY <1>2 DEF DestroyStream
  <2>2. MainPhases'
    BY <2>1
  <2>3. PcsTyped' /\ FlagsTyped' /\ CountTyped' /\ XferTyped'
    BY <2>1
  <2>4. ReadsClosed' /\ GateSoFar'
    BY <2>1
  <2> QED
    BY <2>2, <2>3, <2>4
<1>3. CASE StopEngine
  <2>1. MainPhases' /\ PcsTyped'
    BY <1>3 DEF StopEngine
  <2>2. FlagsTyped' /\ CountTyped' /\ XferTyped'
    BY <1>3 DEF StopEngine
  <2>3. ReadsClosed' /\ GateSoFar'
    BY <1>3 DEF StopEngine
  <2> QED
    BY <2>1, <2>2, <2>3
<1>4. CASE FreeSeq
  <2>1. MainPhases' /\ PcsTyped'
    BY <1>4 DEF FreeSeq
  <2>2. FlagsTyped' /\ CountTyped' /\ XferTyped'
    BY <1>4 DEF FreeSeq
  <2>3. ReadsClosed' /\ GateSoFar'
    BY <1>4 DEF FreeSeq
  <2> QED
    BY <2>1, <2>2, <2>3
<1> QED
  BY <1>1, <1>2, <1>3, <1>4 DEF Shutdown

(* The MIDI thread, up to its loop and out of it. *)
LEMMA ThreadKeepsInv ==
  ASSUME DaemonInv, Thread
  PROVE  DaemonInv'
<1> USE Counted, NoReadsTyped
    DEF DaemonInv, FlagsTyped, PcsTyped, CountTyped, XferTyped, MainPhases, ReadsClosed,
        GateSoFar,
        Ready, Pending, Reads, StreamsOfNode, NoReads, mixerVars, mainVars, threadVars,
        history, Goto
<1>1. CASE Open
  <2>1. FlagsTyped'
    <3>1. plugged' \in BOOLEAN /\ armed' \in BOOLEAN /\ armok' \in BOOLEAN
      BY <1>1 DEF Open, Fails
    <3>2. econn' \in BOOLEAN
      BY <1>1 DEF Open, Fails
    <3>3. mconn' \in BOOLEAN
      BY <1>1 DEF Open, Fails
    <3>4. g_stop' \in BOOLEAN /\ unplugged' \in BOOLEAN
      BY <1>1 DEF Open, Fails
    <3>5. failed' \subseteq Reads \cup {"thread", "arm"}
      BY <1>1 DEF Open, Fails
    <3>6. econn' \/ mconn' => plugged'
      BY <1>1 DEF Open, Fails
    <3> QED
      BY <3>1, <3>2, <3>3, <3>4, <3>5, <3>6
  <2>2. PcsTyped'
    BY <1>1 DEF Open, Fails
  <2>3. CountTyped'
    BY <1>1 DEF Open, Fails
  <2>4. XferTyped'
    BY <1>1 DEF Open, Fails
  <2>5. MainPhases'
    BY <1>1 DEF Open, Fails
  <2>6. ReadsClosed'
    BY <1>1 DEF Open, Fails
  <2>7. GateSoFar'
    BY <1>1 DEF Open, Fails
  <2> QED
    BY <2>1, <2>2, <2>3, <2>4, <2>5, <2>6, <2>7
<1>2. CASE ClaimMidi
  <2>1. CASE mconn /\ Submit("midi") /\ Goto("hid")
    <3>1. /\ XferTyped' /\ failed' \subseteq Reads \cup {"thread", "arm"}
          /\ xfer'["midi"] = "flight" \/ "midi" \in failed'
      BY <2>1, SubmitNotes
    <3> QED
      BY <1>2, <2>1, <3>1 DEF ClaimMidi
  <2>2. CASE Goto("out") /\ Fails("thread") /\ UNCHANGED xfer
    <3>1. failed' \subseteq Reads \cup {"thread", "arm"}
      BY <2>2, FailsNotes
    <3> QED
      BY <1>2, <2>2, <3>1 DEF ClaimMidi
  <2> QED
    BY <1>2, <2>1, <2>2 DEF ClaimMidi
<1>3. CASE ClaimHid
  <2>1. /\ XferTyped' /\ failed' \subseteq Reads \cup {"thread", "arm"}
        /\ failed \subseteq failed' /\ xfer'["midi"] = xfer["midi"]
        /\ mconn => xfer'["hid"] = "flight" \/ "hid" \in failed'
    <3>1. CASE mconn /\ Submit("hid")
      BY <3>1, SubmitNotes
    <3>2. CASE Fails("hid") /\ UNCHANGED xfer
      BY <3>2, FailsNotes
    <3> QED
      BY <1>3, <3>1, <3>2 DEF ClaimHid
  <2>2. /\ tpc = "hid" /\ tpc' = "settle" /\ count' = 0 /\ armok' = TRUE
        /\ UNCHANGED <<mixerVars, g_stop, mainVars, dpc, unplugged>>
    BY <1>3 DEF ClaimHid
  <2>3. GateSoFar'
    BY <2>1, <2>2
  <2> QED
    BY <2>1, <2>2, <2>3
<1>4. CASE Settle
  BY <1>4 DEF Settle
<1>5. CASE ArmStep
  <2>1. CASE count < ArmSteps
    <3>1. /\ tpc = "arm" /\ UNCHANGED tpc /\ ArmTransfer
          /\ UNCHANGED <<plugged, econn, mconn, g_stop, mainVars, xfer, dpc, unplugged>>
      BY <1>5, <2>1 DEF ArmStep
    <3>2. /\ failed' \subseteq Reads \cup {"thread", "arm"} /\ failed \subseteq failed'
          /\ mconn /\ count' = ArmSteps => armok' \/ "arm" \in failed'
      BY <3>1, FailsNotes DEF ArmTransfer
    <3>3. armok' \in BOOLEAN /\ armed' \in BOOLEAN
      BY <3>1 DEF ArmTransfer
    <3>4. FlagsTyped' /\ PcsTyped' /\ XferTyped'
      BY <3>1, <3>2, <3>3
    <3>5. CountTyped' /\ MainPhases' /\ ReadsClosed'
      BY <2>1, <3>1 DEF ArmTransfer
    <3>6. GateSoFar'
      BY <2>1, <3>1, <3>2 DEF ArmTransfer
    <3> QED
      BY <3>4, <3>5, <3>6
  <2>2. CASE ~(count < ArmSteps)
    <3>1. /\ tpc = "arm" /\ tpc' = "loop" /\ count' = 0
          /\ UNCHANGED <<mixerVars, armok, failed, g_stop, mainVars, xfer, dpc, unplugged>>
      BY <1>5, <2>2 DEF ArmStep
    <3>2. count = ArmSteps
      BY <2>2, <3>1
    <3>3. FlagsTyped' /\ PcsTyped' /\ CountTyped' /\ XferTyped' /\ MainPhases' /\ ReadsClosed'
      BY <3>1
    <3>4. GateSoFar'
      BY <3>1, <3>2
    <3> QED
      BY <3>3, <3>4
  <2> QED
    BY <2>1, <2>2
<1>6. CASE LoopTest
  BY <1>6 DEF LoopTest
<1>7. CASE LoopStep
  BY <1>7 DEF LoopStep
<1>8. CASE Cancel
  BY <1>8 DEF Cancel
<1>9. CASE Pump
  BY <1>9 DEF Pump
<1>10. CASE Close
  <2>1. FlagsTyped'
    BY <1>10 DEF Close
  <2>2. PcsTyped'
    BY <1>10 DEF Close
  <2>3. CountTyped'
    BY <1>10 DEF Close
  <2>4. XferTyped'
    BY <1>10 DEF Close
  <2>5. MainPhases'
    BY <1>10 DEF Close
  <2>6. ReadsClosed'
    BY <1>10 DEF Close
  <2>7. GateSoFar'
    BY <1>10 DEF Close
  <2> QED
    BY <2>1, <2>2, <2>3, <2>4, <2>5, <2>6, <2>7
<1> QED
  BY <1>1, <1>2, <1>3, <1>4, <1>5, <1>6, <1>7, <1>8, <1>9, <1>10 DEF Thread

(* A read that is reaped is submitted again, or the thread is about to end. *)
LEMMA CallbackKeepsInv ==
  ASSUME DaemonInv, NEW r \in Reads, Callback(r)
  PROVE  DaemonInv'
<1> USE Counted, NoReadsTyped
    DEF DaemonInv, FlagsTyped, PcsTyped, CountTyped, XferTyped, MainPhases, ReadsClosed,
        GateSoFar,
        Ready, Pending, Reads, StreamsOfNode, NoReads, mixerVars, mainVars, threadVars,
        history, Goto
<1>1. /\ HandlesEvents /\ Ready(r) /\ g_stop' = (g_stop \/ xfer[r] = "nodev")
      /\ UNCHANGED <<mixerVars, mainVars, threadVars, dpc, unplugged>>
  BY DEF Callback
<1>2. CASE ~g_stop' /\ Submit(r)
  <2>1. /\ XferTyped' /\ failed' \subseteq Reads \cup {"thread", "arm"}
        /\ failed \subseteq failed'
        /\ \A q \in Reads \ {r} : xfer'[q] = xfer[q]
        /\ mconn => xfer'[r] = "flight" \/ r \in failed'
    BY <1>2, SubmitNotes
  <2>2. FlagsTyped' /\ PcsTyped' /\ CountTyped' /\ MainPhases'
    BY <1>1, <2>1
  <2>3. ReadsClosed'
    BY <1>1, <1>2 DEF HandlesEvents
  <2>4. GateSoFar'
    BY <1>1, <1>2, <2>1 DEF HandlesEvents
  <2> QED
    BY <2>1, <2>2, <2>3, <2>4
<1>3. CASE g_stop' /\ Drop(r)
  <2>1. FlagsTyped' /\ PcsTyped' /\ CountTyped' /\ XferTyped' /\ MainPhases'
    BY <1>1, <1>3 DEF Drop
  <2>2. ReadsClosed'
    BY <1>1, <1>3 DEF Drop, HandlesEvents
  <2>3. GateSoFar'
    BY <1>1, <1>3 DEF Drop, HandlesEvents
  <2> QED
    BY <2>1, <2>2, <2>3
<1> QED
  BY <1>1, <1>2, <1>3 DEF Callback

(* The data thread, the mixer and the end of the process. *)
LEMMA OthersKeepInv ==
  ASSUME DaemonInv, Data \/ (\E r \in Reads : Complete(r)) \/ Unplug \/ Plug \/ Kill
  PROVE  DaemonInv'
<1> USE Counted, NoReadsTyped
    DEF DaemonInv, FlagsTyped, PcsTyped, CountTyped, XferTyped, MainPhases, ReadsClosed,
        GateSoFar,
        Ready, Pending, Reads, StreamsOfNode, NoReads, mixerVars, mainVars, threadVars,
        history, Goto
<1>1. ASSUME NEW s \in StreamsOfNode, Process(s) PROVE DaemonInv'
  BY <1>1 DEF Process
<1>2. CASE ProcessReturn
  BY <1>2 DEF ProcessReturn
<1>3. ASSUME NEW r \in Reads, Complete(r) PROVE DaemonInv'
  BY <1>3 DEF Complete
<1>4. CASE Unplug
  <2>1. FlagsTyped'
    BY <1>4 DEF Unplug
  <2>2. PcsTyped'
    BY <1>4 DEF Unplug
  <2>3. CountTyped'
    BY <1>4 DEF Unplug
  <2>4. XferTyped'
    BY <1>4 DEF Unplug
  <2>5. MainPhases'
    BY <1>4 DEF Unplug
  <2>6. ReadsClosed'
    BY <1>4 DEF Unplug
  <2>7. GateSoFar'
    BY <1>4 DEF Unplug
  <2> QED
    BY <2>1, <2>2, <2>3, <2>4, <2>5, <2>6, <2>7
<1>5. CASE Plug
  BY <1>5 DEF Plug
<1>6. CASE Kill
  <2>1. FlagsTyped'
    BY <1>6 DEF Kill
  <2>2. PcsTyped'
    BY <1>6 DEF Kill
  <2>3. CountTyped'
    BY <1>6 DEF Kill
  <2>4. XferTyped'
    BY <1>6 DEF Kill
  <2>5. MainPhases'
    BY <1>6 DEF Kill
  <2>6. ReadsClosed'
    BY <1>6 DEF Kill
  <2>7. GateSoFar'
    BY <1>6 DEF Kill
  <2> QED
    BY <2>1, <2>2, <2>3, <2>4, <2>5, <2>6, <2>7
<1> QED
  BY <1>1, <1>2, <1>3, <1>4, <1>5, <1>6 DEF Data

(* The inductive invariant holds in every reachable state of djm_full. *)
THEOREM DaemonInvariant == Spec => []DaemonInv
<1>1. DaemonInv /\ [Next]_vars => DaemonInv'
  <2> SUFFICES ASSUME DaemonInv, [Next]_vars PROVE DaemonInv'
    OBVIOUS
  <2>1. CASE UNCHANGED vars
    BY <2>1 DEF DaemonInv, FlagsTyped, PcsTyped, CountTyped, XferTyped, MainPhases,
        ReadsClosed,
                GateSoFar, Ready, Pending, vars, mixerVars, mainVars, threadVars, history
  <2> QED
    BY <2>1, StartKeepsInv, ShutdownKeepsInv, ThreadKeepsInv, CallbackKeepsInv, OthersKeepInv
       DEF Next, Main, Environment
<1> QED
  BY DaemonInit, <1>1, PTL DEF Spec

(* The types hold, and no loop of the thread counts past its end. *)
THEOREM DaemonTypes == Spec => []TypeOK
<1>1. DaemonInv => TypeOK
  BY DEF DaemonInv, FlagsTyped, PcsTyped, CountTyped, XferTyped, TypeOK
<1> QED
  BY DaemonInvariant, <1>1, PTL

(* The shutdown takes nothing from a thread that uses it (djm_full.c:256-264). *)
THEOREM DaemonSharesSafely == Spec => []SharedStateOutlivesItsUsers
<1>1. DaemonInv => SharedStateOutlivesItsUsers
  BY DEF DaemonInv, MainPhases, SharedStateOutlivesItsUsers
<1> QED
  BY DaemonInvariant, <1>1, PTL

(* The MIDI handle is closed with no read pending (djm_full.c:166-173), for   *)
(* any number of pumps.                                                       *)
THEOREM DaemonClosesQuietly == Spec => []NothingInFlightAtClose
<1>1. DaemonInv => NothingInFlightAtClose
  BY Counted DEF DaemonInv, ReadsClosed, NothingInFlightAtClose, Pending, Ready, NoReads
<1> QED
  BY DaemonInvariant, <1>1, PTL

(* The gate stays open (djm_full.c:103-165) for as long as the MIDI handle    *)
(* reaches the mixer, but for what failed with the mixer there, whatever the  *)
(* reads return and however long the arm is.                                  *)
THEOREM DaemonOpensTheGate == Spec => []GateIsOpen
<1>1. DaemonInv => GateIsOpen
  BY DEF DaemonInv, MainPhases, PcsTyped, GateSoFar, GateIsOpen
<1> QED
  BY DaemonInvariant, <1>1, PTL
=============================================================================
