--------------------------- MODULE UnifiedDaemon ----------------------------
(***************************************************************************)
(* midi/djm_full.c: the audio engine, the PipeWire node and the MIDI       *)
(* bridge in one process, restarted by systemd whenever it exits.          *)
(*                                                                         *)
(*   main    starts the engine, opens the sequencer, creates the MIDI      *)
(*           thread, runs PipeWire's loop, and shuts everything down;      *)
(*   midi    midi_thread: opens the mixer a second time, claims, arms, and *)
(*           serves its two reads until g_stop;                            *)
(*   data    PipeWire's thread inside on_source_process/on_sink_process.   *)
(*                                                                         *)
(* The engine is what IsoEngine shows it to be: started, streaming for as  *)
(* long as its handle reaches the mixer, and stopped by a call that        *)
(* returns.  libusb is as in MidiBridge: it may refuse a transfer, and a   *)
(* control transfer may fail, with the mixer there.                        *)
(***************************************************************************)
EXTENDS Integers

CONSTANTS
  ArmSteps,  \* control transfers of arm()
  Pumps      \* calls that reap the cancelled reads

ASSUME DaemonAssumption == {ArmSteps, Pumps} \subseteq Nat \ {0}

Reads == {"midi", "hid"}
StreamsOfNode == {"source", "sink"}

VARIABLES
  plugged, armed,      \* the mixer: attached, and armed since it was
  econn, mconn,        \* the engine's handle, the MIDI handle reach the attached mixer
  g_stop,
  mpc, streams,        \* main: where it is; the PipeWire streams that exist
  tpc, count, armok,   \* MIDI thread: where, arm steps or pumps done, ok in arm()
  xfer,                \* each read: none, flight, done or nodev (to be reaped), or dead
  dpc,                 \* data thread: the stream whose callback it is in
  unplugged, failed    \* history of this process: the mixer went; what failed with it there

mixerVars == <<plugged, armed, econn, mconn>>
mainVars == <<mpc, streams>>
threadVars == <<tpc, count, armok>>
history == <<unplugged, failed>>
vars == <<mixerVars, g_stop, mainVars, threadVars, xfer, dpc, history>>

NoReads == [r \in Reads |-> "none"]
Ready(r) == xfer[r] \in {"done", "nodev"}
Pending(r) == xfer[r] = "flight" \/ Ready(r)
HandlesEvents == tpc \in {"settle", "arm", "events", "drain", "pump"}

Init ==
  /\ plugged \in BOOLEAN /\ armed = FALSE /\ econn = FALSE /\ mconn = FALSE
  /\ g_stop = FALSE /\ mpc = "down" /\ streams = {}
  /\ tpc = "none" /\ count = 0 /\ armok = TRUE /\ xfer = NoReads
  /\ dpc = "idle" /\ unplugged = FALSE /\ failed = {}

-----------------------------------------------------------------------------
(* main *)

(* systemd starts the process and djmt1_iso_start opens the mixer.  (Without *)
(* it the process exits and is started again: nothing of the state changes.) *)
StartEngine ==
  /\ mpc = "down" /\ plugged
  /\ mpc' = "seq"
  /\ econn' = TRUE /\ g_stop' = FALSE /\ unplugged' = FALSE /\ failed' = {}
  /\ UNCHANGED <<plugged, armed, mconn, streams, threadVars, xfer, dpc>>

(* A failure of seq_setup or of pthread_create stops the engine and exits. *)
GiveUpStart == mpc' = "down" /\ econn' = FALSE

SeqSetup ==
  /\ mpc = "seq"
  /\ \/ mpc' = "thread" /\ UNCHANGED econn
     \/ GiveUpStart
  /\ UNCHANGED <<plugged, armed, mconn, g_stop, streams, threadVars, xfer, dpc, history>>

CreateThread ==
  /\ mpc = "thread"
  /\ \/ mpc' = "streams" /\ tpc' = "open" /\ UNCHANGED econn
     \/ GiveUpStart /\ UNCHANGED tpc
  /\ UNCHANGED <<plugged, armed, mconn, g_stop, streams, count, armok, xfer, dpc, history>>

MakeStreams ==
  /\ mpc = "streams"
  /\ mpc' = "loop" /\ streams' = StreamsOfNode
  /\ UNCHANGED <<mixerVars, g_stop, threadVars, xfer, dpc, history>>

(* fault: the signal ends the loop but does not stop the MIDI thread *)
OnSignalQuitsOnly ==
  /\ mpc = "loop"
  /\ mpc' = "join"
  /\ UNCHANGED <<mixerVars, g_stop, streams, threadVars, xfer, dpc, history>>

(* on_signal, and main out of pw_main_loop_run *)
OnSignal ==
  /\ mpc = "loop"
  /\ mpc' = "join" /\ g_stop' = TRUE
  /\ UNCHANGED <<mixerVars, streams, threadVars, xfer, dpc, history>>

(* fault: the MIDI thread is not waited for *)
JoinDetached ==
  /\ mpc = "join"
  /\ mpc' = "destroy"
  /\ UNCHANGED <<mixerVars, g_stop, streams, threadVars, xfer, dpc, history>>

Join ==
  /\ mpc = "join" /\ tpc = "exited"
  /\ mpc' = "destroy" /\ tpc' = "none"
  /\ UNCHANGED <<mixerVars, g_stop, streams, count, armok, xfer, dpc, history>>

(* pw_stream_destroy returns once the data thread is out of the stream. *)
DestroyStream(s) ==
  /\ mpc = "destroy" /\ s \in streams /\ dpc # s
  /\ s = "sink" => "source" \notin streams
  /\ streams' = streams \ {s}
  /\ UNCHANGED <<mixerVars, g_stop, mpc, threadVars, xfer, dpc, history>>

(* djmt1_iso_stop *)
StopEngine ==
  /\ mpc = "destroy" /\ streams = {}
  /\ mpc' = "free" /\ econn' = FALSE
  /\ UNCHANGED <<plugged, armed, mconn, g_stop, streams, threadVars, xfer, dpc, history>>

(* The codecs and the sequencer are freed and the process exits. *)
FreeSeq ==
  /\ mpc = "free"
  /\ mpc' = "down"
  /\ UNCHANGED <<mixerVars, g_stop, streams, threadVars, xfer, dpc, history>>

-----------------------------------------------------------------------------
(* midi_thread *)

Goto(l) == tpc' = l /\ count' = 0

(* A call of the thread may fail, with the mixer there or not. *)
Fails(what) ==
  failed' = failed \cup (IF mconn \/ (plugged /\ tpc = "open") THEN {what} ELSE {})

(* libusb_init and the second open; the thread ends when one fails. *)
Open ==
  /\ tpc = "open"
  /\ \/ plugged /\ mconn' = TRUE /\ Goto("claim") /\ UNCHANGED failed
     \/ Goto("exited") /\ Fails("thread") /\ UNCHANGED mconn
  /\ UNCHANGED <<plugged, armed, econn, g_stop, mainVars, armok, xfer, dpc, unplugged>>

(* libusb_submit_transfer, its result ignored: what is refused is lost. *)
Submit(r) ==
  \/ mconn /\ xfer' = [xfer EXCEPT ![r] = "flight"] /\ UNCHANGED failed
  \/ xfer' = [xfer EXCEPT ![r] = "dead"] /\ Fails(r)

(* The callback returns without submitting. *)
Drop(r) == xfer' = [xfer EXCEPT ![r] = "dead"] /\ UNCHANGED failed

(* Without the MIDI interface the thread goes out at once. *)
ClaimMidi ==
  /\ tpc = "claim"
  /\ \/ mconn /\ Submit("midi") /\ Goto("hid")
     \/ Goto("out") /\ Fails("thread") /\ UNCHANGED xfer
  /\ UNCHANGED <<mixerVars, g_stop, mainVars, armok, dpc, unplugged>>

(* Without the HID interface it warns and goes on (hx stays NULL). *)
ClaimHid ==
  /\ tpc = "hid"
  /\ Goto("settle") /\ armok' = TRUE
  /\ \/ mconn /\ Submit("hid")
     \/ Fails("hid") /\ UNCHANGED xfer
  /\ UNCHANGED <<mixerVars, g_stop, mainVars, dpc, unplugged>>

(* fault: the thread serves without arming the mixer *)
SettleWithoutArm ==
  /\ tpc = "settle"
  /\ Goto("loop")
  /\ UNCHANGED <<mixerVars, g_stop, mainVars, armok, xfer, dpc, history>>

(* At most ten calls that handle events, fewer once g_stop is set. *)
Settle ==
  /\ tpc = "settle"
  /\ Goto("arm")
  /\ UNCHANGED <<mixerVars, g_stop, mainVars, armok, xfer, dpc, history>>

(* A control transfer of arm(); whether a write among them stalled or timed  *)
(* out with the mixer there is drawn at the last.                            *)
ArmTransfer ==
  /\ count' = count + 1
  /\ armok' \in {armok /\ mconn} \cup (IF count' = ArmSteps THEN {FALSE} ELSE {})
  /\ armed' = (armed \/ (count' = ArmSteps /\ armok'))
  /\ IF count' = ArmSteps /\ ~armok' THEN Fails("arm") ELSE UNCHANGED failed

(* fault: one control transfer too many *)
ArmStepOneMore ==
  /\ tpc = "arm"
  /\ IF count <= ArmSteps
       THEN ArmTransfer /\ UNCHANGED tpc
       ELSE Goto("loop") /\ UNCHANGED <<armok, armed, failed>>
  /\ UNCHANGED <<plugged, econn, mconn, g_stop, mainVars, xfer, dpc, unplugged>>

(* arm(): eight control transfers one after the other, whatever they return. *)
(* A failure is a warning, and is not tried again.                           *)
ArmStep ==
  /\ tpc = "arm"
  /\ IF count < ArmSteps
       THEN ArmTransfer /\ UNCHANGED tpc
       ELSE Goto("loop") /\ UNCHANGED <<armok, armed, failed>>
  /\ UNCHANGED <<plugged, econn, mconn, g_stop, mainVars, xfer, dpc, unplugged>>

(* The loop looks at g_stop, handles events (Callback), and drains the       *)
(* sequencer, which sends to the mixer and so handles events as well.        *)
LoopTest ==
  /\ tpc = "loop"
  /\ Goto(IF g_stop THEN "cancel" ELSE "events")
  /\ UNCHANGED <<mixerVars, g_stop, mainVars, armok, xfer, dpc, history>>

LoopStep ==
  /\ \/ tpc = "events" /\ Goto("drain")
     \/ tpc = "drain" /\ Goto("loop")
  /\ UNCHANGED <<mixerVars, g_stop, mainVars, armok, xfer, dpc, history>>

(* fault: only the MIDI read is cancelled *)
CancelMidiOnly ==
  /\ tpc = "cancel"
  /\ Goto("pump")
  /\ xfer' = [r \in Reads |-> IF xfer[r] = "flight" /\ r = "midi" THEN "done" ELSE xfer[r]]
  /\ UNCHANGED <<mixerVars, g_stop, mainVars, armok, dpc, history>>

(* Both reads are cancelled: the ones in flight are to be reaped. *)
Cancel ==
  /\ tpc = "cancel"
  /\ Goto("pump")
  /\ xfer' = [r \in Reads |-> IF xfer[r] = "flight" THEN "done" ELSE xfer[r]]
  /\ UNCHANGED <<mixerVars, g_stop, mainVars, armok, dpc, history>>

(* A call that handles events returns without reaping when nothing is ready. *)
Pump ==
  /\ tpc = "pump" /\ count < Pumps /\ ~\E r \in Reads : Ready(r)
  /\ count' = count + 1
  /\ UNCHANGED <<mixerVars, g_stop, mainVars, tpc, armok, xfer, dpc, history>>

(* The interfaces are released, the handle and the context closed. *)
Close ==
  /\ tpc = "out" \/ (tpc = "pump" /\ count = Pumps)
  /\ Goto("exited") /\ mconn' = FALSE /\ xfer' = NoReads
  /\ UNCHANGED <<plugged, armed, econn, g_stop, mainVars, armok, dpc, history>>

(* fault: the HID read is not submitted again *)
CallbackOnce(r) ==
  /\ HandlesEvents /\ Ready(r)
  /\ g_stop' = (g_stop \/ xfer[r] = "nodev")
  /\ IF ~g_stop' /\ r = "midi" THEN Submit(r) ELSE Drop(r)
  /\ UNCHANGED <<mixerVars, mainVars, threadVars, dpc, unplugged>>

(* midi_cb, hid_cb: NO_DEVICE stops the thread; anything else is submitted   *)
(* again until g_stop, and whether that worked is not looked at.             *)
Callback(r) ==
  /\ HandlesEvents /\ Ready(r)
  /\ g_stop' = (g_stop \/ xfer[r] = "nodev")
  /\ IF ~g_stop' THEN Submit(r) ELSE Drop(r)
  /\ UNCHANGED <<mixerVars, mainVars, threadVars, dpc, unplugged>>

-----------------------------------------------------------------------------
(* PipeWire's data thread, the mixer, the end of the process *)

(* on_source_process reads from the engine, on_sink_process writes to it. *)
Process(s) ==
  /\ dpc = "idle" /\ s \in streams
  /\ dpc' = s
  /\ UNCHANGED <<mixerVars, g_stop, mainVars, threadVars, xfer, history>>

ProcessReturn ==
  /\ dpc # "idle"
  /\ dpc' = "idle"
  /\ UNCHANGED <<mixerVars, g_stop, mainVars, threadVars, xfer, history>>

(* The mixer answers a read, with data or with an error. *)
Complete(r) ==
  /\ xfer[r] = "flight" /\ mconn
  /\ xfer' = [xfer EXCEPT ![r] = "done"]
  /\ UNCHANGED <<mixerVars, g_stop, mainVars, threadVars, dpc, history>>

(* A read in flight ends with NO_DEVICE or with another error. *)
Unplug ==
  /\ plugged
  /\ plugged' = FALSE /\ armed' = FALSE /\ econn' = FALSE /\ mconn' = FALSE
  /\ unplugged' = TRUE
  /\ xfer' \in [Reads -> {"none", "done", "nodev", "dead"}]
  /\ \A r \in Reads : IF xfer[r] = "flight" THEN xfer'[r] \in {"done", "nodev"}
                      ELSE xfer'[r] = xfer[r]
  /\ UNCHANGED <<g_stop, mainVars, threadVars, dpc, failed>>

Plug ==
  /\ ~plugged
  /\ plugged' = TRUE
  /\ UNCHANGED <<armed, econn, mconn, g_stop, mainVars, threadVars, xfer, dpc, history>>

(* A signal before the loop takes signals, or one nobody can catch. *)
Kill ==
  /\ mpc # "down"
  /\ mpc' = "down" /\ streams' = {} /\ Goto("none") /\ xfer' = NoReads /\ dpc' = "idle"
  /\ econn' = FALSE /\ mconn' = FALSE
  /\ UNCHANGED <<plugged, armed, g_stop, armok, history>>

-----------------------------------------------------------------------------
Shutdown == Join \/ (\E s \in StreamsOfNode : DestroyStream(s)) \/ StopEngine \/ FreeSeq
Main == StartEngine \/ SeqSetup \/ CreateThread \/ MakeStreams \/ Shutdown
Thread ==
  \/ Open \/ ClaimMidi \/ ClaimHid \/ Settle \/ ArmStep \/ LoopTest \/ LoopStep
  \/ Cancel \/ Pump \/ Close
Data == (\E s \in StreamsOfNode : Process(s)) \/ ProcessReturn
Environment == OnSignal \/ (\E r \in Reads : Complete(r)) \/ Unplug \/ Plug \/ Kill

Next == Main \/ Thread \/ (\E r \in Reads : Callback(r)) \/ Data \/ Environment

(* The threads run, drain_seq_input returns, what is ready is reaped while   *)
(* the other read keeps completing, and pw_stream_destroy gets its turn      *)
(* between process calls that keep coming.  The mixer, the user and signals  *)
(* promise nothing.                                                          *)
Fairness ==
  /\ WF_vars(Main) /\ WF_vars(Thread) /\ WF_vars(ProcessReturn)
  /\ \A s \in StreamsOfNode : SF_vars(DestroyStream(s))
  /\ \A r \in Reads : SF_vars(Callback(r))

Spec == Init /\ [][Next]_vars /\ Fairness

-----------------------------------------------------------------------------
(* Properties *)

(* The types of the state; a handle reaches the mixer only while it is there. *)
TypeOK ==
  /\ plugged \in BOOLEAN /\ armed \in BOOLEAN /\ econn \in BOOLEAN /\ mconn \in BOOLEAN
  /\ econn \/ mconn => plugged
  /\ g_stop \in BOOLEAN /\ unplugged \in BOOLEAN
  /\ failed \subseteq Reads \cup {"thread", "arm"}
  /\ mpc \in {"down", "seq", "thread", "streams", "loop", "join", "destroy", "free"}
  /\ streams \subseteq StreamsOfNode /\ dpc \in StreamsOfNode \cup {"idle"}
  /\ tpc \in {"none", "open", "claim", "hid", "settle", "arm", "loop", "events", "drain",
              "cancel", "pump", "out", "exited"}
  /\ count \in Nat
  /\ count > 0 => (tpc = "arm" /\ count <= ArmSteps) \/ (tpc = "pump" /\ count <= Pumps)
  /\ armok \in BOOLEAN /\ xfer \in [Reads -> {"none", "flight", "done", "nodev", "dead"}]

(* The shutdown (djm_full.c:256-264) and the failing starts (:242, :244)     *)
(* take away nothing that another thread uses: the streams' engine goes when *)
(* no process callback is in it or can enter it, the sequencer and its       *)
(* codecs go when the MIDI thread is gone, wherever the signal found it.     *)
SharedStateOutlivesItsUsers ==
  /\ mpc \in {"free", "down"} => streams = {} /\ dpc = "idle"
  /\ mpc \in {"free", "down", "destroy"} => tpc = "none"
  /\ dpc # "idle" => dpc \in streams

(* The MIDI thread closes its handle (djm_full.c:173) only when no read is   *)
(* in flight or waiting for its callback, on every way out: NO_DEVICE, a     *)
(* signal in the middle of arm(), an interface it could not claim.           *)
NothingInFlightAtClose ==
  tpc = "out" \/ (tpc = "pump" /\ count = Pumps) => ~\E r \in Reads : Pending(r)

(* The thread that says "MIDI armed" (djm_full.c:159) serves, as long as its *)
(* handle reaches the mixer, a mixer that is armed and has both reads        *)
(* pending, except for what failed outright: an arm write, an interface that *)
(* was not claimed, a read libusb refused.  No error of a read, race with    *)
(* arm(), replug before the open or event sent meanwhile closes the gate.    *)
GateIsOpen ==
  tpc \in {"loop", "events", "drain"} /\ mconn /\ ~g_stop =>
    /\ armed \/ "arm" \in failed
    /\ \A r \in Reads : Pending(r) \/ r \in failed

(* djm_full.c:2-4: "It owns all four USB pipes, so the MIDI gate's "a live    *)
(* audio session must exist" precondition is always met": the mixer that the *)
(* MIDI thread arms and serves is one the engine's session is live on.       *)
PreconditionIsAlwaysMet ==
  tpc \in {"arm", "loop", "events", "drain"} /\ mconn => econn

Serving == tpc = "events" /\ armed /\ econn /\ mconn

(* A daemon in PipeWire's loop comes to serve the mixer, unless the mixer    *)
(* was unplugged or a call of the MIDI thread failed, of which main is not   *)
(* told: the process then lives on without it until it is stopped.           *)
LoopLeadsToService == (mpc = "loop") ~> (Serving \/ unplugged \/ failed # {} \/ mpc # "loop")

(* What is told to stop does.  A read that ends with NO_DEVICE, or a signal, *)
(* ends the MIDI thread from wherever it is: settling, in the middle of the  *)
(* arm, or sending.  After a signal (djm_full.c:253) the daemon exits:       *)
(* joining the thread, destroying the streams and stopping the engine each   *)
(* end, whatever the mixer does.                                             *)
StopEnds ==
  /\ (g_stop \/ \E r \in Reads : xfer[r] = "nodev") ~> (tpc \in {"none", "exited"})
  /\ (mpc = "join") ~> (mpc = "down")
=============================================================================
