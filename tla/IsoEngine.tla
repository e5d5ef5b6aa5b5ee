----------------------------- MODULE IsoEngine ------------------------------
(***************************************************************************)
(* The isochronous engine of audio/djmt1_iso.c under the PipeWire node of  *)
(* audio/djmt1-pipewire.c, where three threads meet in it:                 *)
(*                                                                         *)
(*   main    starts the engine, runs the PipeWire loop, and on SIGINT or   *)
(*           SIGTERM destroys the streams and stops the engine;            *)
(*   iso     iso_thread: reaps completed transfers inside                  *)
(*           libusb_handle_events_timeout, which runs in_cb and out_cb;    *)
(*   data    PipeWire's real-time thread: on_source_process and            *)
(*           on_sink_process.                                              *)
(*                                                                         *)
(* audio/djmt1-monitor.c runs the engine without PipeWire: main itself is  *)
(* the client, reads, writes a tone, and stops when its time is over.      *)
(*                                                                         *)
(* The rings are the bounded queues SpscRing is shown to be, reduced to    *)
(* how many frames they hold: a call is granted its frames in one step and *)
(* takes effect in the next.  Allocation and pthread_create are taken to   *)
(* succeed (djmt1_iso_start does not look).                                *)
(***************************************************************************)
EXTENDS Integers, FiniteSets

CONSTANTS
  NXFR,        \* transfers per direction
  NPKT,        \* packets of a transfer
  MaxPacket,   \* IN_MAX_FRAMES: the most frames one IN packet brings
  PerPacket,   \* FRAMES_PER_PKT: the frames one OUT packet takes
  RingFrames,  \* the ring_frames argument of djmt1_iso_start
  Quantum      \* the most frames one PipeWire buffer holds

ASSUME EngineAssumption ==
  {NXFR, NPKT, MaxPacket, PerPacket, RingFrames, Quantum} \subseteq Nat \ {0}

Transfers == {"in", "out"} \X (1..NXFR)
Directions == {"in", "out"}

VARIABLES
  mpc, mi,          \* main: where it is, and the index of its loops
  running,          \* e->running
  valid,            \* the open handle still reaches the device
  refused,          \* history: a submission failed although valid
  wire, done,       \* transfers the kernel holds; transfers completed, not yet reaped:
                    \* libusb lists both
  freed,            \* transfers djmt1_iso_stop has freed
  inflight,         \* e->inflight
  tpc, cb, pk, nf, k, \* iso thread: where, transfer and packets left, frames asked, granted
  capLen, playLen,  \* frames in cap_ring and play_ring
  streams,          \* PipeWire streams that exist, or the monitor as the only client
  dpc, want, dk     \* client: the call or callback it is in, frames asked, granted

mainVars == <<mpc, mi, running, streams>>
usbVars == <<valid, refused, wire, done, freed>>
isoVars == <<tpc, cb, pk, nf, k>>
dataVars == <<dpc, want, dk>>
rings == <<capLen, playLen>>
vars == <<mainVars, usbVars, inflight, isoVars, dataVars, rings>>

Least(a, b) == IF a <= b THEN a ELSE b

NoTransfer == <<"none", 0>>

(* The order in which djmt1_iso_start submits and djmt1_iso_stop cancels. *)
Nth(i) == <<IF i % 2 = 1 THEN "in" ELSE "out", (i + 1) \div 2>>

Init ==
  /\ mpc = "off" /\ mi = 0 /\ running = FALSE /\ streams = {}
  /\ valid = FALSE /\ refused = FALSE /\ wire = {} /\ done = {}
  /\ freed = {} /\ inflight = 0
  /\ tpc = "none" /\ cb = NoTransfer /\ pk = 0 /\ nf = 0 /\ k = 0
  /\ capLen = 0 /\ playLen = 0
  /\ dpc = "idle" /\ want = 0 /\ dk = 0

(* libusb_submit_transfer: the kernel takes the transfer, or refuses it.  It *)
(* always refuses on a handle whose device is gone.                          *)
Accept(x) ==
  /\ valid
  /\ wire' = wire \cup {x}
  /\ UNCHANGED <<valid, refused, done, freed>>
Refuse ==
  /\ refused' = (refused \/ valid)
  /\ UNCHANGED <<valid, wire, done, freed>>

-----------------------------------------------------------------------------
(* main: djmt1_iso_start, the PipeWire loop, djmt1_iso_stop *)

(* Open, claim and alternate setting succeed; the rings are empty and the    *)
(* engine runs.  (When they fail, djmt1_iso_start returns NULL, the process  *)
(* exits and systemd starts it again: nothing of the state changes.)         *)
StartOpen ==
  /\ mpc = "off"
  /\ mpc' = "submit" /\ mi' = 1
  /\ running' = TRUE /\ valid' = TRUE
  /\ UNCHANGED <<refused, wire, done, freed, inflight, isoVars, dataVars, rings, streams>>

(* One submission of the loop; a refused one is skipped without an error. *)
StartSubmit ==
  /\ mpc = "submit" /\ mi <= 2 * NXFR
  /\ mi' = mi + 1
  /\ \/ Accept(Nth(mi)) /\ inflight' = inflight + 1
     \/ Refuse /\ UNCHANGED inflight
  /\ UNCHANGED <<mpc, running, streams, isoVars, dataVars, rings>>

StartThread ==
  /\ mpc = "submit" /\ mi > 2 * NXFR
  /\ mpc' = "started"
  /\ tpc' = "loop"
  /\ UNCHANGED <<mi, running, streams, usbVars, inflight, cb, pk, nf, k, dataVars, rings>>

MakeStreams ==
  /\ mpc = "started"
  /\ mpc' = "up"
  /\ streams' = {"source", "sink"}
  /\ UNCHANGED <<mi, running, usbVars, inflight, isoVars, dataVars, rings>>

(* SIGINT or SIGTERM ends pw_main_loop_run. *)
DoQuit ==
  /\ mpc = "up" /\ "monitor" \notin streams
  /\ mpc' = "destroy"
  /\ UNCHANGED <<mi, running, streams, usbVars, inflight, isoVars, dataVars, rings>>

(* fault: the engine is stopped before the streams are destroyed *)
StopFlagFirst ==
  /\ mpc = "destroy"
  /\ mpc' = "cancel" /\ mi' = 1
  /\ running' = FALSE
  /\ UNCHANGED <<streams, usbVars, inflight, isoVars, dataVars, rings>>

(* pw_stream_destroy returns once the data thread is out of the stream.      *)
DestroyStream(s) ==
  /\ mpc = "destroy" /\ s \in streams
  /\ s = "sink" => "source" \notin streams
  /\ dpc # s
  /\ streams' = streams \ {s}
  /\ UNCHANGED <<mpc, mi, running, usbVars, inflight, isoVars, dataVars, rings>>

(* fault: the transfers are cancelled before running is cleared *)
StopFlagLate ==
  /\ mpc = "destroy" /\ streams = {}
  /\ mpc' = "cancel" /\ mi' = 1
  /\ UNCHANGED <<running, streams, usbVars, inflight, isoVars, dataVars, rings>>

(* djmt1_iso_stop stores running = 0 ... *)
StopFlag ==
  /\ mpc = "destroy" /\ streams = {}
  /\ mpc' = "cancel" /\ mi' = 1
  /\ running' = FALSE
  /\ UNCHANGED <<streams, usbVars, inflight, isoVars, dataVars, rings>>

(* ... cancels every transfer: one the kernel still holds completes at once  *)
(* as CANCELLED, any other is left as it is ...                              *)
StopCancel ==
  /\ mpc = "cancel" /\ mi <= 2 * NXFR
  /\ mi' = mi + 1
  /\ IF Nth(mi) \in wire
       THEN wire' = wire \ {Nth(mi)} /\ done' = done \cup {Nth(mi)}
       ELSE UNCHANGED <<wire, done>>
  /\ UNCHANGED <<mpc, running, streams, valid, refused, freed, inflight, isoVars, dataVars,
                 rings>>

(* ... waits for the thread (pthread_join) ...                               *)
StopJoin ==
  /\ mpc = "cancel" /\ mi > 2 * NXFR
  /\ tpc = "exited"
  /\ mpc' = "free" /\ tpc' = "none"
  /\ UNCHANGED <<mi, running, streams, usbVars, inflight, cb, pk, nf, k, dataVars, rings>>

(* ... and frees the transfers one after another, whether or not libusb still *)
(* lists them: nothing reaps between the join and here, ...                    *)
StopFree ==
  /\ mpc = "free"
  /\ \E i \in 1..(2 * NXFR) :
       /\ \A j \in 1..(2 * NXFR) : Nth(j) \in freed <=> j < i
       /\ freed' = freed \cup {Nth(i)}
  /\ UNCHANGED <<mpc, mi, running, streams, valid, refused, wire, done, inflight, isoVars,
                 dataVars, rings>>

(* ... then libusb's handle and context, which drop what they list, and the    *)
(* rings and the engine.                                                       *)
StopClose ==
  /\ mpc = "free" /\ freed = Transfers
  /\ mpc' = "off" /\ mi' = 0
  /\ valid' = FALSE /\ refused' = FALSE /\ wire' = {} /\ done' = {} /\ freed' = {}
  /\ inflight' = 0 /\ capLen' = 0 /\ playLen' = 0
  /\ UNCHANGED <<running, streams, isoVars, dataVars>>

-----------------------------------------------------------------------------
(* The device and the kernel's USB stack *)

(* A transfer completes, with whatever status. *)
Complete(x) ==
  /\ valid /\ x \in wire
  /\ wire' = wire \ {x} /\ done' = done \cup {x}
  /\ UNCHANGED <<mainVars, valid, refused, freed, inflight, isoVars, dataVars, rings>>

(* The mixer is unplugged: everything the kernel holds completes. *)
Unplug ==
  /\ valid
  /\ valid' = FALSE
  /\ wire' = {} /\ done' = done \cup wire
  /\ UNCHANGED <<mainVars, refused, freed, inflight, isoVars, dataVars, rings>>

-----------------------------------------------------------------------------
(* iso_thread, in_cb and out_cb *)

(* fault: the thread stays until no transfer is in flight *)
ThreadTestDrained ==
  /\ tpc = "loop"
  /\ tpc' = IF running \/ inflight > 0 THEN "events" ELSE "exited"
  /\ UNCHANGED <<mainVars, usbVars, inflight, cb, pk, nf, k, dataVars, rings>>

(* iso_thread goes on while running is set. *)
ThreadTest ==
  /\ tpc = "loop"
  /\ tpc' = IF running THEN "events" ELSE "exited"
  /\ UNCHANGED <<mainVars, usbVars, inflight, cb, pk, nf, k, dataVars, rings>>

(* libusb_handle_events_timeout returns after events, or after 100 ms. *)
ThreadReturn ==
  /\ tpc = "events"
  /\ tpc' = "loop"
  /\ UNCHANGED <<mainVars, usbVars, inflight, cb, pk, nf, k, dataVars, rings>>

(* fault: a callback gives up a transfer that ended in an error *)
ReapOrGiveUp ==
  /\ tpc = "events"
  /\ cb' \in done /\ done' = done \ {cb'}
  /\ tpc' \in {"check", "giveup"}
  /\ UNCHANGED <<mainVars, valid, refused, wire, freed, inflight, pk, nf, k, dataVars, rings>>

(* A completed transfer is reaped and its callback entered, whatever its status. *)
Reap ==
  /\ tpc = "events"
  /\ cb' \in done /\ done' = done \ {cb'}
  /\ tpc' = IF cb'[1] = "in" THEN "packets" ELSE "fill"
  /\ pk' = IF cb'[1] = "in" THEN NPKT ELSE 0
  /\ UNCHANGED <<mainVars, valid, refused, wire, freed, inflight, nf, k, dataVars, rings>>

(* in_cb skips a packet that failed or is empty ... *)
InSkip ==
  /\ tpc = "packets" /\ pk > 0
  /\ pk' = pk - 1
  /\ UNCHANGED <<mainVars, usbVars, inflight, tpc, cb, nf, k, dataVars, rings>>

(* fault: the write does not look at the free space *)
InOfferUnclipped ==
  /\ tpc = "packets" /\ pk > 0
  /\ nf' \in 1..MaxPacket
  /\ k' = nf'
  /\ tpc' = "write"
  /\ UNCHANGED <<mainVars, usbVars, inflight, cb, pk, dataVars, rings>>

(* ... and offers the frames of any other to the capture ring; ... *)
InOffer ==
  /\ tpc = "packets" /\ pk > 0
  /\ nf' \in 1..MaxPacket
  /\ k' = Least(nf', RingFrames - capLen)
  /\ tpc' = "write"
  /\ UNCHANGED <<mainVars, usbVars, inflight, cb, pk, dataVars, rings>>

(* ... what does not fit is thrown away and counted once per packet. *)
InWrite ==
  /\ tpc = "write"
  /\ capLen' = capLen + k
  /\ tpc' = "packets" /\ pk' = pk - 1 /\ nf' = 0 /\ k' = 0
  /\ UNCHANGED <<mainVars, usbVars, inflight, cb, playLen, dataVars>>

InDone ==
  /\ tpc = "packets" /\ pk = 0
  /\ tpc' = "check"
  /\ UNCHANGED <<mainVars, usbVars, inflight, cb, pk, nf, k, dataVars, rings>>

(* out_cb asks the playback ring for a whole transfer, whatever the status, ... *)
OutAsk ==
  /\ tpc = "fill"
  /\ nf' = NPKT * PerPacket
  /\ k' = Least(nf', playLen)
  /\ tpc' = "take"
  /\ UNCHANGED <<mainVars, usbVars, inflight, cb, pk, dataVars, rings>>

(* ... and makes up with silence, counted, for what is missing. *)
OutTake ==
  /\ tpc = "take"
  /\ playLen' = playLen - k
  /\ tpc' = "check" /\ nf' = 0 /\ k' = 0
  /\ UNCHANGED <<mainVars, usbVars, inflight, cb, pk, capLen, dataVars>>

(* Both callbacks end alike: they look at running, ... *)
Check ==
  /\ tpc = "check"
  /\ tpc' = IF running THEN "resubmit" ELSE "giveup"
  /\ UNCHANGED <<mainVars, usbVars, inflight, cb, pk, nf, k, dataVars, rings>>

(* fault: a refused transfer is still counted as in flight *)
ResubmitUncounted ==
  /\ tpc = "resubmit"
  /\ Accept(cb) \/ Refuse
  /\ tpc' = "events" /\ cb' = NoTransfer
  /\ UNCHANGED <<mainVars, inflight, pk, nf, k, dataVars, rings>>

(* ... submit the transfer again, ...                                        *)
Resubmit ==
  /\ tpc = "resubmit"
  /\ \/ Accept(cb) /\ tpc' = "events" /\ cb' = NoTransfer
     \/ Refuse /\ tpc' = "giveup" /\ UNCHANGED cb
  /\ UNCHANGED <<mainVars, inflight, pk, nf, k, dataVars, rings>>

(* ... and give it up for good when they do not or cannot.                   *)
GiveUp ==
  /\ tpc = "giveup"
  /\ inflight' = inflight - 1
  /\ tpc' = "events" /\ cb' = NoTransfer
  /\ UNCHANGED <<mainVars, usbVars, pk, nf, k, dataVars, rings>>

-----------------------------------------------------------------------------
(* PipeWire's data thread *)

(* on_source_process asks the capture ring for a buffer; what is missing is *)
(* filled with zeros and counted nowhere.                                   *)
SourceProcess ==
  /\ dpc = "idle" /\ "source" \in streams
  /\ want' \in 1..Quantum
  /\ dk' = Least(want', capLen)
  /\ dpc' = "source"
  /\ UNCHANGED <<mainVars, usbVars, inflight, isoVars, rings>>

SourceReturn ==
  /\ dpc = "source"
  /\ capLen' = capLen - dk
  /\ dpc' = "idle" /\ want' = 0 /\ dk' = 0
  /\ UNCHANGED <<mainVars, usbVars, inflight, isoVars, playLen>>

(* on_sink_process offers a buffer to the playback ring and ignores how much *)
(* of it djmt1_iso_write accepted.                                           *)
SinkProcess ==
  /\ dpc = "idle" /\ "sink" \in streams
  /\ want' \in 1..Quantum
  /\ dk' = Least(want', RingFrames - playLen)
  /\ dpc' = "sink"
  /\ UNCHANGED <<mainVars, usbVars, inflight, isoVars, rings>>

SinkReturn ==
  /\ dpc = "sink"
  /\ playLen' = playLen + dk
  /\ dpc' = "idle" /\ want' = 0 /\ dk' = 0
  /\ UNCHANGED <<mainVars, usbVars, inflight, isoVars, capLen>>

-----------------------------------------------------------------------------
(* djmt1-monitor: its main is the client of the engine *)

MonitorStart ==
  /\ mpc = "started"
  /\ mpc' = "up"
  /\ streams' = {"monitor"}
  /\ UNCHANGED <<mi, running, usbVars, inflight, isoVars, dataVars, rings>>

MonitorRead ==
  /\ dpc = "idle" /\ "monitor" \in streams
  /\ want' = Quantum /\ dk' = Least(Quantum, capLen)
  /\ dpc' = "monitor_read"
  /\ UNCHANGED <<mainVars, usbVars, inflight, isoVars, rings>>

(* The read returns; with --tone a write follows, which takes what fits.     *)
MonitorTone ==
  /\ dpc = "monitor_read"
  /\ capLen' = capLen - dk
  /\ \/ dpc' = "idle" /\ want' = 0 /\ dk' = 0
     \/ dpc' = "monitor_write" /\ want' = Quantum /\ dk' = Least(Quantum, RingFrames - playLen)
  /\ UNCHANGED <<mainVars, usbVars, inflight, isoVars, playLen>>

MonitorWritten ==
  /\ dpc = "monitor_write"
  /\ playLen' = playLen + dk
  /\ dpc' = "idle" /\ want' = 0 /\ dk' = 0
  /\ UNCHANGED <<mainVars, usbVars, inflight, isoVars, capLen>>

(* The seconds have passed: main stops the engine between two of its calls. *)
MonitorEnds ==
  /\ dpc = "idle" /\ "monitor" \in streams
  /\ mpc' = "destroy" /\ streams' = {}
  /\ UNCHANGED <<mi, running, usbVars, inflight, isoVars, dataVars, rings>>

-----------------------------------------------------------------------------
StartStep == StartSubmit \/ StartThread \/ MakeStreams \/ MonitorStart
StopStep ==
  \/ \E s \in {"source", "sink"} : DestroyStream(s)
  \/ StopFlag \/ StopCancel \/ StopJoin \/ StopFree \/ StopClose
Device ==
  (\E x \in Transfers : Complete(x)) \/ Unplug
InCb == InSkip \/ InOffer \/ InWrite \/ InDone
OutCb == OutAsk \/ OutTake
Callback == InCb \/ OutCb \/ Check \/ Resubmit \/ GiveUp
IsoThread == ThreadTest \/ ThreadReturn \/ Reap \/ Callback
ProcessReturn == SourceReturn \/ SinkReturn \/ MonitorTone \/ MonitorWritten
Client == SourceProcess \/ SinkProcess \/ MonitorRead \/ ProcessReturn

Next ==
  \/ StartOpen \/ StartStep \/ DoQuit \/ MonitorEnds \/ StopStep
  \/ Device \/ IsoThread \/ Client

(* The threads keep running: libusb_handle_events_timeout returns without    *)
(* any event, and PipeWire takes a stream off its data loop between two of   *)
(* the process calls that keep coming.  The device and the user promise      *)
(* nothing.                                                                  *)
Fairness ==
  /\ WF_vars(StartStep) /\ WF_vars(StopStep)
  /\ \A s \in {"source", "sink"} : SF_vars(DestroyStream(s))
  /\ WF_vars(IsoThread) /\ WF_vars(ProcessReturn)

Spec == Init /\ [][Next]_vars /\ Fairness

-----------------------------------------------------------------------------
(* Properties *)

(* The types of the state; the rings never hold more than their capacity    *)
(* although each side works from a count taken before the other moved.      *)
TypeOK ==
  /\ mpc \in {"off", "submit", "started", "up", "destroy", "cancel", "free"}
  /\ mi \in 0..(2 * NXFR + 1) /\ running \in BOOLEAN
  /\ streams \subseteq {"source", "sink", "monitor"}
  /\ valid \in BOOLEAN /\ refused \in BOOLEAN
  /\ wire \subseteq Transfers /\ done \subseteq Transfers /\ freed \subseteq Transfers
  /\ inflight \in Nat
  /\ tpc \in {"none", "loop", "events", "packets", "write", "fill", "take", "check",
              "resubmit", "giveup", "exited"}
  /\ cb \in Transfers \cup {NoTransfer} /\ pk \in 0..NPKT
  /\ nf \in Nat /\ k \in 0..nf
  /\ capLen \in 0..RingFrames /\ playLen \in 0..RingFrames
  /\ dpc \in {"idle", "source", "sink", "monitor_read", "monitor_write"}
  /\ want \in 0..Quantum /\ dk \in 0..want

InCallback == cb # NoTransfer

(* Once djmt1_iso_stop starts to free (djmt1_iso.c:161-170), the program's   *)
(* own threads are out: the iso thread is gone, and no PipeWire callback or  *)
(* monitor call is inside the engine or can enter it.  libusb is not out:    *)
(* what it still lists in wire and done is freed under it, and met again     *)
(* when the handle is closed.                                                *)
ThreadsAreOutAtFree ==
  mpc \in {"free", "off"} =>
    tpc = "none" /\ ~InCallback /\ dpc = "idle" /\ streams = {}

(* After djmt1_iso_stop has cancelled every transfer (djmt1_iso.c:156-159),  *)
(* at most one is still with the kernel: a callback that read running just   *)
(* before it was cleared (djmt1_iso.c:90, 109) may submit its transfer after *)
(* the cancellation passed it by.  That one is freed while the kernel has    *)
(* it; no second callback can do the same.                                   *)
AtMostOneEscapes ==
  mpc \in {"cancel", "free"} /\ mi > 2 * NXFR => Cardinality(wire) <= 1

(* While the device is there and no submission was refused, every transfer   *)
(* is with the kernel, waiting to be reaped or in its callback: an error, a   *)
(* short ring or a burst never makes the stream narrower.                    *)
StreamKeepsItsTransfers ==
  mpc \in {"started", "up", "destroy"} /\ valid /\ ~refused =>
    Transfers = wire \cup done \cup (IF InCallback THEN {cb} ELSE {})

(* e->inflight counts the transfers that are with the kernel, waiting to be  *)
(* reaped or in their callback, and none is in two of these places (none is  *)
(* submitted while it is in flight).                                         *)
InflightIsExact ==
  /\ inflight = Cardinality(wire) + Cardinality(done) + (IF InCallback THEN 1 ELSE 0)
  /\ wire \cap done = {} /\ cb \notin wire \cup done

(* The capture ring as its users see it: in_cb writes, the client reads. *)
Reading == dpc \in {"source", "monitor_read"}
CaptureRing == INSTANCE FrameCount
  WITH Frames <- RingFrames, len <- capLen,
       wst <- IF tpc = "write" THEN "granted" ELSE "idle",
       wk <- IF tpc = "write" THEN k ELSE 0,
       rst <- IF Reading THEN "granted" ELSE "idle",
       rk <- IF Reading THEN dk ELSE 0

(* The playback ring: the client writes, out_cb reads. *)
Writing == dpc \in {"sink", "monitor_write"}
PlaybackRing == INSTANCE FrameCount
  WITH Frames <- RingFrames, len <- playLen,
       wst <- IF Writing THEN "granted" ELSE "idle",
       wk <- IF Writing THEN dk ELSE 0,
       rst <- IF tpc = "take" THEN "granted" ELSE "idle",
       rk <- IF tpc = "take" THEN k ELSE 0

(* The threads keep to what the rings are made for (djmt1_iso.c:22-50):     *)
(* whatever they do at once, each ring has one write and one read in        *)
(* progress at most, and it is freed and made anew only between two calls.  *)
RingsAreUsedAsMeant == CaptureRing!Spec /\ PlaybackRing!Spec

(* djmt1_iso_stop returns: it never waits for the device, for a transfer, or *)
(* for a PipeWire client.                                                    *)
StopReturns == (mpc = "destroy") ~> (mpc = "off")
=============================================================================
