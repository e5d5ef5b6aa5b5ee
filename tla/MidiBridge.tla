----------------------------- MODULE MidiBridge -----------------------------
(***************************************************************************)
(* The life of midi/djm_midi.c as a service: main from seq_setup to the    *)
(* teardown, the three transfer callbacks, and the restart by systemd.     *)
(* The program has one thread; callbacks run wherever it handles events:   *)
(* in the settle loop, the main loop, the teardown pumps, and inside the   *)
(* synchronous transfers of arm and send_to_device.                        *)
(* What the callbacks do with the bytes is in UsbMidi.                     *)
(*                                                                         *)
(* External, modelled from its use here: libusb refuses a transfer once    *)
(* the device is gone and may refuse one with the device there; so may a   *)
(* control transfer fail; a cancelled transfer is ready to be reaped at    *)
(* once; a call that handles events returns without reaping only when      *)
(* nothing is ready.                                                       *)
(***************************************************************************)
EXTENDS Integers

CONSTANTS
  AudioPipes,     \* the iso transfers of the bridge's own audio session ({} with --no-audio)
  Tries,          \* attempts to open the device
  Busy,           \* interfaces another driver may hold on to
  Refusable,      \* transfers libusb may refuse although the device is there
  UnplugStatuses  \* how a transfer in flight may end when the device goes away

ASSUME BridgeAssumption ==
  /\ Tries \in Nat \ {0}
  /\ AudioPipes \cap {"midi", "hid"} = {}
  /\ Busy \subseteq {"audio", "midi", "hid"}
  /\ Refusable \subseteq AudioPipes \cup {"midi", "hid"}
  /\ UnplugStatuses \subseteq {"error", "nodev"}

Pipes == AudioPipes \cup {"midi", "hid"}
ArmSteps == 8   \* five vendor writes, three of them read back

VARIABLES
  plugged, armed,   \* the mixer: attached, and armed since it was
  conn,             \* the open handle reaches the attached device
  pc,               \* where main is
  count,            \* tries, arm steps or pumps done
  armok,            \* ok in arm()
  do_quit, running, hid_on,
  xfer,             \* each transfer: none, flight, a status waiting to be reaped, or dead
  refused           \* history: those this run of the bridge lost with the device there

mixerVars == <<plugged, armed>>
flags == <<do_quit, running, hid_on>>
transfers == <<xfer, refused>>
vars == <<mixerVars, conn, pc, count, armok, flags, transfers>>

Statuses == {"ok", "error", "nodev", "cancelled"}
Ready(p) == xfer[p] \in Statuses
HandlesEvents == pc \in {"settle", "arm", "loop", "drain", "pump"}

Init ==
  /\ plugged \in BOOLEAN /\ armed = FALSE /\ conn = FALSE
  /\ pc = "down" /\ count = 0 /\ armok = TRUE
  /\ do_quit = FALSE /\ running = TRUE /\ hid_on = TRUE
  /\ xfer = [p \in Pipes |-> "none"] /\ refused = {}

(* libusb_submit_transfer, its result ignored: what is refused is lost. *)
Submit(p) ==
  \/ conn /\ xfer' = [xfer EXCEPT ![p] = "flight"] /\ UNCHANGED refused
  \/ /\ ~conn \/ p \in Refusable
     /\ xfer' = [xfer EXCEPT ![p] = "dead"]
     /\ refused' = IF conn THEN refused \cup {p} ELSE refused

(* The callback returns without submitting. *)
Drop(p) == xfer' = [xfer EXCEPT ![p] = "dead"] /\ UNCHANGED refused

Goto(l) == pc' = l /\ count' = 0

-----------------------------------------------------------------------------
(* main *)

(* systemd starts the program, as often as it exits. *)
ServiceStart ==
  /\ pc = "down"
  /\ Goto("open")
  /\ do_quit' = FALSE /\ running' = TRUE /\ hid_on' = TRUE /\ armok' = TRUE
  /\ xfer' = [p \in Pipes |-> "none"] /\ refused' = {}
  /\ UNCHANGED <<mixerVars, conn>>

(* The process ends; the kernel takes its handle back. *)
Exit ==
  /\ Goto("down")
  /\ conn' = FALSE
  /\ xfer' = [p \in Pipes |-> "none"] /\ refused' = {}

(* fault: one attempt more than Tries *)
OpenOnceMore ==
  /\ pc = "open"
  /\ \/ plugged /\ conn' = TRUE /\ Goto("audio") /\ UNCHANGED transfers
     \/ ~plugged /\ count < Tries /\ count' = count + 1 /\ UNCHANGED <<conn, pc, transfers>>
     \/ ~plugged /\ count = Tries /\ Exit
  /\ UNCHANGED <<mixerVars, armok, flags>>

(* One attempt to open the device; the last failure is exit status 2.  A     *)
(* signal that arrives here is seen only once the device was opened.         *)
Open ==
  /\ pc = "open"
  /\ \/ plugged /\ conn' = TRUE /\ Goto("audio") /\ UNCHANGED transfers
     \/ ~plugged /\ count < Tries - 1 /\ count' = count + 1 /\ UNCHANGED <<conn, pc, transfers>>
     \/ ~plugged /\ count = Tries - 1 /\ Exit
  /\ UNCHANGED <<mixerVars, armok, flags>>

(* A claim succeeds only with the device there, and may fail even then.       *)
ClaimFails(i) == ~conn \/ i \in Busy

(* The audio session, unless --no-audio; exit status 3 without the interface. *)
ClaimAudio ==
  /\ pc = "audio"
  /\ \/ AudioPipes = {} /\ Goto("midi") /\ UNCHANGED <<conn, transfers>>
     \/ AudioPipes # {} /\ ClaimFails("audio") /\ Exit
     \/ /\ AudioPipes # {} /\ conn /\ Goto("midi")
        /\ refused' \in SUBSET (AudioPipes \cap Refusable)
        /\ xfer' = [p \in Pipes |-> IF p \in refused' THEN "dead"
                                   ELSE IF p \in AudioPipes THEN "flight" ELSE xfer[p]]
        /\ UNCHANGED conn
  /\ UNCHANGED <<mixerVars, armok, flags>>

(* The MIDI read; exit status 4 without the interface. *)
ClaimMidi ==
  /\ pc = "midi"
  /\ \/ ClaimFails("midi") /\ Exit
     \/ conn /\ Submit("midi") /\ Goto("hid") /\ UNCHANGED conn
  /\ UNCHANGED <<mixerVars, armok, flags>>

(* The HID read that opens the mixer's gate; without the interface the bridge *)
(* warns and goes on.                                                         *)
ClaimHid ==
  /\ pc = "hid"
  /\ Goto("settle")
  /\ \/ ClaimFails("hid") /\ hid_on' = FALSE /\ UNCHANGED transfers
     \/ conn /\ Submit("hid") /\ UNCHANGED hid_on
  /\ UNCHANGED <<mixerVars, conn, armok, do_quit, running>>

(* fault: a bridge without the HID interface does not arm the mixer *)
SettleWithoutArm ==
  /\ pc = "settle"
  /\ Goto(IF hid_on THEN "arm" ELSE "loop")
  /\ UNCHANGED <<mixerVars, conn, armok, flags, transfers>>

(* The pipes settle: callbacks run (Callback), the device answers (Complete). *)
Settle ==
  /\ pc = "settle"
  /\ Goto("arm")
  /\ UNCHANGED <<mixerVars, conn, armok, flags, transfers>>

(* arm(): control transfers one after the other, whatever their results.  The *)
(* mixer is armed when all the writes reached it; whether one of them stalled *)
(* or timed out with the mixer there is drawn at the end.                     *)
ArmStep ==
  /\ pc = "arm" /\ count < ArmSteps
  /\ count' = count + 1
  /\ armok' \in {armok /\ conn} \cup (IF count' = ArmSteps THEN {FALSE} ELSE {})
  /\ armed' = (armed \/ (count' = ArmSteps /\ armok'))
  /\ UNCHANGED <<plugged, conn, pc, flags, transfers>>

(* A failed arm is a warning, and is not tried again. *)
ArmDone ==
  /\ pc = "arm" /\ count = ArmSteps
  /\ Goto("loop")
  /\ UNCHANGED <<mixerVars, conn, armok, flags, transfers>>

LoopQuit ==
  /\ pc = "loop" /\ do_quit
  /\ Goto("teardown")
  /\ UNCHANGED <<mixerVars, conn, armok, flags, transfers>>

(* drain_seq_input: it sends while events are pending, and does not look at  *)
(* do_quit.  The synchronous bulk transfer of send_to_device handles events. *)
Drain ==
  /\ \/ pc = "loop" /\ ~do_quit /\ pc' = "drain"
     \/ pc = "drain" /\ pc' = "loop"
  /\ UNCHANGED <<mixerVars, conn, count, armok, flags, transfers>>

(* fault: the teardown does not cancel the HID read *)
TeardownKeepsHid ==
  /\ pc = "teardown"
  /\ Goto("pump")
  /\ running' = FALSE /\ hid_on' = FALSE
  /\ xfer' = [p \in Pipes |-> IF xfer[p] = "flight" /\ p # "hid" THEN "cancelled" ELSE xfer[p]]
  /\ UNCHANGED <<mixerVars, conn, armok, do_quit, refused>>

(* The flags are cleared and every transfer is cancelled. *)
Teardown ==
  /\ pc = "teardown"
  /\ Goto("pump")
  /\ running' = FALSE /\ hid_on' = FALSE
  /\ xfer' = [p \in Pipes |-> IF xfer[p] = "flight" THEN "cancelled" ELSE xfer[p]]
  /\ UNCHANGED <<mixerVars, conn, armok, do_quit, refused>>

(* One of the five calls that reap what was cancelled. *)
Pump ==
  /\ pc = "pump" /\ count < 5
  /\ \A p \in Pipes : ~Ready(p)
  /\ count' = count + 1
  /\ UNCHANGED <<mixerVars, conn, pc, armok, flags, transfers>>

(* The interfaces are released and the handle closed. *)
Close ==
  /\ pc = "pump" /\ count = 5
  /\ Exit
  /\ UNCHANGED <<mixerVars, armok, flags>>

-----------------------------------------------------------------------------
(* Callbacks *)

Flagged(p) ==
  CASE p = "midi" -> running
    [] p = "hid" -> running /\ hid_on
    [] OTHER -> running   \* audio_on is cleared together with running

(* fault: a callback resubmits only a transfer that carried data *)
CallbackOnlyOk(p) ==
  /\ HandlesEvents /\ Ready(p)
  /\ do_quit' = (do_quit \/ xfer[p] = "nodev")
  /\ IF xfer[p] = "ok" /\ Flagged(p) /\ ~do_quit
       THEN Submit(p)
       ELSE Drop(p)
  /\ UNCHANGED <<mixerVars, conn, pc, count, armok, running, hid_on>>

(* fault: NO_DEVICE is taken for any other error *)
CallbackIgnoresNoDevice(p) ==
  /\ HandlesEvents /\ Ready(p)
  /\ IF Flagged(p) /\ ~do_quit THEN Submit(p) ELSE Drop(p)
  /\ UNCHANGED <<mixerVars, conn, pc, count, armok, flags>>

(* midi_cb, hid_cb, audio_cb: NO_DEVICE ends the bridge; anything else is    *)
(* submitted again while the bridge runs, and whether that worked is not     *)
(* looked at.                                                                *)
Callback(p) ==
  /\ HandlesEvents /\ Ready(p)
  /\ do_quit' = (do_quit \/ xfer[p] = "nodev")
  /\ IF Flagged(p) /\ ~do_quit'
       THEN Submit(p)
       ELSE Drop(p)
  /\ UNCHANGED <<mixerVars, conn, pc, count, armok, running, hid_on>>

-----------------------------------------------------------------------------
(* The mixer, the user and systemd's stop signal *)

Complete(p, status) ==
  /\ xfer[p] = "flight" /\ conn
  /\ xfer' = [xfer EXCEPT ![p] = status]
  /\ UNCHANGED <<mixerVars, conn, pc, count, armok, flags, refused>>

Unplug ==
  /\ plugged
  /\ plugged' = FALSE /\ armed' = FALSE /\ conn' = FALSE
  /\ xfer' \in [Pipes -> {"none", "flight", "dead"} \cup Statuses]
  /\ \A p \in Pipes : IF xfer[p] = "flight" THEN xfer'[p] \in UnplugStatuses
                      ELSE xfer'[p] = xfer[p]
  /\ UNCHANGED <<pc, count, armok, flags, refused>>

Plug ==
  /\ ~plugged
  /\ plugged' = TRUE
  /\ UNCHANGED <<armed, conn, pc, count, armok, flags, transfers>>

(* on_sig *)
Signal ==
  /\ pc # "down" /\ ~do_quit
  /\ do_quit' = TRUE
  /\ UNCHANGED <<mixerVars, conn, pc, count, armok, running, hid_on, transfers>>

-----------------------------------------------------------------------------
Main ==
  \/ ServiceStart \/ Open \/ ClaimAudio \/ ClaimMidi \/ ClaimHid \/ Settle
  \/ ArmStep \/ ArmDone \/ LoopQuit \/ Teardown \/ Pump \/ Close
Environment ==
  \/ \E p \in Pipes, status \in {"ok", "error"} : Complete(p, status)
  \/ Unplug \/ Plug \/ Signal

Next == Main \/ Drain \/ (\E p \in Pipes : Callback(p)) \/ Environment

(* The program runs, and systemd restarts it; what is ready is reaped even   *)
(* while other transfers keep completing, the Mixxx side pauses now and then *)
(* so that drain_seq_input returns, a driver that holds an interface lets go *)
(* of it in the end, and a mixer armed again and again takes it in the end.  *)
(* The user, signals and libusb's refusals promise nothing.                  *)
Fairness ==
  /\ WF_vars(Main) /\ SF_vars(LoopQuit) /\ WF_vars(pc = "drain" /\ Drain)
  /\ SF_vars(ClaimAudio /\ pc' = "midi") /\ SF_vars(ClaimMidi /\ pc' = "hid")
  /\ SF_vars(ArmStep /\ armed')
  /\ \A p \in Pipes : SF_vars(Callback(p))

Spec == Init /\ [][Next]_vars /\ Fairness

-----------------------------------------------------------------------------
(* Properties *)

(* The types of the state; count stays within the loop it counts. *)
TypeOK ==
  /\ plugged \in BOOLEAN /\ armed \in BOOLEAN /\ conn \in BOOLEAN
  /\ pc \in {"down", "open", "audio", "midi", "hid", "settle", "arm", "loop", "drain",
             "teardown", "pump"}
  /\ count \in Nat
  /\ count > 0 => \/ pc = "open" /\ count < Tries
                  \/ pc = "arm" /\ count <= ArmSteps
                  \/ pc = "pump" /\ count <= 5
  /\ armok \in BOOLEAN
  /\ do_quit \in BOOLEAN /\ running \in BOOLEAN /\ hid_on \in BOOLEAN
  /\ xfer \in [Pipes -> {"none", "flight", "dead"} \cup Statuses]
  /\ refused \subseteq Refusable

(* While the mixer stays attached and nobody stops the bridge, the MIDI read, *)
(* the HID poll (if its interface was claimed) and the audio transfers go on: *)
(* no error, short read or arm in progress takes one away, which would shut   *)
(* the mixer's gate, and the only ones missing are those libusb itself        *)
(* refused (nothing submits them again: djm_midi.c:153, 167, 171).            *)
PipesStayOpen ==
  pc \in {"arm", "loop", "drain"} /\ conn /\ ~do_quit =>
    \A p \in Pipes \ (IF hid_on THEN {} ELSE {"hid"}) :
      xfer[p] = "none" \/ xfer[p] = "dead" => p \in refused

(* The handle is closed (djm_midi.c:268) only when no transfer is in flight   *)
(* or waiting for its callback, although the transfers are cancelled without  *)
(* a look at their state and the pumps are counted, not conditional.          *)
NothingInFlightAtClose ==
  pc = "pump" /\ count = 5 => \A p \in Pipes : xfer[p] \in {"none", "dead"}

(* A signal, or one transfer that ends with NO_DEVICE, ends the program from  *)
(* wherever it is: retrying, settling, in the middle of the arm or sending.   *)
QuitEndsTheBridge == (do_quit \/ \E p \in Pipes : xfer[p] = "nodev") ~> (pc = "down")

(* The bridge serves for good what does not answer: it lost every read        *)
(* without being told NO_DEVICE, or an arm write failed, which is only a      *)
(* warning (djm_midi.c:247).                                                  *)
Stuck == \/ \A p \in Pipes : xfer[p] \in {"none", "dead"}
         \/ ~armok
StaysStuck == <>[](pc \in {"loop", "drain"} /\ ~do_quit /\ Stuck)

(* A mixer that stays attached is armed again and again after every replug   *)
(* and every exit, unless the bridge stays on with dead reads or after a      *)
(* failed arm: those two are the only ways to lose it for good.               *)
ReplugIsRearmed ==
  (<>[]plugged /\ ~StaysStuck) => []<>(pc \in {"loop", "drain"} /\ armed /\ conn)

(* midi/systemd/djm-midi.service:16-18, "djm_midi exits when the device       *)
(* disappears": a bridge whose device is gone comes to its end.               *)
ExitsWhenTheDeviceDisappears ==
  (pc \in {"loop", "drain"} /\ ~conn) ~> (pc = "down")
=============================================================================
