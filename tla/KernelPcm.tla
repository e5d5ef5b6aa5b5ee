----------------------------- MODULE KernelPcm ------------------------------
(***************************************************************************)
(* The streams of kernel/djmt1_audio.c: prepare, trigger and close as the  *)
(* ALSA core calls them for capture and playback, the URB completions that *)
(* run beside them, and disconnect.                                        *)
(*                                                                         *)
(* External to the driver, and modelled from how it uses them:             *)
(*   - the ALSA core: START only after prepare, trigger under the stream's *)
(*     lock, no waiting for URBs before the buffer is freed (the driver    *)
(*     has no sync_stop); snd_pcm_period_elapsed may find an xrun and stop *)
(*     the stream from inside a completion;                                *)
(*   - the USB core: usb_submit_urb takes an idle URB of an enabled        *)
(*     endpoint and refuses any other; usb_set_interface disables and      *)
(*     flushes both endpoints and enables them again; completions run one  *)
(*     at a time; usb_kill_urb takes an URB back, has its submissions      *)
(*     refused meanwhile, and returns once it is idle.  djmt1_disconnect   *)
(*     also runs with the device there (unbind, rmmod); the core may then  *)
(*     have shut the endpoints before or not, so they stay as they are.    *)
(* What djmt1_transfer does to the pointers is in PcmPointer.              *)
(***************************************************************************)
EXTENDS Integers

CONSTANTS
  CaptureUrbs, PlaybackUrbs,  \* NURB, for each direction
  NPKT                        \* packets of an URB

ASSUME KernelAssumption == {CaptureUrbs, PlaybackUrbs, NPKT} \subseteq Nat \ {0}

Streams == {"capture", "playback"}
NURB(s) == IF s = "capture" THEN CaptureUrbs ELSE PlaybackUrbs
Urbs == UNION {{s} \X (0..(NURB(s) - 1)) : s \in Streams}

VARIABLES
  present,    \* the device is there
  bound,      \* djmt1_disconnect has not been called
  pcm,        \* state of each substream; START is starting, then submitting an URB it loaded
  running,    \* s->running
  next,       \* the URB trigger START submits next
  enabled,    \* endpoints that take URBs
  setif,      \* who is in usb_set_interface, and how far
  held,       \* URBs the host controller holds
  completed,  \* URBs given back, completion pending: <<urb, status is 0>>
  urb, at, left,  \* the completion that runs: its URB, place, packets left
  freeing,    \* djmt1_free_urbs: how far it is with which URB
  cleared,    \* URBs freed whose pointer is NULL
  flushed     \* history: streams whose URBs were flushed since their START, or are to be killed

pcmVars == <<pcm, running, next>>
coreVars == <<present, bound, enabled, setif>>
freeVars == <<freeing, cleared>>
urbVars == <<held, completed, freeVars, flushed>>
irqVars == <<urb, at, left>>
vars == <<pcmVars, coreVars, urbVars, irqVars>>

NoUrb == <<"none", 0>>
Pending == {c[1] : c \in completed}
(* With the controller, on the way back, or in its completion. *)
Busy == held \cup Pending \cup {urb}
UrbsOf(s) == {u \in Urbs : u[1] = s}

(* The URB djmt1_free_urbs is at, past one of its steps. *)
At(steps) == IF freeing[1] \in steps THEN {freeing[2]} ELSE {}
(* usb_kill_urb is done with it; its buffer, or it and its buffer, are freed. *)
Killed == cleared \cup At({"killed", "freed"})
Freed == cleared \cup At({"freed"})

Init ==
  /\ present = TRUE /\ bound = TRUE /\ enabled = Streams /\ setif = <<"idle", "none">>
  /\ pcm = [s \in Streams |-> "closed"]
  /\ running = [s \in Streams |-> FALSE] /\ next = [s \in Streams |-> 0]
  /\ held = {} /\ completed = {} /\ flushed = {}
  /\ freeing = <<"idle", NoUrb>> /\ cleared = {}
  /\ urb = NoUrb /\ at = "idle" /\ left = 0

(* An URB on its way back.  Nobody reads the status of a playback URB, so    *)
(* one value stands for both.                                                *)
Result(u, status) == <<u, status \/ u[1] = "playback">>

(* usb_submit_urb *)
Accepts(u) ==
  u[1] \in enabled /\ u \notin held \cup Pending /\ freeing # <<"kill", u>>

(* snd_card_free_when_closed is called after the last URB is freed: from then *)
(* on the ALSA core lets nothing through but the closing.                     *)
CardIsThere == cleared # Urbs

-----------------------------------------------------------------------------
(* The PCM operations, as the ALSA core calls them *)

(* djmt1_open, and the buffer hw_params allocates. *)
Open(s) ==
  /\ pcm[s] = "closed" /\ CardIsThere
  /\ pcm' = [pcm EXCEPT ![s] = "open"]
  /\ UNCHANGED <<running, next, coreVars, urbVars, irqVars>>

(* hw_free and djmt1_close: the buffer and the runtime are gone. *)
Close(s) ==
  /\ pcm[s] \in {"open", "prepared"}
  /\ pcm' = [pcm EXCEPT ![s] = "closed"]
  /\ UNCHANGED <<running, next, coreVars, urbVars, irqVars>>

(* djmt1_prepare resets the pointers and calls usb_set_interface.  Without a *)
(* device that call fails and the failure is ignored.                        *)
Prepare(s) ==
  /\ pcm[s] \in {"open", "prepared"} /\ setif[1] = "idle" /\ CardIsThere
  /\ IF present
       THEN setif' = <<"disable_out", s>> /\ pcm' = [pcm EXCEPT ![s] = "preparing"]
       ELSE pcm' = [pcm EXCEPT ![s] = "prepared"] /\ UNCHANGED setif
  /\ UNCHANGED <<running, next, present, bound, enabled, urbVars, irqVars>>

(* usb_set_interface: an endpoint is disabled and its URBs given back with   *)
(* an error ...                                                              *)
Flush(s) ==
  /\ enabled' = enabled \ {s}
  /\ held' = held \ UrbsOf(s)
  /\ completed' = completed \cup {Result(u, FALSE) : u \in held \cap UrbsOf(s)}
  /\ flushed' = flushed \cup {s}
SetInterfaceDisable ==
  /\ \/ setif[1] = "disable_out" /\ setif' = <<"disable_in", setif[2]>> /\ Flush("playback")
     \/ setif[1] = "disable_in" /\ setif' = <<"enable", setif[2]>> /\ Flush("capture")
  /\ UNCHANGED <<present, bound, pcmVars, freeVars, irqVars>>

(* ... and both are enabled again (if the device is still there).            *)
SetInterfaceEnable ==
  /\ setif[1] = "enable"
  /\ setif' = <<"idle", "none">>
  /\ enabled' = IF present THEN Streams ELSE {}
  /\ pcm' = [pcm EXCEPT ![setif[2]] = "prepared"]
  /\ UNCHANGED <<present, bound, running, next, urbVars, irqVars>>

(* djmt1_trigger, START: running is set first, then the URBs go out.         *)
Start(s) ==
  /\ pcm[s] = "prepared" /\ CardIsThere
  /\ pcm' = [pcm EXCEPT ![s] = "starting"]
  /\ running' = [running EXCEPT ![s] = TRUE]
  /\ next' = [next EXCEPT ![s] = 0]
  /\ flushed' = IF bound THEN flushed \ {s} ELSE flushed
  /\ UNCHANGED <<coreVars, held, completed, freeVars, irqVars>>

(* A refused submission ends START with an error; the URBs before it stay    *)
(* where they are, and the core may try START again.                         *)
StartFails(s) ==
  /\ running' = [running EXCEPT ![s] = FALSE]
  /\ pcm' = [pcm EXCEPT ![s] = "prepared"]
  /\ next' = [next EXCEPT ![s] = 0]

(* START reads s->urb[u] without a lock: NULL once djmt1_free_urbs has been  *)
(* past it, which usb_submit_urb refuses.                                    *)
StartLoad(s) ==
  /\ pcm[s] = "starting" /\ next[s] < NURB(s)
  /\ IF <<s, next[s]>> \in cleared
       THEN StartFails(s)
       ELSE pcm' = [pcm EXCEPT ![s] = "submitting"] /\ UNCHANGED <<running, next>>
  /\ UNCHANGED <<coreVars, urbVars, irqVars>>

(* fault: START counts two URBs for one *)
StartSubmitTwice(s) ==
  /\ pcm[s] = "submitting"
  /\ LET u == <<s, next[s]>> IN
       \/ /\ Accepts(u)
          /\ held' = held \cup {u}
          /\ next' = [next EXCEPT ![s] = @ + 2]
          /\ pcm' = [pcm EXCEPT ![s] = "starting"]
          /\ UNCHANGED running
       \/ ~Accepts(u) /\ StartFails(s) /\ UNCHANGED held
  /\ UNCHANGED <<coreVars, completed, freeVars, flushed, irqVars>>

(* usb_submit_urb gets what was loaded, killed or freed meanwhile or not.    *)
(* What it does with freed memory is undefined: it takes it or fails.        *)
StartSubmit(s) ==
  /\ pcm[s] = "submitting"
  /\ LET u == <<s, next[s]>> IN
       \/ /\ Accepts(u)
          /\ held' = held \cup {u}
          /\ next' = [next EXCEPT ![s] = @ + 1]
          /\ pcm' = [pcm EXCEPT ![s] = "starting"]
          /\ UNCHANGED running
       \/ /\ ~Accepts(u) \/ u \in Freed
          /\ StartFails(s)
          /\ UNCHANGED held
  /\ UNCHANGED <<coreVars, completed, freeVars, flushed, irqVars>>

StartReturn(s) ==
  /\ pcm[s] = "starting" /\ next[s] = NURB(s)
  /\ pcm' = [pcm EXCEPT ![s] = "running"]
  /\ next' = [next EXCEPT ![s] = 0]
  /\ UNCHANGED <<running, coreVars, urbVars, irqVars>>

(* djmt1_trigger, STOP: running is cleared and nothing else happens.         *)
Stop(s) ==
  /\ pcm[s] = "running"
  /\ pcm' = [pcm EXCEPT ![s] = "open"]
  /\ running' = [running EXCEPT ![s] = FALSE]
  /\ UNCHANGED <<next, coreVars, urbVars, irqVars>>

-----------------------------------------------------------------------------
(* URB completions: djmt1_in_complete and djmt1_out_complete *)

(* The controller finishes an URB. *)
GiveBack(u, status) ==
  /\ u \in held
  /\ held' = held \ {u}
  /\ completed' = completed \cup {Result(u, status)}
  /\ UNCHANGED <<pcmVars, coreVars, freeVars, flushed, irqVars>>

Leave == urb' = NoUrb /\ at' = "idle" /\ left' = 0

Copies(u) == urb' = u /\ at' = "transfer" /\ left' = NPKT

(* fault: djmt1_in_complete drops an URB that ended in an error *)
EnterDropsErrors(c) ==
  /\ at = "idle"
  /\ completed' = completed \ {c}
  /\ IF running[c[1][1]] /\ c[2] THEN Copies(c[1]) ELSE UNCHANGED irqVars
  /\ UNCHANGED <<pcmVars, coreVars, held, freeVars, flushed>>

(* A completion looks at running first.  A capture URB that failed or whose  *)
(* stream is stopped is not copied but goes on to the resubmission; a        *)
(* playback URB of a stopped stream is dropped; the status of a playback URB *)
(* is not looked at.                                                         *)
CompletionEnter(c) ==
  /\ at = "idle"
  /\ completed' = completed \ {c}
  /\ \/ running[c[1][1]] /\ c[2] /\ Copies(c[1])
     \/ /\ c[1][1] = "capture" /\ ~(running["capture"] /\ c[2])
        /\ urb' = c[1] /\ at' = "recheck" /\ left' = 0
     \/ c[1][1] = "playback" /\ ~running["playback"] /\ UNCHANGED irqVars
  /\ UNCHANGED <<pcmVars, coreVars, held, freeVars, flushed>>

(* djmt1_transfer for one packet (a capture packet that failed is skipped).  *)
(* When a period ends, snd_pcm_period_elapsed may find an xrun and stop the  *)
(* stream.                                                                   *)
Transfer ==
  /\ at = "transfer"
  /\ left' = left - 1
  /\ at' = CASE left > 1 -> "transfer"
             [] left <= 1 /\ urb[1] = "capture" -> "recheck"
             [] left <= 1 /\ urb[1] # "capture" -> "resubmit"
  /\ \/ UNCHANGED pcmVars
     \/ /\ pcm[urb[1]] = "running"
        /\ pcm' = [pcm EXCEPT ![urb[1]] = "open"]
        /\ running' = [running EXCEPT ![urb[1]] = FALSE]
        /\ UNCHANGED next
  /\ UNCHANGED <<coreVars, urbVars, urb>>

(* fault: djmt1_in_complete resubmits without looking at running *)
RecheckAlways ==
  /\ at = "recheck"
  /\ at' = "resubmit" /\ UNCHANGED <<urb, left>>
  /\ UNCHANGED <<pcmVars, coreVars, urbVars>>

(* djmt1_in_complete looks at running once more, djmt1_out_complete does not. *)
Recheck ==
  /\ at = "recheck"
  /\ IF running["capture"] THEN at' = "resubmit" /\ UNCHANGED <<urb, left>> ELSE Leave
  /\ UNCHANGED <<pcmVars, coreVars, urbVars>>

(* Neither looks at what usb_submit_urb returns. *)
Resubmit ==
  /\ at = "resubmit"
  /\ held' = IF Accepts(urb) THEN held \cup {urb} ELSE held
  /\ Leave
  /\ UNCHANGED <<pcmVars, coreVars, completed, freeVars, flushed>>

-----------------------------------------------------------------------------
(* Unplugging and unbinding *)

(* The device goes away: its URBs come back and no more are taken. *)
Unplug ==
  /\ present
  /\ present' = FALSE
  /\ enabled' = {}
  /\ held' = {}
  /\ completed' = completed \cup {Result(u, FALSE) : u \in held}
  /\ flushed' = Streams
  /\ UNCHANGED <<pcmVars, bound, setif, freeVars, irqVars>>

(* djmt1_disconnect, after an unplugging or by unbind or rmmod, clears both  *)
(* running flags ...                                                         *)
Disconnect ==
  /\ bound
  /\ bound' = FALSE
  /\ running' = [s \in Streams |-> FALSE]
  /\ flushed' = Streams
  /\ UNCHANGED <<pcm, next, present, enabled, setif, held, completed, freeVars, irqVars>>

(* ... and has djmt1_free_urbs take the URBs one after the other: kill it    *)
(* (what the controller holds of it comes back), ...                         *)
KillUrb(u) ==
  /\ ~bound /\ freeing[1] = "idle" /\ u \notin cleared
  /\ \A v \in Urbs \ cleared : v[1] = u[1] => u[2] <= v[2]
  /\ u[1] = "playback" => UrbsOf("capture") \subseteq cleared
  /\ freeing' = <<"kill", u>>
  /\ held' = held \ {u}
  /\ completed' = completed \cup {Result(v, FALSE) : v \in held \cap {u}}
  /\ UNCHANGED <<pcmVars, coreVars, cleared, flushed, irqVars>>

FreeStep(from, to) ==
  /\ freeing[1] = from /\ freeing' = <<to, freeing[2]>>
  /\ UNCHANGED <<pcmVars, coreVars, held, completed, cleared, flushed, irqVars>>

(* fault: djmt1_free_urbs does not wait for an URB in its completion *)
KillDoesNotWait == FreeStep("kill", "killed")

(* ... wait until it is idle, ... *)
KillReturns == freeing[2] \notin Busy /\ FreeStep("kill", "killed")

(* ... free its buffer and then the URB (two frees that nothing looks       *)
(* between: who has the pointer meets freed memory from the first one on),  *)
FreeUrb == FreeStep("killed", "freed")

(* ... and clear the pointer. *)
ClearUrb ==
  /\ freeing[1] = "freed"
  /\ freeing' = <<"idle", NoUrb>> /\ cleared' = cleared \cup {freeing[2]}
  /\ UNCHANGED <<pcmVars, coreVars, held, completed, flushed, irqVars>>

(* The device is probed again, once the old card is closed and its last URB  *)
(* has come back: the new card has URBs of its own.                          *)
Probe ==
  /\ ~CardIsThere /\ Busy = {NoUrb} /\ setif[1] = "idle"
  /\ \A s \in Streams : pcm[s] = "closed"
  /\ present' = TRUE /\ bound' = TRUE /\ enabled' = Streams
  /\ cleared' = {} /\ flushed' = {}
  /\ UNCHANGED <<setif, pcmVars, held, completed, freeing, irqVars>>

-----------------------------------------------------------------------------
PcmOperation ==
  \E s \in Streams : \/ Open(s) \/ Close(s) \/ Prepare(s) \/ Start(s)
                     \/ StartLoad(s) \/ StartSubmit(s) \/ StartReturn(s) \/ Stop(s)
SetInterface == SetInterfaceDisable \/ SetInterfaceEnable
Completion == (\E c \in completed : CompletionEnter(c)) \/ Transfer \/ Recheck \/ Resubmit
Controller == \E u \in Urbs, status \in BOOLEAN : GiveBack(u, status)
FreeUrbs == (\E u \in Urbs : KillUrb(u)) \/ KillReturns \/ FreeUrb \/ ClearUrb
Unplugging == Unplug \/ Disconnect \/ FreeUrbs \/ Probe

Next == PcmOperation \/ SetInterface \/ Completion \/ Controller \/ Unplugging

(* An isochronous URB comes back in time, whether or not data moved;         *)
(* completions run, and none waits for ever while others keep coming (the    *)
(* USB core serves them in order).  Applications promise nothing.            *)
Fairness ==
  /\ WF_vars(Completion)
  /\ \A u \in Urbs : WF_vars(\E status \in BOOLEAN : GiveBack(u, status))
  /\ \A u \in Urbs : []<>(u \notin Pending)

Spec == Init /\ [][Next]_vars /\ Fairness

-----------------------------------------------------------------------------
(* Properties *)

(* The types of the state; an URB is in one place at a time. *)
TypeOK ==
  /\ present \in BOOLEAN /\ bound \in BOOLEAN /\ enabled \subseteq Streams
  /\ setif \in {"idle", "disable_out", "disable_in", "enable"} \X (Streams \cup {"none"})
  /\ pcm \in [Streams -> {"closed", "open", "preparing", "prepared", "starting",
                      "submitting", "running"}]
  /\ running \in [Streams -> BOOLEAN]
  /\ next \in [Streams -> Nat] /\ \A s \in Streams : next[s] <= NURB(s)
  /\ held \subseteq Urbs /\ completed \subseteq Urbs \X BOOLEAN
  /\ freeing \in {"idle", "kill", "killed", "freed"} \X (Urbs \cup {NoUrb})
  /\ cleared \subseteq Urbs /\ flushed \subseteq Streams
  /\ urb \in Urbs \cup {NoUrb} /\ left \in 0..NPKT
  /\ at \in {"idle", "transfer", "recheck", "resubmit"}
  /\ held \cap Pending = {} /\ \A c, d \in completed : c[1] = d[1] => c = d

(* START's submission of the pointer it loaded. *)
Handed(u) == pcm[u[1]] = "submitting" /\ next[u[1]] = u[2]

(* An URB that djmt1_free_urbs has killed, and is about to free or has freed  *)
(* (djmt1_audio.c:181-193), is idle, and neither a completion nor a stream    *)
(* that starts and stops brings it back into circulation: the one way is a    *)
(* START that loaded the pointer without a lock (djmt1_audio.c:230) and       *)
(* submits it only now.  That way is open, and the memory freed or about to   *)
(* be.                                                                        *)
KilledUrbsAreQuiet ==
  [][\A u \in Killed' : u \in Busy' => u \in Killed /\ (u \in Busy \/ Handed(u))]_vars

(* A running stream keeps all its URBs cycling through errors, skipped       *)
(* packets and stops and starts of the other stream; only a flush of its     *)
(* endpoint and djmt1_disconnect take them away.                             *)
RunningStreamKeepsItsUrbs ==
  \A s \in Streams :
    pcm[s] = "running" /\ running[s] /\ s \notin flushed => UrbsOf(s) \subseteq Busy

(* A stream that is stopped for good gets all its URBs back, although STOP   *)
(* (djmt1_audio.c:237-239) cancels none, a completion past its last look at  *)
(* running submits one more after it, and a START that fails half-way leaves *)
(* its URBs out.                                                             *)
StoppedStreamDrains ==
  \A s \in Streams : <>[](~running[s]) => <>[](UrbsOf(s) \cap Busy = {})

(* The URB whose completion is past its last look at running. *)
Late(s) ==
  IF at = "resubmit" \/ (at = "transfer" /\ s = "playback") THEN {urb} \cap UrbsOf(s) ELSE {}

(* While a stream is stopped, no URB of it comes into circulation, and none   *)
(* goes back to the controller but the one whose completion was past its last *)
(* look at running when STOP cleared it (djmt1_audio.c:123, 137): one at      *)
(* most.  The other stream starts and stops, the device goes away or is       *)
(* unbound meanwhile.  (A START under way when djmt1_disconnect clears        *)
(* running goes on submitting: it is not stopped yet.)                        *)
StoppedStreamOnlyDrains ==
  [][\A s \in Streams :
       ~running[s] /\ ~running'[s] /\ pcm[s] \notin {"starting", "submitting"} =>
       /\ UrbsOf(s) \cap Busy' \subseteq Busy
       /\ UrbsOf(s) \cap held' \subseteq held \cup Late(s)
       /\ Late(s)' \subseteq Late(s)]_vars

(* The comment at djmt1_audio.c:214, "harmless if already alt 1": when no    *)
(* usb_set_interface is under way, a running stream still has an URB in      *)
(* flight.                                                                   *)
PrepareIsHarmless ==
  \A s \in Streams :
    present /\ bound /\ pcm[s] = "running" /\ running[s] /\ setif[1] = "idle" =>
      UrbsOf(s) \cap Busy # {}

(* The comment at djmt1_audio.c:79, "runtime is safe inside the URB          *)
(* completion": while a completion copies frames, the stream's runtime and   *)
(* buffer are there.                                                         *)
RuntimeIsSafe == at = "transfer" => pcm[urb[1]] # "closed"
=============================================================================
