# Verification of djm-t1-linux

TLA+ models, model-checking runs and machine-checked proofs for the Linux
support of the Pioneer DJM-T1 mixer: the userspace audio engine and its
PipeWire node, the out-of-tree ALSA driver, and the MIDI bridge.

`tlc -config X.cfg M` runs a model, `tlapm M.tla` checks the proofs of a module;
`PROJECT.json` lists runs, mutants, the source lines every definition stands for,
the hazards of the code and the findings.

## 1. Inventory

| Component (source) | State it keeps | Operations | What is hard about it | What makes it correct |
|---|---|---|---|---|
| Ring (`audio/djmt1_iso.c:24-50`) | buffer, atomic indices `w`, `r`, one spare slot | `ring_init`, `ring_write`, `ring_read` | two real-time threads, no lock, index wrap, clipping from a stale index | bounded FIFO, no data race, neither call waits |
| Iso engine (`audio/djmt1_iso.c:52-177`) | device handle, 2 x 6 transfers, `running`, `inflight`, two rings, three counters | `djmt1_iso_start`, `_stop`, `_read`, `_write`, `in_cb`, `out_cb`, `iso_thread` | stop against callbacks, failing and refused transfers, unplug | no thread of the program inside at the free, transfers neither lost nor doubled, stop returns |
| PipeWire node (`audio/djmt1-pipewire.c`) | two streams, loop, timer | `on_source_process`, `on_sink_process`, `do_quit`, `main` | process callbacks on PipeWire's data thread against shutdown | streams are gone before the engine; lost frames are counted |
| Kernel driver, streams (`kernel/djmt1_audio.c`) | per direction: `running`, 4 URBs, pointers | `open/close/prepare/trigger/pointer`, completions, `probe`, `disconnect` | completions in interrupt context against stop, close, prepare of the other stream, unplug and unbind | killed URBs stay quiet, a running stream keeps its URBs, a stopped one drains, the buffer outlives its users |
| Kernel driver, pointer (`:77-105`) | `hwptr`, `period_pos` | `djmt1_transfer` | packets that straddle periods and the end of the buffer | one wakeup per period, every frame in its slot |
| MIDI bridge (`midi/djm_midi.c`) | handle, `do_quit`, `running`, `hid_on`, transfers, ALSA sequencer port | open with retries, claims, settle, `arm`, main loop, callbacks, teardown | callbacks inside synchronous transfers, ignored results of submissions and of the arm, unplug at any step, restart by systemd | reads stay pending unless refused, quits end it, replugs are re-armed, nothing in flight at close |
| USB-MIDI conversions (`midi/djm_midi.c`, same in `djm_full.c`) | none | `send_to_device`, `midi_cb`'s parser, `emit_midi` | message lengths, padding, fixed buffers | messages survive both ways |
| Unified daemon (`midi/djm_full.c`) | the engine and the bridge in one process, `g_stop` | a MIDI thread beside PipeWire's loop | two libusb contexts opened one after the other, one of which may see the unplug and end while the other lives | shutdown joins before it frees; a live audio session whenever it arms (it is not: finding 4) |
| Services and udev (`*/systemd`, `systemd/`, `udev/`) | which process runs | restart policies, `ExecStartPre` | two processes, one mixer; replug | the mixer's gate (armed, MIDI read pending, HID polled, audio session live) opens again after a replug |
| Arm utility (`arm/djm_arm.c`) | none | eight control transfers | - | the mixer acknowledges |
| Capture, playback (`audio/djmt1-capture.c`, `-playback.c`) | handle, transfers, `running`, `inflight`, counters | `main`, `cb`, `on_sigint` | a drain that waits for a counter, refusals, unplug, a signal inside a callback | the counter is exact, the report complete, the program ends |
| Monitor (`audio/djmt1-monitor.c`) | an engine | read, write a tone, meter | as the engine | as the engine |
| Calibration assistant (`tools/calibrate.py`) | event list under a lock, records, results file | reader thread, capture loop, save | stale events, unreadable results file, failure, Ctrl-C or crash in a save, a bridge that restarts under another client number | no record is lost, changed unasked or given to the wrong control; the reader reconnects (not always: finding 5) |
| Mixxx mapping (`mixxx/`) | none (Mixxx keeps it) | `toggle` on press | - | one toggle per press |
| Scripts, build, install | none | linear | - | - |

Who talks to whom: PipeWire's data thread calls `djmt1_iso_read/_write`, the
iso thread runs the transfer callbacks, main starts and stops both; the two
sides of each ring are the only state they share besides `running` and the
counters. The bridge and the node are separate processes on separate
interfaces of one mixer and meet only in the mixer's gate. The kernel driver
replaces engine and node; the ALSA core calls its operations, the USB core its
completions.

## 2. Modules

| Module | Models | State and actions against the code |
|---|---|---|
| `FrameQueue` | the abstract promise of a ring: a bounded FIFO whose write and read are granted a count and then take effect | no code of its own |
| `FrameCount` | the same promise without contents, and what the ring's users owe it: one call of each side at a time, and a new ring only when neither is inside one | no code of its own; `SpscRing` implements it from below, `IsoEngine` uses both of its rings as it says |
| `SpscRing` | `ring_*` | one action per atomic load, store and `memcpy` of a frame: `WCall`, `WLoadW`, `WLoadR` (`ring_avail`, in the order the two loads are declared), `WReload` (the second load of `w`), `WCopy`, `WPublish`; the reader likewise. Loads and stores are sequentially consistent, as C11 `atomic_load`/`atomic_store` are |
| `IsoEngine` | engine with its client: the node, or the monitor | three program counters: `mpc` (main through start, loop, destroy, stop, free), `tpc` (the iso thread inside `libusb_handle_events_timeout` and a callback), `dpc` (the data thread inside a process callback, or the monitor's calls). `wire` is what the kernel holds, `done` what waits to be reaped, both sets of transfers. The rings are lengths, with the grant and the effect of each call apart, as `SpscRing` shows they may be. `freed` are the transfers `djmt1_iso_stop` has freed so far, whatever `wire` and `done` still hold |
| `KernelPcm` | the driver's streams | `pcm` is the ALSA core's view of a substream, `running` the driver's flag, `held`/`completed`/`urb` where each URB is, `setif` the steps of `usb_set_interface`. START loads an URB (`StartLoad`) and submits it (`StartSubmit`) in two steps, between which `disconnect` may kill and free it. `Disconnect` comes after an unplug or with the device there (unbind, rmmod); `freeing` is the URB `djmt1_free_urbs` is at and how far it is with it (killing, killed, freed), `cleared` those whose pointer is NULL. A completion is split at each look at `running` and at each packet |
| `PcmPointer` | `djmt1_transfer` | frames are numbered from `prepare`; `ring` holds the number last copied at each offset; `moved` and `elapsed` are histories |
| `MidiBridge` | `djm_midi` under systemd | `pc` follows `main`; `xfer` is each transfer's place (with the kernel, completed with a status, dead), `refused` the ones libusb refused with the device there; callbacks run at every place where libusb handles events: settle, arm, loop, `send_to_device`, pumps |
| `UsbMidi` | the conversions | the two loops stepped through for every event and buffer |
| `DataPaths` | `SpscRing`, `PcmPointer` and `UsbMidi` side by side | no code of its own: they share nothing, so each moves only while the other two are in their initial state, and one run visits the states of each |
| `UnifiedDaemon` | `djm_full` under systemd | `mpc` is main, `tpc` the MIDI thread with a handle of its own (`mconn`), `dpc` PipeWire's thread; the engine is its handle (`econn`). `armed` belongs to the mixer and is lost by an unplug; `failed` is what failed outright with the mixer there |
| `StreamTools` | `djmt1-capture` and `djmt1-playback` | `pc` is main, `at` the callback; every definition stands for both programs, which differ in what they do with the bytes only |
| `Calibrate` | `calibrate.py` | `bridge` is the bridge's client number, `forced` what `--port` says, `rpc` where the reader thread is, `sub` what its aseqdump is subscribed to (the bridge's port, one that says nothing, or none: its output ended); `ui` the screen main shows, `sv` the step of `save_results`; `disk`, `file` and `tmp` are the results file and its temporary file. A record is its resting value |
| `SpscRingProofs`, `IsoEngineProofs`, `KernelPcmProofs`, `PcmPointerProofs`, `MidiProofs` (bridge and conversions), `UnifiedDaemonProofs`, `StreamToolsProofs`, `CalibrateProofs` | theorems | section 5 |

`IsoEngine` takes its rings as lengths because `SpscRing` implements `FrameCount` and
`IsoEngine` asks nothing else of them (`RingIsCounted`, `RingsAreUsedAsMeant`, both proved), `UnifiedDaemon` takes its engine
from what `IsoEngine` shows (started, streaming while its handle is good, stopped by a call
that returns); the conversions of both bridges are `UsbMidi`'s.

Operators whose comment starts with `fault:` are deliberate faults: each property of a
run is tested by putting a fault in the place of the action it distorts.

## 3. What the runs check

**`data_paths`** (`DataPaths`; 398,000 states, the sum of its three parts).

- The ring (two frames of room, calls of zero to three frames, two frame values). `RingInv`
  is the inductive invariant of the proofs. `NoDataRace`: the writer never copies into a slot
  the reader is copying out of. `RingIsFifo`: the ring implements `FrameQueue`, with the
  queue's contents read off the buffer. `CallsReturn`: each call returns although the other
  side may stop for ever (only the caller's own thread is assumed to run). Two frames are
  enough for every wrap of either index, for a full and an empty ring, for clipped, short and
  empty calls; the proofs cover all sizes.
- The pointers (packets of up to two frames, every buffer up to nine and every period that
  fits, three laps). `OneWakeupPerPeriod`, `RingHoldsTheLastFrames`. The sizes include those
  that divide each other and those that do not; the proofs cover all of them.
- The conversions (all status classes, three data bytes, system exclusive pieces up to five
  bytes, two packets in either direction). `MessagesRoundTrip` (what the synth side sends, cut
  into packets and parsed back, is the message; two packets hold any event of the instance,
  `pkt` has room for sixteen), `MixerMessagesArrive`.

**`iso_engine`** (`IsoEngine`, two transfers per direction of two packets, IN packets
of up to two frames, PipeWire buffers of up to two, a ring of one; 197,000 states).
`ThreadsAreOutAtFree` (the iso thread, PipeWire's callbacks and the monitor's calls are out
of the engine when it is freed), `AtMostOneEscapes` (a callback that read `running` before
stop cleared it submits after the cancellation passed by; it is freed in flight, and there is
never a second), `StreamKeepsItsTransfers` (only a refused submission or an unplug takes a
transfer out of circulation), `InflightIsExact`, `StopReturns`. Two per direction give an
order inside an endpoint, a cancellation half done, and one transfer in its callback while
others are on the wire. libusb itself is not out at the free: nothing reaps after the join, so
cancelled transfers (`done`) and the escaped one (`wire`) are freed while libusb lists them, and
`libusb_close` and `libusb_exit` meet them there. The model reaches those states; no document of
the repository says they do not occur, so they are a hazard in `PROJECT.json` and no finding.

**`kernel_pcm`** (`KernelPcm`, one URB of capture and two of playback; 750,000 states).
`KilledUrbsAreQuiet`, `RunningStreamKeepsItsUrbs`, `StoppedStreamDrains`. Two playback URBs
let a START fail half-way and leave one behind; the safety properties are proved for any number.
An URB that `djmt1_disconnect` has killed comes back into circulation in one way only, which the
property names: a START that had loaded the pointer before (`Handed`) and submits it after the
kill, or after the free. The code has that way open (no lock, `:230`), and the model reaches it.

**`midi_bridge`** (one audio transfer standing for eight, two open attempts for
twenty, any interface may be taken, libusb may refuse any transfer with the device there, an
arm write may fail, an unplug may end a transfer with an error or NO_DEVICE; 22,000 states).
`PipesStayOpen` (a read is lost only by libusb's own refusal), `NothingInFlightAtClose`,
`QuitEndsTheBridge`, `ReplugIsRearmed` (a mixer that stays attached is armed, and again after
every restart, unless the bridge stays on for good with dead reads, as finding 3 describes, or
after a failed arm, which it does not repeat).

**`unified_daemon`** (`UnifiedDaemon`, the eight control transfers and the five pumps of
the code; 20,000 states). `SharedStateOutlivesItsUsers` (the shutdown order),
`NothingInFlightAtClose`, `GateIsOpen` (a serving thread whose handle reaches the mixer has it
armed and both reads pending, except for an arm write, a claim or a submission that failed
outright, whatever was unplugged and replugged before), `LoopLeadsToService` (unless the mixer
was unplugged or a call failed: main is not told, and the process lives on without MIDI),
`StopEnds`. Nothing is bounded but by the code itself. That the mixer has a live audio session
is what finding 4 refutes.

**`stream_tools`** (`StreamTools`, three transfers for eight, four that move data).
`InflightIsExact` (what the drain waits for), `ReportIsComplete`, `ToolEnds`. Three give
one in its callback, one cancelled and one not yet.

**`calibrate`** (`Calibrate`, two controls, two values, one event in the list, two client
numbers for the bridge, `--port` with one of them or without, the mixer's kernel port listed;
2.9 million states). `SavedIsKept`, `RecordsChangeOnlyByChoice`, `ReviewShowsThisCapture`,
`ReaderComesBack` (a reader whose aseqdump ended is on the bridge's port again). Two controls
tell whose record it is. One event is enough to tell an old one from a new one and a review
that stopped short of the list (the empty snapshot); the proofs cover lists of any length.
Sessions follow each other without bound.

### Findings (runs that end in a counterexample)

1. **`kernel_pcm_prepare`**: the comment at `kernel/djmt1_audio.c:214` calls
   `usb_set_interface` in `prepare` "harmless if already alt 1". It flushes the URBs of the
   other stream, which then runs on without any.
2. **`kernel_pcm_runtime`**: the comment at `:79-80` says "runtime is safe inside the URB
   completion". Clearing `running` (in STOP, or in a START that fails) does not wait for a
   completion that already looked at it, and there is no `sync_stop`, so the stream can be
   closed while a completion copies.
3. **`midi_bridge_unplug`**: `midi/systemd/djm-midi.service:16-18` says "djm_midi exits when
   the device disappears". A read that completed just before the unplug is submitted
   again after it, the refusal is ignored, and nothing ever sets `do_quit`.
4. **`unified_daemon_replug`**: `midi/djm_full.c:2-4` (and `docs/NEXT-STEPS.md:49-50`) says that
   the precondition of the mixer's gate, a live audio session, "is always met". The engine
   opens the mixer at `:238`, the MIDI thread once more at `:141`; replugged in between, the
   thread arms and serves a mixer on which the engine has no session.
5. **`calibrate_restart`**: `tools/calibrate.py:21-23` says "The reader auto-reconnects. The
   djm-midi service can restart and get a new ALSA client number; the reader re-resolves the
   port and resubscribes". It does so only when aseqdump's output ends; an aseqdump whose port
   goes away waits on, and the loop at `:242` with it.

Read in the code and not run: `docs/audio-driver-design.md:47` says of playback that
"over/underruns are counted and surfaced", while `on_sink_process`
(`djmt1-pipewire.c:57`) ignores how many frames were taken and the engine has no
playback overrun counter.

## 4. Fairness and what is external

- Threads run: weak fairness on each thread's steps. `libusb_handle_events_timeout` has a
  timeout in all callers, so it returns without events; that is `ThreadReturn`, `Pump`,
  `EventsReturn` (strong in `StreamTools`, since callbacks may keep coming).
- `pw_stream_destroy` gets its turn between process calls that keep coming (strong
  fairness on `DestroyStream`, in `IsoEngine` and `UnifiedDaemon`): PipeWire removes the
  stream on its own data loop.
- A completed transfer is reaped while others keep completing (strong fairness per
  transfer in `MidiBridge` and `UnifiedDaemon`; in `KernelPcm`, said of the queue itself, no
  completed URB waits for ever): the queues are served in order.
- `drain_seq_input` returns now and then: Mixxx does not send without pause. Without this
  the loop would not look at `do_quit` or `g_stop`; the code has no other bound.
- An isochronous URB comes back whether or not data moved. An interface another
  driver holds is released in the end (needed only for `ReplugIsRearmed`).
- Time passes (`Clock`, for `ToolEnds`). The tools compare whole seconds, so they may end up to
  one second early; the model says only that the end comes.
- A mixer that is armed again and again takes it in the end (strong fairness on the arm's
  success, needed only for `ReplugIsRearmed`); libusb's refusals promise nothing.
- The reader thread of the assistant runs (`Connect`, `Lost`).
- The mixer, the user, signals, applications, the bridge and aseqdump promise nothing.

External and modelled from its use: libusb (a submission is accepted or refused, and
always refused once the device is gone; a cancelled transfer is ready to be reaped at
once; an unplug completes what is in flight; a control transfer fails without the device and
may stall or time out with it), the USB core (`usb_submit_urb`, which may take or fail an URB
whose memory is gone; `usb_set_interface`; `usb_kill_urb`, which refuses submissions until it
returns; before `djmt1_disconnect` with the device there it may have shut the endpoints or not,
so the model leaves them as they are), the ALSA core (order of operations, no waiting for URBs), PipeWire's data
thread, its loop (which is taken to receive the signals it was told to catch; `Kill` in
`UnifiedDaemon` is any other end of the process, at any point), the ALSA sequencer's decoder,
systemd's restart, and aseqdump, whose output ends when the subscription is refused at its
start or when it is killed, and which waits on when its port goes away.

## 5. What is proved

All proofs are checked by TLAPS, for every value of the constants, from the named
assumptions of each module only (sizes are naturals, `Silence` is a frame, and so on).
Every invariant and every action property of a run is proved, and so is every
refinement; what stays with TLC is liveness. The type invariants of the last three modules
are `DaemonTypes`, `ToolTypes` and `CalibrateTypes`.

- **`SpscRingProofs`**. `RingInvariant`: `RingInv` is inductive. It says what each side may
  rely on while the other moves: the writer's granted count never exceeds the space
  (the reader only makes room), what it copied lies beyond the published frames; the
  reader's count never exceeds what is there, what it copied is still there. Types and
  `NoDataRace` alone are not inductive: they say nothing of the counts in flight. From it
  `RingHasNoDataRace` (a slot counted free is no slot counted held: `FreeIsNotHeld`) and
  `RingImplementsQueue` (the refinement: `QueueInit`, and `QueueStep` with one case per
  action, where only the two stores change the abstract contents). `RingImplementsCount`: the
  same for `FrameCount`, with the loads of the indices as the grants.
- **`IsoEngineProofs`**. Four invariants, each resting on the ones before: `Control` (which
  streams and threads exist in each phase of main, types, the room each pending ring call was
  granted) gives `EngineTypes` and `EngineThreadsAreOut`; `Accounted` (each transfer is in one
  place, and `inflight` is their number) gives `InflightStaysExact`; `Kept` (without a refusal
  or an unplug the submitted transfers are all there) gives `StreamIsKept`; `Escaped` (once main
  cancels, only the transfer whose callback had already read `running` can be behind it) gives
  `OneEscapesAtMost`. `EngineUsesRings` rests on `Control` too: each ring sees the calls
  of `FrameCount` and nothing else (`MainRenewsRings`, `ThreadUsesRings`, `ClientUsesRings`, one
  per actor), so that the count of `IsoEngine` and the code of `SpscRing` meet in one contract.
  TLC has checked both refinements at the constants of the two runs.
- **`KernelPcmProofs`**. `KernelTypeOK` from `Types` (an URB is in one place at a time).
  `KilledUrbsStayQuiet` from `Types` too, with one step per group of actions and a frame lemma
  (`QuietFrame`: what brings no URB into circulation but by START's hand is harmless); the step
  that matters is `KillReturns`, and that nothing but START keeps a pointer to an idle URB.
  `RunningStreamIsKept` from `KeptInv`: it speaks of the URBs START has submitted so far
  (`Submitted`), since the property itself says nothing before START returns.
  `StoppedStreamGainsNothing`: while a stream is stopped, nothing of it comes into circulation
  and nothing goes back to the controller but the URB that was past its last look at `running`
  (`Late`). With it, `StoppedStreamDrains` is left to what liveness alone can say: URBs come
  back. `StoppedStreamOnlyDrains` was also checked by TLC at the constants of `kernel_pcm`.
- **`PcmPointerProofs`**. `PointerStaysInBuffer`, `PeriodsAreNeverMissed`,
  `TransferKeepsTheLastFrames` for all packet, period and buffer sizes `djmt1_hw` allows.
- **`MidiProofs`**, the bridge. `BridgeTypes`, `ReadsAreKept`, `ClosesQuietly` from `BridgeInv`:
  the two properties are about the end of a phase of main and become inductive once every
  earlier phase says which transfers are pending or refused so far (`Claimed`) and when `running`
  holds.
- **`MidiProofs`**, the conversions. `ConvInv` says of each of the two loops how far it is:
  what `pkt` or the bytes for the sequencer hold is the conversion of what was taken so far
  (`Packing`, `Parsing`), and of the right kind (`Buffers`). It gives `ConversionTypes`, `MessagesComeThrough`
  and `MixerIsHeard`, for data and messages of every length, with one assumption beyond
  types: `MaxPackets` is at least two (`pkt[64]` holds sixteen). What the invariant needs of
  `FlattenSeq`, a recursive function of the community modules, is that it exists and how it
  grows by one sequence (`FlattenAppend`). The library's induction theorems cannot be used for
  that, so the lemmas take the least length that would refute them (`LeastNat`) and show that
  there is none.
- **`UnifiedDaemonProofs`**. `MainPhases` (threads and streams in each phase of main) gives
  `DaemonSharesSafely`, `ReadsClosed` gives `DaemonClosesQuietly`, `GateSoFar` (what the thread
  has done towards the gate in each of its phases, and what of it failed) gives
  `DaemonOpensTheGate`. It needs no assumption on unplugs: a handle that reaches the mixer
  reaches the one it was opened on.
- **`StreamToolsProofs`**. `ToolInv`: types, phases and `Counts` (`inflight` is the number of
  active transfers; what moved data is counted or waits to be reaped). `OneTransferMoves` says
  how the two cardinalities change when one transfer does. `ToolInflight`, `ToolReports`.
- **`CalibrateProofs`**. `Saved` (what file, temporary file and memory know of each other)
  gives `SavedStays` and the action property `RecordsStay`; `Captured` (what main drew is a
  beginning of what arrived) gives `ReviewIsOfThisCapture`.

Only model-checked: every liveness property (`CallsReturn`, `StopReturns`,
`StoppedStreamDrains`, `QuitEndsTheBridge`, `ReplugIsRearmed`, `LoopLeadsToService`, `StopEnds`,
`ToolEnds`, `ReaderComesBack`), because TLAPS does not reach liveness under fairness.

## 6. Bounds and abstractions

- Audio samples are opaque in `SpscRing` and absent elsewhere; the conversions
  between 24-bit samples and floats, levels, histograms and tones are not modelled.
- `IsoEngine` opens the device successfully: a failing `djmt1_iso_start` changes nothing.
  Memory exhaustion is excluded everywhere, and a failing `pthread_create` where the code
  does not look at it; what follows there is a null pointer, not a state.
- `KernelPcm` lets one `usb_set_interface` run at a time. The submission of an URB whose memory
  is gone is undefined in the code: the model lets it be taken or fail, and follows the URB on.
  The two frees of an URB (its buffer, then it) are one step, as nothing looks between them.
- `IsoEngine` gives freed memory no contents either: what libusb does with the transfers it
  still lists is left out after `StopClose`.
- Whether an arm write fails with the mixer there is drawn once, at the last of the eight
  control transfers (`ArmStep`): nothing looks at `ok` before.
- `MidiBridge` has one audio transfer for eight and two open attempts for twenty
  (`Tries`); the ten settle rounds are one step around which callbacks run, in `UnifiedDaemon`
  too.
- `StreamTools` bounds the transfers that move data (`MaxData`), `Calibrate` the events of
  the list (`MaxEvents`), `PcmPointer` the frames moved (`MaxMoved`).
- `Calibrate`: an event arrives when the reader appends it. Those that come while `getch`
  waits for the last key (up to 120 ms) are missing from the reviewed record; the last
  "Saved to" is printed, and `d` returns, whether or not the save worked; an aseqdump that
  `stop()` misses while it is being started is left behind. None of these is a promise of the
  code. A power failure that loses what was not synced is not modelled.
- Histories (`refused`, `flushed`, `moved`, `elapsed`, `unplugged`, `failed`,
  `delivered`, `seen`, `touched`, `told`, `unread`) record what happened for the properties.
  `moved` and `delivered` carry a bound; no other one is a guard.

## 7. Not modelled

- `djmt1-audio` and `djm-midi` side by side under their services: they share only the mixer's
  gate, and neither promises anything of the other (the unified daemon exists because of it).
  Each is modelled alone.
- A completion of a previous run that moves `hwptr` after `prepare` reset it
  (`djmt1_audio.c:99`): `KernelPcm` has no pointers, and no document says what should happen.
- The arm utility: eight control transfers and no state; the same sequence is `ArmStep`.
- The Mixxx mapping: static bindings and a stateless toggle; Mixxx keeps the state.
- The bench scripts, build files and installer: linear I/O.
