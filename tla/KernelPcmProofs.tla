-------------------------- MODULE KernelPcmProofs ---------------------------
(***************************************************************************)
(* What KernelPcm promises, for any number of URBs and packets.            *)
(*                                                                         *)
(*   Types      TypeOK, that a completion that runs has an URB, and that   *)
(*              what djmt1_free_urbs is at is one.                         *)
(*   Killed     what it has killed comes back by START's hand only.        *)
(*   KeptInv    a running stream has the URBs it submitted, and its        *)
(*              endpoint takes them back.                                  *)
(*   Drains     a stopped stream gets nothing into circulation and submits *)
(*              the one URB that was past its last look at running.        *)
(***************************************************************************)
EXTENDS KernelPcm, TLAPS

(* No completion, no URB. *)
LEMMA NoUrbIsNone == NoUrb \notin Urbs
BY DEF NoUrb, Urbs, Streams

(* An URB on its way back is still the same URB. *)
LEMMA ResultUrb == \A u, status : Result(u, status)[1] = u
BY DEF Result

(* Giving URBs back moves them from the controller to the completions. *)
LEMMA PendingAfterReturn ==
  ASSUME NEW U, completed' = completed \cup {Result(u, FALSE) : u \in U}
  PROVE  Pending' = Pending \cup U
<1>1. \A u \in U : Result(u, FALSE) \in completed' /\ Result(u, FALSE)[1] = u
  BY ResultUrb
<1>2. ASSUME NEW c \in completed', c \notin completed
      PROVE  c[1] \in U
  <2>1. PICK u \in U : c = Result(u, FALSE)
    BY <1>2
  <2> QED
    BY <2>1, ResultUrb
<1>3. completed \subseteq completed'
  OBVIOUS
<1> QED
  BY <1>1, <1>2, <1>3 DEF Pending

-----------------------------------------------------------------------------
(* Types *)

(* Each direction has an URB at least. *)
LEMMA UrbCount == \A s \in Streams : NURB(s) \in Nat \ {0}
BY KernelAssumption DEF NURB

(* START submits only an URB that exists: a load from the array precedes each *)
(* submission.                                                                *)
StartInRange == \A s \in Streams : pcm[s] = "submitting" => next[s] < NURB(s)

(* Only djmt1_in_complete looks twice. *)
CaptureIsRechecked == at = "recheck" => urb[1] = "capture"

(* djmt1_free_urbs is at an URB that it has not freed yet. *)
FreesAnUrb == freeing[1] # "idle" => freeing[2] \in Urbs \ cleared

Types ==
  /\ TypeOK /\ StartInRange /\ (at # "idle" <=> urb # NoUrb) /\ CaptureIsRechecked
  /\ at = "transfer" => left > 0
  /\ FreesAnUrb

(* The types after probe. *)
LEMMA TypesInit == Init => Types
<1>1. Init => completed = {} /\ held = {}
  BY DEF Init
<1> QED
  BY <1>1, UrbCount, KernelAssumption DEF Init, Types, StartInRange, CaptureIsRechecked, TypeOK,
     FreesAnUrb, Pending, NoUrb, Streams

(* The URBs a flush or an unplug gives back. *)
LEMMA ReturnKeepsTypes ==
  ASSUME TypeOK, NEW U, U \subseteq held,
         held' = held \ U, completed' = completed \cup {Result(u, FALSE) : u \in U}
  PROVE  /\ held' \subseteq Urbs /\ completed' \subseteq Urbs \X BOOLEAN
         /\ held' \cap Pending' = {} /\ \A c, d \in completed' : c[1] = d[1] => c = d
<1>1. Pending' = Pending \cup U
  BY PendingAfterReturn
<1>2. \A u \in U : Result(u, FALSE) \in Urbs \X BOOLEAN
  BY DEF TypeOK, Result
<1>3. \A u \in U : Result(u, FALSE)[1] = u
  BY ResultUrb
<1>4. ASSUME NEW c \in completed', NEW d \in completed', c[1] = d[1] PROVE c = d
  <2>1. c \in completed => c[1] \notin U
    BY DEF TypeOK, Pending
  <2>2. d \in completed => d[1] \notin U
    BY DEF TypeOK, Pending
  <2>3. CASE c \in completed /\ d \in completed
    BY <1>4, <2>3 DEF TypeOK
  <2>4. ASSUME NEW u \in U, c = Result(u, FALSE) PROVE c = d
    <3>1. d \notin completed
      BY <1>3, <1>4, <2>2, <2>4, Zenon
    <3>2. PICK v \in U : d = Result(v, FALSE)
      BY <3>1, Zenon
    <3>3. u = v
      BY <1>3, <1>4, <2>4, <3>2, Zenon
    <3> QED
      BY <2>4, <3>2, <3>3, Zenon
  <2>5. ASSUME NEW v \in U, d = Result(v, FALSE) PROVE c = d
    <3>1. c \notin completed
      BY <1>3, <1>4, <2>1, <2>5, Zenon
    <3>2. PICK u \in U : c = Result(u, FALSE)
      BY <3>1, Zenon
    <3>3. u = v
      BY <1>3, <1>4, <2>5, <3>2, Zenon
    <3> QED
      BY <2>5, <3>2, <3>3, Zenon
  <2> QED
    BY <2>3, <2>4, <2>5, Zenon
<1>5. held' \subseteq Urbs /\ completed' \subseteq Urbs \X BOOLEAN
  <2>1. held \subseteq Urbs /\ completed \subseteq Urbs \X BOOLEAN
    BY DEF TypeOK
  <2>2. {Result(u, FALSE) : u \in U} \subseteq Urbs \X BOOLEAN
    BY <1>2, Zenon
  <2> QED
    BY <2>1, <2>2, Zenon
<1>6. held' \cap Pending' = {}
  BY <1>1 DEF TypeOK
<1> QED
  BY <1>4, <1>5, <1>6

(* The PCM operations keep the types: an URB is submitted from no other place. *)
LEMMA OperationKeepsTypes ==
  ASSUME Types, PcmOperation
  PROVE  Types'
<1> USE UrbCount, KernelAssumption DEF Types, StartInRange, CaptureIsRechecked, TypeOK, FreesAnUrb,
    coreVars, urbVars, freeVars, irqVars, pcmVars, Pending
<1> SUFFICES ASSUME NEW s \in Streams,
                    \/ Open(s) \/ Close(s) \/ Prepare(s) \/ Start(s)
                    \/ StartLoad(s) \/ StartSubmit(s) \/ StartReturn(s) \/ Stop(s)
             PROVE  Types'
  BY DEF PcmOperation
<1>1. CASE Open(s)
  BY <1>1 DEF Open
<1>2. CASE Close(s)
  BY <1>2 DEF Close
<1>3. CASE Prepare(s)
  BY <1>3 DEF Prepare
<1>4. CASE Start(s)
  BY <1>4 DEF Start
<1>0. ASSUME StartFails(s)
      PROVE  /\ running' \in [Streams -> BOOLEAN]
             /\ pcm' \in [Streams -> {"closed", "open", "preparing", "prepared", "starting",
                                      "submitting", "running"}]
             /\ next' \in [Streams -> Nat] /\ \A t \in Streams : next'[t] <= NURB(t)
             /\ StartInRange'
  <2>1. /\ running' \in [Streams -> BOOLEAN]
        /\ pcm' \in [Streams -> {"closed", "open", "preparing", "prepared", "starting",
                                 "submitting", "running"}]
    BY <1>0 DEF StartFails
  <2>2. /\ next' \in [Streams -> Nat]
        /\ \A t \in Streams : next'[t] = next[t] \/ next'[t] = 0
        /\ \A t \in Streams : pcm'[t] = "submitting" => pcm[t] = "submitting" /\ next'[t] = next[t]
    BY <1>0 DEF StartFails
  <2> QED
    BY <2>1, <2>2
<1>5. CASE StartLoad(s)
  <2>1. CASE StartFails(s)
    BY <1>5, <1>0, <2>1 DEF StartLoad
  <2>2. CASE ~StartFails(s)
    <3>1. /\ pcm' = [pcm EXCEPT ![s] = "submitting"] /\ UNCHANGED <<running, next>>
          /\ next[s] < NURB(s)
      BY <1>5, <2>2 DEF StartLoad
    <3> QED
      BY <1>5, <3>1 DEF StartLoad
  <2> QED
    BY <2>1, <2>2
<1>6. CASE StartSubmit(s)
  <2> DEFINE u == <<s, next[s]>>
  <2>1. u \in Urbs
    BY <1>6 DEF StartSubmit, StartInRange, Urbs
  <2>2. CASE StartFails(s) /\ UNCHANGED held
    BY <1>6, <1>0, <2>2 DEF StartSubmit
  <2>3. CASE Accepts(u) /\ held' = held \cup {u} /\ next' = [next EXCEPT ![s] = @ + 1]
             /\ pcm' = [pcm EXCEPT ![s] = "starting"] /\ UNCHANGED running
    <3>1. held' \subseteq Urbs /\ held' \cap Pending' = {}
      BY <1>6, <2>1, <2>3 DEF StartSubmit, Accepts
    <3>2. next' \in [Streams -> Nat] /\ \A t \in Streams : next'[t] <= NURB(t)
      BY <1>6, <2>3 DEF StartSubmit, StartInRange
    <3>3. StartInRange'
      BY <2>3
    <3> QED
      BY <1>6, <2>3, <3>1, <3>2, <3>3 DEF StartSubmit
  <2> QED
    BY <1>6, <2>2, <2>3 DEF StartSubmit
<1>7. CASE StartReturn(s)
  BY <1>7 DEF StartReturn
<1>8. CASE Stop(s)
  BY <1>8 DEF Stop
<1> QED
  BY <1>1, <1>2, <1>3, <1>4, <1>5, <1>6, <1>7, <1>8

(* A flush moves URBs from the controller to their completion. *)
LEMMA SetInterfaceKeepsTypes ==
  ASSUME Types, SetInterface
  PROVE  Types'
<1>1. CASE SetInterfaceEnable
  BY <1>1 DEF SetInterfaceEnable, Types, TypeOK, StartInRange, CaptureIsRechecked, FreesAnUrb,
              urbVars, freeVars, irqVars, Pending
<1>2. CASE SetInterfaceDisable
  <2>1. PICK s \in Streams : Flush(s)
    BY <1>2 DEF SetInterfaceDisable, Streams
  <2>2. /\ held' \subseteq Urbs /\ completed' \subseteq Urbs \X BOOLEAN
        /\ held' \cap Pending' = {} /\ \A c, d \in completed' : c[1] = d[1] => c = d
    <3>1. held' = held \ (held \cap UrbsOf(s))
      BY <2>1 DEF Flush
    <3> QED
      BY <2>1, <3>1, ReturnKeepsTypes DEF Flush, Types
  <2>3. setif' \in {"idle", "disable_out", "disable_in", "enable"} \X (Streams \cup {"none"})
    BY <1>2 DEF SetInterfaceDisable, Types, TypeOK
  <2>4. UNCHANGED <<present, bound, pcm, running, next, freeing, cleared, urb, at, left>>
    BY <1>2 DEF SetInterfaceDisable, pcmVars, freeVars, irqVars
  <2>5. enabled' \subseteq Streams /\ flushed' \subseteq Streams
    BY <2>1 DEF Flush, Types, TypeOK
  <2> QED
    BY <2>2, <2>3, <2>4, <2>5 DEF Types, TypeOK, StartInRange, CaptureIsRechecked, FreesAnUrb
<1> QED
  BY <1>1, <1>2 DEF SetInterface

(* A completion takes one pending URB and leaves it in one place. *)
LEMMA CompletionKeepsTypes ==
  ASSUME Types, Completion
  PROVE  Types'
<1> USE KernelAssumption, NoUrbIsNone
    DEF Types, TypeOK, StartInRange, CaptureIsRechecked, FreesAnUrb, pcmVars, coreVars, urbVars,
        freeVars, irqVars, Leave
<1>1. ASSUME NEW c \in completed, CompletionEnter(c) PROVE Types'
  <2>1. c[1] \in Urbs /\ completed' = completed \ {c} /\ Pending' \subseteq Pending
    BY <1>1 DEF CompletionEnter, Pending
  <2>2. \/ urb' = c[1] /\ at' = "transfer" /\ left' = NPKT
        \/ urb' = c[1] /\ at' = "recheck" /\ left' = 0 /\ c[1][1] = "capture"
        \/ UNCHANGED <<urb, at, left>>
    BY <1>1 DEF CompletionEnter, Copies
  <2>3. UNCHANGED <<pcmVars, coreVars, held, freeVars, flushed>>
    BY <1>1 DEF CompletionEnter
  <2>4. urb' \in Urbs \cup {NoUrb} /\ left' \in 0..NPKT /\ (at' = "transfer" => left' > 0)
    BY <2>1, <2>2
  <2> QED
    BY <2>1, <2>2, <2>3, <2>4
<1>3. CASE Transfer
  <2>1. left' \in 0..NPKT /\ UNCHANGED <<next, coreVars, urbVars, urb>> /\ at = "transfer"
    BY <1>3 DEF Transfer
  <2>4. /\ at' \in {"transfer", "recheck", "resubmit"} /\ CaptureIsRechecked'
        /\ at' = "transfer" => left' > 0
    BY <1>3 DEF Transfer
  <2>2. /\ running' \in [Streams -> BOOLEAN]
        /\ pcm' \in [Streams -> {"closed", "open", "preparing", "prepared", "starting",
                                 "submitting", "running"}]
    BY <1>3 DEF Transfer
  <2>3. \A s \in Streams : pcm'[s] = "submitting" => pcm[s] = "submitting"
    BY <1>3 DEF Transfer
  <2> QED
    BY <2>1, <2>2, <2>3, <2>4 DEF Pending
<1>5. CASE Recheck
  <2>1. UNCHANGED <<pcmVars, coreVars, urbVars>>
    BY <1>5 DEF Recheck
  <2>2. \/ at' = "resubmit" /\ UNCHANGED <<urb, left>>
        \/ at' = "idle" /\ urb' = NoUrb /\ left' = 0
    BY <1>5 DEF Recheck
  <2>3. at # "idle"
    BY <1>5 DEF Recheck
  <2>4. 0 \in 0..NPKT
    OBVIOUS
  <2> QED
    BY <2>1, <2>2, <2>3, <2>4 DEF Pending
<1>6. CASE Resubmit
  BY <1>6 DEF Resubmit, Accepts, Pending
<1> QED
  BY <1>1, <1>3, <1>5, <1>6 DEF Completion

(* An URB given back leaves the controller. *)
LEMMA ControllerKeepsTypes ==
  ASSUME Types, Controller
  PROVE  Types'
<1>1. PICK u \in held, status \in BOOLEAN : GiveBack(u, status)
  BY DEF Controller, GiveBack
<1>2. DEFINE c == Result(u, status)
<1>3. c[1] = u /\ c \in Urbs \X BOOLEAN /\ completed' = completed \cup {c} /\ held' = held \ {u}
  BY <1>1 DEF GiveBack, Result, Types, TypeOK
<1>4. \A d \in completed : d[1] # c[1]
  BY <1>3 DEF Types, TypeOK, Pending
<1> HIDE DEF c
<1>5. Pending' = Pending \cup {u}
  BY <1>3 DEF Pending
<1>6. UNCHANGED <<pcmVars, coreVars, freeVars, flushed, irqVars>>
  BY <1>1 DEF GiveBack
<1> QED
  BY <1>3, <1>4, <1>5, <1>6
     DEF Types, TypeOK, StartInRange, CaptureIsRechecked, FreesAnUrb, pcmVars, coreVars, freeVars,
         irqVars

(* So does the unplug, and so does the killing. *)
LEMMA UnpluggingKeepsTypes ==
  ASSUME Types, Unplugging
  PROVE  Types'
<1> USE DEF Types, TypeOK, StartInRange, CaptureIsRechecked, FreesAnUrb, pcmVars, coreVars,
        urbVars, freeVars, irqVars
<1>1. CASE Unplug
  <2>1. held' = held \ held
    BY <1>1 DEF Unplug
  <2>2. /\ held' \subseteq Urbs /\ completed' \subseteq Urbs \X BOOLEAN
        /\ held' \cap Pending' = {} /\ \A c, d \in completed' : c[1] = d[1] => c = d
    BY <1>1, <2>1, ReturnKeepsTypes DEF Unplug
  <2>3. present' \in BOOLEAN /\ enabled' \subseteq Streams /\ flushed' \subseteq Streams
    BY <1>1 DEF Unplug
  <2> QED
    BY <1>1, <2>2, <2>3 DEF Unplug
<1>2. CASE Disconnect
  BY <1>2 DEF Disconnect, Pending
<1>3. ASSUME NEW u \in Urbs, KillUrb(u) PROVE Types'
  <2>1. held' = held \ (held \cap {u})
    BY <1>3 DEF KillUrb
  <2>2. /\ held' \subseteq Urbs /\ completed' \subseteq Urbs \X BOOLEAN
        /\ held' \cap Pending' = {} /\ \A c, d \in completed' : c[1] = d[1] => c = d
    BY <1>3, <2>1, ReturnKeepsTypes DEF KillUrb
  <2> QED
    BY <1>3, <2>2 DEF KillUrb
<1>5. CASE KillReturns \/ FreeUrb
  BY <1>5 DEF KillReturns, FreeUrb, FreeStep, Pending
<1>6. CASE ClearUrb
  BY <1>6 DEF ClearUrb, Pending
<1>4. CASE Probe
  <2>1. cleared' \subseteq Urbs /\ flushed' \subseteq Streams /\ enabled' \subseteq Streams
    BY <1>4 DEF Probe
  <2>2. present' \in BOOLEAN /\ bound' \in BOOLEAN
    BY <1>4 DEF Probe
  <2> QED
    BY <1>4, <2>1, <2>2 DEF Probe, Pending
<1> QED
  BY <1>1, <1>2, <1>3, <1>4, <1>5, <1>6 DEF Unplugging, FreeUrbs

(* The types hold, and an URB is in one place at a time, for any NURB. *)
THEOREM KernelTypes == Spec => []Types
<1>1. Types /\ [Next]_vars => Types'
  <2> SUFFICES ASSUME Types, [Next]_vars PROVE Types'
    OBVIOUS
  <2>1. CASE UNCHANGED vars
    BY <2>1 DEF Types, TypeOK, StartInRange, CaptureIsRechecked, FreesAnUrb, vars, pcmVars,
        coreVars, urbVars, freeVars, irqVars, Pending
  <2> QED
    BY <2>1, OperationKeepsTypes, SetInterfaceKeepsTypes, CompletionKeepsTypes,
       ControllerKeepsTypes, UnpluggingKeepsTypes DEF Next
<1> QED
  BY TypesInit, <1>1, PTL DEF Spec

(* ... which is the TypeOK that the runs check. *)
THEOREM KernelTypeOK == Spec => []TypeOK
<1>1. Types => TypeOK
  BY DEF Types
<1> QED
  BY KernelTypes, <1>1, PTL

-----------------------------------------------------------------------------
(* Killed *)

(* What djmt1_free_urbs has killed are URBs. *)
LEMMA KilledAreUrbs == Types => Killed \subseteq Urbs
BY DEF Types, TypeOK, FreesAnUrb, Killed, At

(* What a step may do to an URB that is killed after it. *)
StaysQuiet(u) == u \in Busy' => u \in Killed /\ (u \in Busy \/ Handed(u))

(* A step that leaves djmt1_free_urbs where it is, and brings no URB into     *)
(* circulation but by START's hand, leaves the killed ones quiet.             *)
LEMMA QuietFrame ==
  ASSUME Types, UNCHANGED freeVars, NEW u \in Killed',
         \A v \in Urbs : v \in Busy' => v \in Busy \/ Handed(v)
  PROVE  StaysQuiet(u)
<1>1. Killed' = Killed
  BY DEF Killed, At, freeVars
<1> QED
  BY <1>1, KilledAreUrbs DEF StaysQuiet

(* The PCM operations submit nothing but in START. *)
LEMMA OperationKeepsQuiet ==
  ASSUME Types, PcmOperation, NEW u \in Killed'
  PROVE  StaysQuiet(u)
<1>1. PICK s \in Streams :
        \/ Open(s) \/ Close(s) \/ Prepare(s) \/ Start(s)
        \/ StartLoad(s) \/ StartSubmit(s) \/ StartReturn(s) \/ Stop(s)
  BY DEF PcmOperation
<1>2. UNCHANGED <<completed, freeVars, urb>>
  BY <1>1 DEF Open, Close, Prepare, Start, StartLoad, StartSubmit, StartReturn, Stop,
      urbVars, irqVars
<1>3. \A v \in held' : v \in held \/ Handed(v)
  BY <1>1 DEF Open, Close, Prepare, Start, StartLoad, StartSubmit, StartReturn, Stop, Handed,
              urbVars
<1> QED
  BY <1>2, <1>3, QuietFrame DEF Busy, Pending

(* A flush gives back what the controller holds. *)
LEMMA SetInterfaceKeepsQuiet ==
  ASSUME Types, SetInterface, NEW u \in Killed'
  PROVE  StaysQuiet(u)
<1>1. UNCHANGED <<freeVars, urb>>
  BY DEF SetInterface, SetInterfaceDisable, SetInterfaceEnable, Flush, urbVars, irqVars
<1>2. CASE SetInterfaceDisable
  <2>1. PICK s : Flush(s)
    BY <1>2 DEF SetInterfaceDisable
  <2>2. Pending' = Pending \cup (held \cap UrbsOf(s))
    BY <2>1, PendingAfterReturn DEF Flush
  <2> QED
    BY <2>1, <2>2, <1>1, QuietFrame DEF Flush, Busy
<1>3. CASE SetInterfaceEnable
  BY <1>3, <1>1, QuietFrame DEF SetInterfaceEnable, Busy, Pending, urbVars
<1> QED
  BY <1>2, <1>3 DEF SetInterface

(* A completion uses an URB that came back, and submits no other. *)
LEMMA CompletionKeepsQuiet ==
  ASSUME Types, Completion, NEW u \in Killed'
  PROVE  StaysQuiet(u)
<1>1. UNCHANGED freeVars
  BY DEF Completion, CompletionEnter, Transfer, Recheck, Resubmit, urbVars
<1>2. ASSUME NEW c \in completed, CompletionEnter(c) PROVE StaysQuiet(u)
  <2>1. urb' \in Pending \cup {urb} /\ Pending' \subseteq Pending /\ held' = held
    BY <1>2 DEF CompletionEnter, Copies, Pending, irqVars
  <2> QED
    BY <2>1, <1>1, QuietFrame DEF Busy
<1>3. CASE Transfer \/ Recheck
  <2>1. urb' \in {urb, NoUrb} /\ UNCHANGED <<held, completed>>
    BY <1>3 DEF Transfer, Recheck, Leave, urbVars
  <2> QED
    BY <2>1, <1>1, QuietFrame, NoUrbIsNone DEF Busy, Pending
<1>4. CASE Resubmit
  <2>1. urb' = NoUrb /\ UNCHANGED completed /\ held' \subseteq held \cup {urb}
    BY <1>4 DEF Resubmit, Leave
  <2> QED
    BY <2>1, <1>1, QuietFrame, NoUrbIsNone DEF Busy, Pending
<1> QED
  BY <1>2, <1>3, <1>4 DEF Completion

(* The controller gives back what it holds. *)
LEMMA ControllerKeepsQuiet ==
  ASSUME Types, Controller, NEW u \in Killed'
  PROVE  StaysQuiet(u)
<1>1. PICK v \in Urbs, status \in BOOLEAN : GiveBack(v, status)
  BY DEF Controller
<1>2. Pending' \subseteq Pending \cup {v}
  <2>1. \A c \in completed' : c \in completed \/ c[1] = v
    BY <1>1, ResultUrb DEF GiveBack
  <2> QED
    BY <2>1 DEF Pending
<1> QED
  BY <1>1, <1>2, QuietFrame DEF GiveBack, Busy, irqVars

(* Unplugging and usb_kill_urb give back what the controller holds; the kill  *)
(* returns when the URB is idle; a new card starts with nothing killed.       *)
LEMMA UnpluggingKeepsQuiet ==
  ASSUME Types, Unplugging, NEW u \in Killed'
  PROVE  StaysQuiet(u)
<1>1. CASE Unplug
  <2>1. Pending' = Pending \cup held /\ held' = {} /\ UNCHANGED <<freeVars, urb>>
    BY <1>1, PendingAfterReturn DEF Unplug, irqVars
  <2> QED
    BY <2>1, QuietFrame DEF Busy
<1>2. CASE Disconnect
  BY <1>2, QuietFrame DEF Disconnect, Busy, Pending, irqVars
<1>3. ASSUME NEW v \in Urbs, KillUrb(v) PROVE StaysQuiet(u)
  <2>1. Pending' = Pending \cup (held \cap {v}) /\ held' \subseteq held /\ urb' = urb
    BY <1>3, PendingAfterReturn DEF KillUrb, irqVars
  <2>2. Killed' = cleared /\ cleared \subseteq Killed
    BY <1>3 DEF KillUrb, Killed, At
  <2> QED
    BY <2>1, <2>2 DEF StaysQuiet, Busy
<1>4. CASE KillReturns
  <2>1. Busy' = Busy /\ Killed' = cleared \cup {freeing[2]} /\ freeing[2] \notin Busy
        /\ cleared \subseteq Killed
    BY <1>4 DEF KillReturns, FreeStep, Busy, Pending, irqVars, Killed, At
  <2> QED
    BY <2>1 DEF StaysQuiet
<1>5. CASE FreeUrb \/ ClearUrb
  <2>1. Busy' = Busy /\ Killed' = Killed
    BY <1>5 DEF FreeUrb, FreeStep, ClearUrb, Busy, Pending, irqVars, Killed, At
  <2> QED
    BY <2>1 DEF StaysQuiet
<1>6. CASE Probe
  <2>1. Killed' = {} \cup At({"killed", "freed"}) /\ Busy' = {NoUrb}
    BY <1>6 DEF Probe, Killed, At, Busy, Pending, irqVars
  <2>2. u \in Urbs
    BY <2>1, KilledAreUrbs DEF Killed
  <2> QED
    BY <2>1, <2>2, NoUrbIsNone DEF StaysQuiet
<1> QED
  BY <1>1, <1>2, <1>3, <1>4, <1>5, <1>6 DEF Unplugging, FreeUrbs

(* What djmt1_free_urbs has killed (djmt1_audio.c:181-193) does not come back *)
(* by a completion, a prepare, an unplugging or a new START, whatever their   *)
(* order: only by a START that had loaded the pointer before.                 *)
THEOREM KilledUrbsStayQuiet == Spec => KilledUrbsAreQuiet
<1>1. Types /\ [Next]_vars =>
        [\A u \in Killed' : u \in Busy' => u \in Killed /\ (u \in Busy \/ Handed(u))]_vars
  <2> SUFFICES ASSUME Types, Next, NEW u \in Killed' PROVE StaysQuiet(u)
    BY DEF StaysQuiet
  <2> QED
    BY OperationKeepsQuiet, SetInterfaceKeepsQuiet, CompletionKeepsQuiet, ControllerKeepsQuiet,
       UnpluggingKeepsQuiet DEF Next
<1> QED
  BY KernelTypes, <1>1, PTL DEF Spec, KilledUrbsAreQuiet

-----------------------------------------------------------------------------
(* KeptInv *)

(* The URBs of a stream that START has submitted. *)
Submitted(s) ==
  IF pcm[s] = "running" THEN UrbsOf(s)
  ELSE IF pcm[s] \in {"starting", "submitting"} THEN {<<s, i>> : i \in 0..(next[s] - 1)} ELSE {}

(* As long as nobody flushed its endpoint, a stream that runs has them all,   *)
(* and the endpoint takes them back; an endpoint that takes URBs belongs to a *)
(* device that is there; djmt1_disconnect counts as a flush, and nothing is   *)
(* killed before it.                                                          *)
KeptInv ==
  /\ \A s \in Streams : running[s] /\ s \notin flushed =>
       Submitted(s) \subseteq Busy /\ (Submitted(s) # {} => s \in enabled)
  /\ enabled # {} => present
  /\ ~bound => flushed = Streams
  /\ bound => freeing[1] = "idle"

(* At probe no stream runs. *)
LEMMA KeptInit == Init => KeptInv
BY DEF Init, KeptInv, Streams

(* The URBs a START has submitted so far are URBs of its stream. *)
LEMMA SubmittedAreUrbs ==
  ASSUME Types, NEW s \in Streams
  PROVE  Submitted(s) \subseteq UrbsOf(s)
<1>1. next[s] \in 0..NURB(s)
  BY DEF Types, TypeOK
<1>2. \A i \in 0..(next[s] - 1) : i \in 0..(NURB(s) - 1)
  BY <1>1, UrbCount
<1>3. {<<s, i>> : i \in 0..(next[s] - 1)} \subseteq UrbsOf(s)
  BY <1>2 DEF Urbs, UrbsOf
<1> QED
  BY <1>3 DEF Submitted

(* A step that moves no URB out of circulation and starts no stream keeps KeptInv. *)
LEMMA KeptFrame ==
  ASSUME Types, KeptInv, UNCHANGED <<pcm, running, next, enabled, flushed, present, bound, freeVars>>,
         Busy \subseteq Busy' \cup {NoUrb}
  PROVE  KeptInv'
<1>1. \A s \in Streams : Submitted(s)' = Submitted(s) /\ NoUrb \notin Submitted(s)
  BY SubmittedAreUrbs, NoUrbIsNone DEF Submitted, UrbsOf
<1> QED
  BY <1>1 DEF KeptInv, freeVars

(* A step of one stream leaves what the other one has alone. *)
LEMMA KeptByOthers ==
  ASSUME KeptInv, UNCHANGED <<enabled, present, bound, freeVars>>, Busy \subseteq Busy',
         NEW t \in Streams, flushed \subseteq flushed' \cup {t},
         ~bound => flushed' = flushed,
         \A s \in Streams \ {t} :
           pcm'[s] = pcm[s] /\ running'[s] = running[s] /\ next'[s] = next[s],
         running'[t] /\ t \notin flushed' =>
           Submitted(t)' \subseteq Busy' /\ (Submitted(t)' # {} => t \in enabled)
  PROVE  KeptInv'
<1>1. \A s \in Streams \ {t} : Submitted(s)' = Submitted(s)
  BY DEF Submitted, UrbsOf
<1>2. ASSUME NEW s \in Streams, running'[s], s \notin flushed'
      PROVE  Submitted(s)' \subseteq Busy' /\ (Submitted(s)' # {} => s \in enabled)
  BY <1>1, <1>2 DEF KeptInv
<1> QED
  BY <1>2 DEF KeptInv, freeVars

(* START takes the URBs one by one; no other operation takes any away. *)
LEMMA OperationKeepsKept ==
  ASSUME Types, KeptInv, PcmOperation
  PROVE  KeptInv'
<1>1. PICK s \in Streams :
        \/ Open(s) \/ Close(s) \/ Prepare(s) \/ Start(s)
        \/ StartLoad(s) \/ StartSubmit(s) \/ StartReturn(s) \/ Stop(s)
  BY DEF PcmOperation
<1>2. /\ UNCHANGED <<enabled, present, bound, freeVars>>
      /\ flushed \subseteq flushed' \cup {s} /\ (~bound => flushed' = flushed)
  BY <1>1 DEF Open, Close, Prepare, Start, StartLoad, StartSubmit, StartReturn, Stop,
      coreVars,
              urbVars
<1>3. Busy \subseteq Busy'
  BY <1>1 DEF Open, Close, Prepare, Start, StartLoad, StartSubmit, StartReturn, Stop, urbVars,
              irqVars, Busy, Pending
<1>4. \A t \in Streams \ {s} :
        pcm'[t] = pcm[t] /\ running'[t] = running[t] /\ next'[t] = next[t]
  BY <1>1 DEF Open, Close, Prepare, Start, StartLoad, StartFails, StartSubmit, StartReturn,
      Stop,
              Types, TypeOK
<1>5. ASSUME running'[s], s \notin flushed'
      PROVE  Submitted(s)' \subseteq Busy' /\ (Submitted(s)' # {} => s \in enabled)
  <2>1. CASE Open(s) \/ Close(s) \/ Prepare(s) \/ Stop(s) \/ (StartLoad(s) /\ StartFails(s))
             \/ (StartSubmit(s) /\ StartFails(s))
    <3>1. pcm'[s] \in {"open", "closed", "preparing", "prepared"}
      BY <2>1 DEF Open, Close, Prepare, Stop, StartFails, Types, TypeOK
    <3> QED
      BY <3>1 DEF Submitted
  <2>2. CASE Start(s)
    <3>1. pcm'[s] = "starting" /\ next'[s] = 0
      BY <2>2 DEF Start, Types, TypeOK
    <3>2. 0..(next'[s] - 1) = {}
      BY <3>1
    <3> QED
      BY <3>1, <3>2 DEF Submitted
  <2>3. CASE StartLoad(s) /\ ~StartFails(s)
    <3>1. /\ pcm[s] = "starting" /\ pcm'[s] = "submitting" /\ UNCHANGED <<running, next>>
          /\ UNCHANGED <<flushed, held, completed, urb>>
      BY <2>3 DEF StartLoad, Types, TypeOK, urbVars, irqVars
    <3>2. Submitted(s)' = Submitted(s)
      BY <3>1 DEF Submitted
    <3> QED
      BY <1>3, <1>5, <3>1, <3>2 DEF KeptInv
  <2>4. CASE StartSubmit(s) /\ ~StartFails(s)
    <3> DEFINE u == <<s, next[s]>>
    <3>1. /\ pcm[s] = "submitting" /\ pcm'[s] = "starting" /\ next'[s] = next[s] + 1
          /\ Accepts(u) /\ held' = held \cup {u} /\ UNCHANGED <<running, flushed>>
      BY <2>4 DEF StartSubmit, Types, TypeOK
    <3>2. next[s] \in Nat
      BY DEF Types, TypeOK
    <3>3. \A i \in 0..(next'[s] - 1) : i \in 0..(next[s] - 1) \/ i = next[s]
      BY <3>1, <3>2
    <3>4. Submitted(s)' \subseteq Submitted(s) \cup {u}
      BY <3>1, <3>3 DEF Submitted
    <3>5. s \in enabled /\ u \in Busy'
      BY <3>1 DEF Accepts, Busy
    <3> QED
      BY <1>3, <1>5, <3>1, <3>4, <3>5 DEF KeptInv
  <2>5. CASE StartReturn(s)
    <3>1. /\ pcm[s] = "starting" /\ next[s] = NURB(s) /\ pcm'[s] = "running"
          /\ UNCHANGED <<running, flushed>>
      BY <2>5 DEF StartReturn, Types, TypeOK, urbVars
    <3>2. UrbsOf(s) \subseteq {<<s, i>> : i \in 0..(NURB(s) - 1)}
      BY DEF UrbsOf, Urbs
    <3>3. Submitted(s)' \subseteq Submitted(s)
      BY <3>1, <3>2 DEF Submitted, UrbsOf
    <3> QED
      BY <1>3, <1>5, <3>1, <3>3 DEF KeptInv
  <2> QED
    BY <1>1, <2>1, <2>2, <2>3, <2>4, <2>5
<1> QED
  BY <1>2, <1>3, <1>4, <1>5, KeptByOthers

(* usb_set_interface takes URBs away from streams it has flushed only. *)
LEMMA SetInterfaceKeepsKept ==
  ASSUME KeptInv, SetInterface
  PROVE  KeptInv'
<1>1. CASE SetInterfaceDisable
  <2>1. PICK t \in Streams : Flush(t)
    BY <1>1 DEF SetInterfaceDisable, Streams
  <2>2. Busy' = Busy
    <3>1. Pending' = Pending \cup (held \cap UrbsOf(t))
      BY <2>1, PendingAfterReturn DEF Flush
    <3> QED
      BY <1>1, <2>1, <3>1 DEF Flush, Busy, SetInterfaceDisable, irqVars
  <2>3. UNCHANGED <<pcm, running, next, present, bound, freeVars>>
    BY <1>1 DEF SetInterfaceDisable, pcmVars
  <2>4. \A s \in Streams : Submitted(s)' = Submitted(s)
    BY <2>3 DEF Submitted, UrbsOf
  <2> QED
    BY <2>1, <2>2, <2>3, <2>4 DEF KeptInv, Flush, freeVars
<1>2. CASE SetInterfaceEnable
  <2>1. UNCHANGED <<running, next, present, bound, freeVars, flushed>> /\ Busy' = Busy
    BY <1>2 DEF SetInterfaceEnable, urbVars, irqVars, Busy, Pending
  <2>2. \A s \in Streams : pcm'[s] = pcm[s] \/ pcm'[s] = "prepared"
    BY <1>2 DEF SetInterfaceEnable
  <2>3. \A s \in Streams : Submitted(s)' \subseteq Submitted(s)
    BY <2>1, <2>2 DEF Submitted, UrbsOf
  <2>4. enabled' = IF present THEN Streams ELSE {}
    BY <1>2 DEF SetInterfaceEnable
  <2> QED
    BY <2>1, <2>3, <2>4 DEF KeptInv, freeVars
<1> QED
  BY <1>1, <1>2 DEF SetInterface

(* A completion drops an URB only of a stream that does not run, or that      *)
(* usb_submit_urb refuses; it refuses none of a stream nobody flushed.        *)
LEMMA CompletionKeepsKept ==
  ASSUME Types, KeptInv, Completion
  PROVE  KeptInv'
<1> USE DEF pcmVars, coreVars, urbVars
<1>1. ASSUME NEW c \in completed, CompletionEnter(c), urb' = c[1] PROVE KeptInv'
  <2>1. Busy \subseteq Busy' \cup {NoUrb}
    BY <1>1 DEF CompletionEnter, Busy, Pending, Types
  <2> QED
    BY <1>1, <2>1, KeptFrame DEF CompletionEnter
<1>2. ASSUME NEW c \in completed, CompletionEnter(c), urb' # c[1] PROVE KeptInv'
  <2>1. /\ c[1][1] = "playback" /\ ~running["playback"] /\ completed' = completed \ {c}
        /\ UNCHANGED <<pcmVars, coreVars, held, freeVars, flushed, urb>>
    BY <1>2 DEF CompletionEnter, Copies, irqVars
  <2>2. Busy \subseteq Busy' \cup {c[1]}
    BY <2>1 DEF Busy, Pending
  <2>3. \A s \in Streams : running[s] => c[1] \notin Submitted(s)
    BY <2>1, SubmittedAreUrbs DEF UrbsOf
  <2>4. \A s \in Streams : Submitted(s)' = Submitted(s)
    BY <2>1 DEF Submitted, UrbsOf
  <2> QED
    BY <2>1, <2>2, <2>3, <2>4 DEF KeptInv, freeVars
<1>3. CASE (Recheck /\ urb' = urb) \/ (Transfer /\ UNCHANGED pcmVars)
  <2>1. Busy' = Busy
    BY <1>3 DEF Recheck, Transfer, Busy, Pending
  <2> QED
    BY <1>3, <2>1, KeptFrame DEF Recheck, Transfer
<1>4. CASE Recheck /\ urb' # urb
  <2>1. ~running[urb[1]] /\ UNCHANGED <<pcmVars, coreVars, urbVars>>
    BY <1>4 DEF Recheck, Types, CaptureIsRechecked
  <2>2. Busy \subseteq Busy' \cup {urb}
    BY <2>1 DEF Busy, Pending
  <2>3. \A s \in Streams : running[s] => urb \notin Submitted(s)
    BY <2>1, SubmittedAreUrbs DEF UrbsOf
  <2>4. \A s \in Streams : Submitted(s)' = Submitted(s)
    BY <2>1 DEF Submitted, UrbsOf
  <2> QED
    BY <2>1, <2>2, <2>3, <2>4 DEF KeptInv, freeVars
<1>5. CASE Transfer /\ ~UNCHANGED pcmVars
  <2>1. /\ pcm' = [pcm EXCEPT ![urb[1]] = "open"] /\ running' = [running EXCEPT ![urb[1]] = FALSE]
        /\ UNCHANGED <<next, coreVars, urbVars, urb>>
    BY <1>5 DEF Transfer
  <2>2. Busy' = Busy
    BY <2>1 DEF Busy, Pending
  <2>3. \A s \in Streams : running'[s] => running[s] /\ pcm'[s] = pcm[s]
    BY <2>1 DEF Types, TypeOK
  <2>4. \A s \in Streams : running'[s] => Submitted(s)' = Submitted(s)
    BY <2>1, <2>3 DEF Submitted, UrbsOf
  <2> QED
    BY <2>1, <2>2, <2>3, <2>4 DEF KeptInv, freeVars
<1>6. CASE Resubmit
  <2>1. /\ urb' = NoUrb /\ UNCHANGED <<pcmVars, coreVars, completed, freeVars, flushed>>
        /\ held \subseteq held'
    BY <1>6 DEF Resubmit, Leave
  <2>2. Busy \subseteq Busy' \cup {urb}
    BY <2>1 DEF Busy, Pending
  <2>3. \A s \in Streams : Submitted(s)' = Submitted(s)
    BY <2>1 DEF Submitted, UrbsOf
  <2>4. ASSUME NEW s \in Streams, running[s], s \notin flushed, urb \in Submitted(s)
        PROVE  urb \in Busy'
    <3>1. urb[1] = s /\ s \in enabled
      BY <2>4, SubmittedAreUrbs DEF UrbsOf, KeptInv
    <3>2. freeing # <<"kill", urb>>
      BY <2>4 DEF KeptInv
    <3>3. CASE urb \in held \cup Pending
      BY <2>1, <3>3 DEF Busy, Pending
    <3>4. CASE urb \notin held \cup Pending
      BY <1>6, <3>1, <3>2, <3>4 DEF Resubmit, Accepts, Busy
    <3> QED
      BY <3>3, <3>4
  <2> QED
    BY <2>1, <2>2, <2>3, <2>4 DEF KeptInv, freeVars
<1> QED
  BY <1>1, <1>2, <1>3, <1>4, <1>5, <1>6 DEF Completion

(* An URB given back is still in circulation. *)
LEMMA ControllerKeepsKept ==
  ASSUME Types, KeptInv, Controller
  PROVE  KeptInv'
<1>1. PICK u \in held, status \in BOOLEAN : GiveBack(u, status)
  BY DEF Controller, GiveBack
<1>2. u \in Pending' /\ Pending \subseteq Pending'
  BY <1>1, ResultUrb DEF GiveBack, Pending
<1> QED
  BY <1>1, <1>2, KeptFrame DEF GiveBack, Busy, pcmVars, coreVars, irqVars

(* An unplug flushes both streams, and so does djmt1_disconnect. *)
LEMMA UnpluggingKeepsKept ==
  ASSUME Types, KeptInv, Unplugging
  PROVE  KeptInv'
<1> USE DEF KeptInv
<1>1. CASE Unplug
  BY <1>1 DEF Unplug, Streams, freeVars
<1>2. CASE Disconnect
  BY <1>2 DEF Disconnect
<1>3. CASE FreeUrbs
  <2>1. UNCHANGED <<flushed, bound, enabled, present>> /\ ~bound
    BY <1>3 DEF FreeUrbs, KillUrb, KillReturns, FreeUrb, FreeStep, ClearUrb, coreVars
  <2> QED
    BY <2>1
<1>4. CASE Probe
  <2>1. \A s \in Streams : Submitted(s)' = {}
    BY <1>4 DEF Probe, pcmVars, Submitted
  <2>2. freeing[1] = "idle"
    BY <1>4 DEF Probe, CardIsThere, Types, FreesAnUrb
  <2> QED
    BY <1>4, <2>1, <2>2 DEF Probe
<1> QED
  BY <1>1, <1>2, <1>3, <1>4 DEF Unplugging

(* KeptInv is inductive with the types. *)
LEMMA KeptInvariant == Spec => []KeptInv
<1>1. Types /\ KeptInv /\ [Next]_vars => KeptInv'
  <2> SUFFICES ASSUME Types, KeptInv, [Next]_vars PROVE KeptInv'
    OBVIOUS
  <2>1. CASE UNCHANGED vars
    BY <2>1, KeptFrame DEF vars, pcmVars, coreVars, urbVars, irqVars, Busy, Pending
  <2> QED
    BY <2>1, OperationKeepsKept, SetInterfaceKeepsKept, CompletionKeepsKept,
       ControllerKeepsKept, UnpluggingKeepsKept DEF Next
<1> QED
  BY KernelTypes, KeptInit, <1>1, PTL DEF Spec

(* A running stream keeps all its URBs until somebody flushes its endpoint    *)
(* (djmt1_audio.c:107-147, 227-236), for any number of URBs and packets.      *)
THEOREM RunningStreamIsKept == Spec => []RunningStreamKeepsItsUrbs
<1>1. KeptInv => RunningStreamKeepsItsUrbs
  BY DEF KeptInv, RunningStreamKeepsItsUrbs, Submitted
<1> QED
  BY KeptInvariant, <1>1, PTL

-----------------------------------------------------------------------------
(* What a stopped stream may still submit *)

(* What a step may do to the URBs of a stream that is stopped before and after. *)
Drains(s) ==
  /\ UrbsOf(s) \cap Busy' \subseteq Busy
  /\ UrbsOf(s) \cap held' \subseteq held \cup Late(s)
  /\ Late(s)' \subseteq Late(s)

(* NoUrb is no stream's. *)
LEMMA NoUrbOfNone == \A s : NoUrb \notin UrbsOf(s)
BY NoUrbIsNone DEF UrbsOf

(* A step that leaves the completion alone, and moves nothing into            *)
(* circulation or to the controller, is no concern of a stopped stream.       *)
LEMMA DrainsFrame ==
  ASSUME NEW s \in Streams, UNCHANGED <<urb, at>>,
         UrbsOf(s) \cap held' \subseteq held, UrbsOf(s) \cap Pending' \subseteq Busy
  PROVE  Drains(s)
BY DEF Drains, Busy, Late, UrbsOf

(* START submits URBs of its own stream only. *)
LEMMA OperationDrains ==
  ASSUME PcmOperation, NEW s \in Streams, pcm[s] \notin {"starting", "submitting"}
  PROVE  Drains(s)
<1>1. PICK t \in Streams :
        \/ Open(t) \/ Close(t) \/ Prepare(t) \/ Start(t)
        \/ StartLoad(t) \/ StartSubmit(t) \/ StartReturn(t) \/ Stop(t)
  BY DEF PcmOperation
<1>2. UNCHANGED <<completed, urb, at>>
  BY <1>1 DEF Open, Close, Prepare, Start, StartLoad, StartSubmit, StartReturn, Stop,
      urbVars, irqVars
<1>3. CASE UNCHANGED held
  BY <1>2, <1>3, DrainsFrame DEF Busy, Pending
<1>4. CASE held' # held
  <2>1. pcm[t] = "submitting" /\ held' = held \cup {<<t, next[t]>>}
    BY <1>1, <1>4 DEF Open, Close, Prepare, Start, StartLoad, StartSubmit, StartReturn, Stop,
        urbVars
  <2>2. <<t, next[t]>> \notin UrbsOf(s)
    BY <2>1 DEF UrbsOf
  <2> QED
    BY <1>2, <2>1, <2>2, DrainsFrame DEF Busy, Pending
<1> QED
  BY <1>3, <1>4

(* A completion submits an URB only past its last look at running. *)
LEMMA CompletionDrains ==
  ASSUME Types, Completion, NEW s \in Streams, ~running[s], ~running'[s]
  PROVE  Drains(s)
<1> USE NoUrbOfNone DEF Drains, urbVars
<1>1. ASSUME NEW c \in completed, CompletionEnter(c) PROVE Drains(s)
  <2>1. urb' \in Pending \cup {urb} /\ Pending' \subseteq Pending /\ UNCHANGED held /\ at = "idle"
    BY <1>1 DEF CompletionEnter, Copies, Pending, irqVars
  <2>2. Late(s)' = {}
    <3>1. CASE running[c[1][1]] /\ Copies(c[1])
      BY <3>1 DEF Copies, Late, UrbsOf
    <3>2. CASE at' = "recheck" \/ UNCHANGED irqVars
      BY <2>1, <3>2 DEF Late, irqVars
    <3> QED
      BY <1>1, <3>1, <3>2 DEF CompletionEnter
  <2> QED
    BY <2>1, <2>2 DEF Busy
<1>2. CASE Recheck \/ Transfer
  <2>1. UNCHANGED <<held, completed>> /\ urb' \in {urb, NoUrb}
    BY <1>2 DEF Recheck, Transfer, Leave
  <2>2. ASSUME urb' = urb, urb \in UrbsOf(s),
               at' = "resubmit" \/ (at' = "transfer" /\ s = "playback")
        PROVE  at = "resubmit" \/ (at = "transfer" /\ s = "playback")
    <3>1. urb[1] = s /\ urb # NoUrb
      BY <2>2 DEF UrbsOf
    <3>3. CASE Recheck
      BY <2>2, <3>1, <3>3 DEF Recheck, Leave, Types, CaptureIsRechecked
    <3>4. CASE Transfer
      BY <2>2, <3>1, <3>4 DEF Transfer, Streams, Types, TypeOK
    <3> QED
      BY <1>2, <3>3, <3>4
  <2>3. Late(s)' \subseteq Late(s)
    BY <2>1, <2>2 DEF Late, UrbsOf
  <2> QED
    BY <2>1, <2>3 DEF Busy, Pending
<1>3. CASE Resubmit
  <2>1. /\ at = "resubmit" /\ at' = "idle" /\ urb' = NoUrb /\ UNCHANGED completed
        /\ held' \subseteq held \cup {urb}
    BY <1>3 DEF Resubmit, Leave
  <2> QED
    BY <2>1 DEF Busy, Pending, Late
<1> QED
  BY <1>1, <1>2, <1>3 DEF Completion

(* What the controller has goes back, on its own account, by a flush, or      *)
(* because the device is gone.                                                *)
LEMMA ReturnsDrain ==
  ASSUME SetInterface \/ Controller \/ Unplugging, NEW s \in Streams
  PROVE  Drains(s)
<1>1. UNCHANGED <<urb, at>> /\ held' \subseteq held
  BY DEF SetInterface, SetInterfaceDisable, SetInterfaceEnable, Flush, Controller, GiveBack,
         Unplugging, Unplug, Disconnect, FreeUrbs, KillUrb, KillReturns, FreeUrb, FreeStep,
         ClearUrb, Probe, urbVars, irqVars
<1>2. Pending' \subseteq Pending \cup held
  <2>1. CASE SetInterfaceDisable
    <3>1. PICK t : Flush(t)
      BY <2>1 DEF SetInterfaceDisable
    <3> QED
      BY <3>1, PendingAfterReturn DEF Flush
  <2>2. CASE Unplug
    BY <2>2, PendingAfterReturn DEF Unplug
  <2>3. CASE Controller
    <3>1. \A c \in completed' : c \in completed \/ c[1] \in held
      BY <2>3, ResultUrb DEF Controller, GiveBack
    <3> QED
      BY <3>1 DEF Pending
  <2>4. CASE SetInterfaceEnable \/ Disconnect \/ KillReturns \/ FreeUrb \/ ClearUrb \/ Probe
    BY <2>4 DEF SetInterfaceEnable, Disconnect, KillReturns, FreeUrb, FreeStep, ClearUrb, Probe,
                urbVars, Pending
  <2>5. ASSUME NEW u \in Urbs, KillUrb(u) PROVE Pending' \subseteq Pending \cup held
    <3>1. Pending' = Pending \cup (held \cap {u})
      BY <2>5, PendingAfterReturn DEF KillUrb
    <3> QED
      BY <3>1
  <2> QED
    BY <2>1, <2>2, <2>3, <2>4, <2>5 DEF SetInterface, Unplugging, FreeUrbs
<1> QED
  BY <1>1, <1>2, DrainsFrame DEF Busy

(* A stopped stream gets no URB into circulation and submits at most the one  *)
(* that was past its last look at running (djmt1_audio.c:107-147, 237-239),   *)
(* for any number of URBs and packets.                                        *)
THEOREM StoppedStreamGainsNothing == Spec => StoppedStreamOnlyDrains
<1>1. ASSUME Types, [Next]_vars, NEW s \in Streams, ~running[s], ~running'[s],
             pcm[s] \notin {"starting", "submitting"}
      PROVE  Drains(s)
  <2>1. CASE UNCHANGED vars
    BY <2>1, DrainsFrame DEF vars, urbVars, irqVars, Busy, Pending
  <2> QED
    BY <1>1, <2>1, OperationDrains, CompletionDrains, ReturnsDrain DEF Next
<1>2. Types /\ [Next]_vars =>
        [\A s \in Streams :
           ~running[s] /\ ~running'[s] /\ pcm[s] \notin {"starting", "submitting"} =>
             /\ UrbsOf(s) \cap Busy' \subseteq Busy
             /\ UrbsOf(s) \cap held' \subseteq held \cup Late(s)
             /\ Late(s)' \subseteq Late(s)]_vars
  BY <1>1 DEF Drains
<1> QED
  BY KernelTypes, <1>2, PTL DEF Spec, StoppedStreamOnlyDrains
=============================================================================
