---------------------------- MODULE StreamTools -----------------------------
(***************************************************************************)
(* audio/djmt1-capture.c and audio/djmt1-playback.c, which differ in what  *)
(* they do with the bytes and in nothing else: one thread opens the mixer, *)
(* keeps NXFR transfers going for some seconds or until SIGINT, cancels    *)
(* them, waits until none is in flight, and reports.  Callbacks run inside *)
(* its calls of libusb_handle_events_timeout; the signal handler runs      *)
(* anywhere, between a look at running and the submission as well.         *)
(* libusb is as in IsoEngine.                                              *)
(***************************************************************************)
EXTENDS Integers, FiniteSets

CONSTANTS
  NXFR,    \* transfers
  MaxData  \* bound on the transfers that move data

ASSUME ToolAssumption == NXFR \in Nat \ {0} /\ MaxData \in Nat

Transfers == 1..NXFR

VARIABLES
  pc, i,       \* main: where it is, and the index of its loops
  running,
  late,        \* the seconds asked for have passed
  conn,        \* the open handle reaches the mixer
  xfer,        \* each transfer: none, flight, full or empty (to be reaped), cb, dead
  inflight,
  cb, at,      \* the transfer in its callback (0: none), and where the callback is
  total_pkts,  \* transfers counted by the callback
  delivered    \* history: transfers that moved data

mainVars == <<pc, i>>
cbVars == <<cb, at>>
counters == <<total_pkts, delivered>>
vars == <<mainVars, running, late, conn, xfer, inflight, cbVars, counters>>

Ready(x) == xfer[x] \in {"full", "empty"}

Init ==
  /\ pc = "open" /\ i = 0 /\ running = TRUE /\ late = FALSE /\ conn = FALSE
  /\ xfer = [x \in Transfers |-> "none"] /\ inflight = 0
  /\ cb = 0 /\ at = "idle" /\ total_pkts = 0 /\ delivered = 0

-----------------------------------------------------------------------------
(* main *)

(* Open, claim and alternate setting, each of which may end the program. *)
Open ==
  /\ pc = "open"
  /\ \/ pc' = "submit" /\ i' = 1 /\ conn' = TRUE
     \/ pc' = "exit" /\ UNCHANGED <<i, conn>>
  /\ UNCHANGED <<running, late, xfer, inflight, cbVars, counters>>

(* fault: a refused transfer is counted as in flight *)
SubmitUnchecked ==
  /\ pc = "submit" /\ i <= NXFR
  /\ i' = i + 1 /\ inflight' = inflight + 1
  /\ \/ conn /\ xfer' = [xfer EXCEPT ![i] = "flight"]
     \/ xfer' = [xfer EXCEPT ![i] = "dead"]
  /\ UNCHANGED <<pc, running, late, conn, cbVars, counters>>

(* One submission; a refused one is skipped without an error. *)
Submit ==
  /\ pc = "submit" /\ i <= NXFR
  /\ i' = i + 1
  /\ \/ conn /\ xfer' = [xfer EXCEPT ![i] = "flight"] /\ inflight' = inflight + 1
     \/ xfer' = [xfer EXCEPT ![i] = "dead"] /\ UNCHANGED inflight
  /\ UNCHANGED <<pc, running, late, conn, cbVars, counters>>

StartLoop ==
  /\ pc = "submit" /\ i > NXFR
  /\ pc' = "loop"
  /\ UNCHANGED <<i, running, late, conn, xfer, inflight, cbVars, counters>>

LoopTest ==
  /\ pc = "loop"
  /\ IF running THEN pc' = "events" /\ UNCHANGED i ELSE pc' = "cancel" /\ i' = 1
  /\ UNCHANGED <<running, late, conn, xfer, inflight, cbVars, counters>>

(* libusb_handle_events_timeout returns, after events or without, and the    *)
(* clock is read.                                                            *)
EventsReturn ==
  /\ pc = "events" /\ cb = 0
  /\ pc' = "loop" /\ running' = (running /\ ~late)
  /\ UNCHANGED <<i, late, conn, xfer, inflight, cbVars, counters>>

(* fault: one transfer too many *)
CancelOneMore ==
  /\ pc = "cancel"
  /\ IF i <= NXFR + 1
       THEN /\ i' = i + 1 /\ UNCHANGED pc
            /\ xfer' = [x \in Transfers |->
                           IF x = i /\ xfer[x] = "flight" THEN "empty" ELSE xfer[x]]
       ELSE pc' = "drain" /\ UNCHANGED <<i, xfer>>
  /\ UNCHANGED <<running, late, conn, inflight, cbVars, counters>>

(* Every transfer is cancelled: one in flight is to be reaped. *)
Cancel ==
  /\ pc = "cancel"
  /\ IF i <= NXFR
       THEN /\ i' = i + 1 /\ UNCHANGED pc
            /\ xfer' = [xfer EXCEPT ![i] = IF @ = "flight" THEN "empty" ELSE @]
       ELSE pc' = "drain" /\ UNCHANGED <<i, xfer>>
  /\ UNCHANGED <<running, late, conn, inflight, cbVars, counters>>

(* Events are handled until no transfer is in flight. *)
Drain ==
  /\ pc = "drain" /\ cb = 0 /\ inflight = 0
  /\ pc' = "report"
  /\ UNCHANGED <<i, running, late, conn, xfer, inflight, cbVars, counters>>

(* The counters are printed, the handle is closed. *)
Report ==
  /\ pc = "report"
  /\ pc' = "exit" /\ conn' = FALSE
  /\ UNCHANGED <<i, running, late, xfer, inflight, cbVars, counters>>

-----------------------------------------------------------------------------
(* cb *)

(* fault: nothing is counted once running is cleared *)
CbCountWhileRunning(x) ==
  /\ pc \in {"events", "drain"} /\ cb = 0 /\ Ready(x)
  /\ cb' = x /\ at' = "test"
  /\ xfer' = [xfer EXCEPT ![x] = "cb"]
  /\ total_pkts' = total_pkts + (IF xfer[x] = "full" /\ running THEN 1 ELSE 0)
  /\ UNCHANGED <<mainVars, running, late, conn, inflight, delivered>>

(* A transfer is reaped and its packets are counted (and written, and        *)
(* measured), whether or not the program still runs.                         *)
CbCount(x) ==
  /\ pc \in {"events", "drain"} /\ cb = 0 /\ Ready(x)
  /\ cb' = x /\ at' = "test"
  /\ xfer' = [xfer EXCEPT ![x] = "cb"]
  /\ total_pkts' = total_pkts + (IF xfer[x] = "full" THEN 1 ELSE 0)
  /\ UNCHANGED <<mainVars, running, late, conn, inflight, delivered>>

GiveUp ==
  /\ xfer' = [xfer EXCEPT ![cb] = "dead"] /\ inflight' = inflight - 1
  /\ cb' = 0 /\ at' = "idle"

(* While the program runs the transfer is refilled (playback), ... *)
CbTest ==
  /\ at = "test"
  /\ IF running THEN at' = "submit" /\ UNCHANGED <<cb, xfer, inflight>> ELSE GiveUp
  /\ UNCHANGED <<mainVars, running, late, conn, counters>>

(* fault: a refused transfer stays counted as in flight *)
CbSubmitUncounted ==
  /\ at = "submit"
  /\ cb' = 0 /\ at' = "idle" /\ UNCHANGED inflight
  /\ \/ conn /\ xfer' = [xfer EXCEPT ![cb] = "flight"]
     \/ xfer' = [xfer EXCEPT ![cb] = "dead"]
  /\ UNCHANGED <<mainVars, running, late, conn, counters>>

(* ... and submitted again; a refused one is given up. *)
CbSubmit ==
  /\ at = "submit"
  /\ \/ /\ conn /\ xfer' = [xfer EXCEPT ![cb] = "flight"]
        /\ cb' = 0 /\ at' = "idle" /\ UNCHANGED inflight
     \/ GiveUp
  /\ UNCHANGED <<mainVars, running, late, conn, counters>>

-----------------------------------------------------------------------------
(* The mixer, the user and the clock *)

(* A transfer ends with data, or without: an error, or its timeout. *)
Complete(x, how) ==
  /\ xfer[x] = "flight" /\ conn
  /\ how = "full" => delivered < MaxData
  /\ xfer' = [xfer EXCEPT ![x] = how]
  /\ delivered' = delivered + (IF how = "full" THEN 1 ELSE 0)
  /\ UNCHANGED <<mainVars, running, late, conn, inflight, cbVars, total_pkts>>

Unplug ==
  /\ conn
  /\ conn' = FALSE
  /\ xfer' = [x \in Transfers |-> IF xfer[x] = "flight" THEN "empty" ELSE xfer[x]]
  /\ UNCHANGED <<mainVars, running, late, inflight, cbVars, counters>>

(* on_sigint *)
Signal ==
  /\ pc # "exit" /\ running
  /\ running' = FALSE
  /\ UNCHANGED <<mainVars, late, conn, xfer, inflight, cbVars, counters>>

Clock ==
  /\ pc \in {"loop", "events"} /\ ~late
  /\ late' = TRUE
  /\ UNCHANGED <<mainVars, running, conn, xfer, inflight, cbVars, counters>>

-----------------------------------------------------------------------------
Main == Open \/ Submit \/ StartLoop \/ LoopTest \/ EventsReturn \/ Cancel \/ Drain \/ Report
Callback == (\E x \in Transfers : CbCount(x)) \/ CbTest \/ CbSubmit
Environment ==
  \/ \E x \in Transfers, how \in {"full", "empty"} : Complete(x, how)
  \/ Unplug \/ Signal \/ Clock
(* The drain loop's calls come back without events; after the end, nothing. *)
Idle == (pc = "exit" \/ (pc = "drain" /\ inflight > 0)) /\ UNCHANGED vars

Next == Main \/ Callback \/ Environment \/ Idle

(* The program runs, a call that handles events returns although more events *)
(* keep coming, and time passes.  The mixer and the user promise nothing.    *)
Fairness ==
  WF_vars(Main) /\ SF_vars(EventsReturn) /\ WF_vars(Callback) /\ WF_vars(Clock)

Spec == Init /\ [][Next]_vars /\ Fairness

-----------------------------------------------------------------------------
(* Properties *)

(* The types of the state; a transfer is in its callback where cb says. *)
TypeOK ==
  /\ pc \in {"open", "submit", "loop", "events", "cancel", "drain", "report", "exit"}
  /\ i \in 0..(NXFR + 1) /\ running \in BOOLEAN /\ late \in BOOLEAN /\ conn \in BOOLEAN
  /\ xfer \in [Transfers -> {"none", "flight", "full", "empty", "cb", "dead"}]
  /\ inflight \in 0..NXFR
  /\ cb \in 0..NXFR /\ at \in {"idle", "test", "submit"}
  /\ \A x \in Transfers : xfer[x] = "cb" <=> x = cb
  /\ (cb = 0) <=> (at = "idle")
  /\ total_pkts \in 0..MaxData /\ delivered \in 0..MaxData

(* inflight, on which the drain waits (djmt1-capture.c:120), counts exactly  *)
(* the transfers with the kernel, waiting to be reaped or in their callback, *)
(* through refused first submissions, refused resubmissions, errors, an      *)
(* unplug and a signal in the middle of a callback.                          *)
InflightIsExact ==
  inflight = Cardinality({x \in Transfers : xfer[x] \notin {"none", "dead"}})

(* The report (djmt1-capture.c:122-139, djmt1-playback.c:108-111) counts     *)
(* every transfer that moved data, those that ended after the last second or *)
(* the signal included, and the handle is closed with none in flight.        *)
ReportIsComplete ==
  pc \in {"report", "exit"} =>
    total_pkts = delivered /\ \A x \in Transfers : xfer[x] \in {"none", "dead"}

(* The program ends: by the clock, earlier by SIGINT, and also when the      *)
(* mixer is gone or took none of the transfers.                              *)
ToolEnds == <>(pc = "exit")
=============================================================================
