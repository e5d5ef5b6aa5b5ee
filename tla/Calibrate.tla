----------------------------- MODULE Calibrate ------------------------------
(***************************************************************************)
(* tools/calibrate.py: a session of the calibration assistant, from the    *)
(* load of the results file to the save at the end, and sessions after a   *)
(* crash.  Two threads:                                                    *)
(*                                                                         *)
(*   reader   finds the bridge's port, runs aseqdump on it and appends its *)
(*            events to a list under a lock;                               *)
(*   main     the list of controls, do_capture, and save_results, which    *)
(*            writes a temporary file and renames it.                      *)
(*                                                                         *)
(* A record is reduced to its resting value (the last of its events), or   *)
(* silent.                                                                 *)
(*                                                                         *)
(* External, modelled from its use here: aseqdump prints the events of the *)
(* port it is subscribed to.  When that port goes it waits on: its output  *)
(* ends when the subscription is refused at its start or when it is killed. *)
(***************************************************************************)
EXTENDS Integers, Sequences, SequencesExt

CONSTANTS
  Control,   \* the controls of the mixer
  Value,     \* what an event carries
  MaxEvents, \* bound on the events of the list
  Client,    \* the ALSA client numbers the bridge may be given
  Asked,     \* what --port may ask for: one of them, or "auto" without the option
  KernelPort \* the (silent) kernel port of the mixer is listed as well

ASSUME CalibrateAssumption ==
  /\ MaxEvents \in Nat /\ {"none", "silent"} \cap Value = {}
  /\ "none" \notin Client /\ "auto" \notin Client /\ Asked \subseteq Client \cup {"auto"}
  /\ KernelPort \in BOOLEAN

Record == {"none", "silent"} \cup Value
NoRecords == [c \in Control |-> "none"]
NoControl == "nothing selected"

VARIABLES
  bridge,      \* the bridge's client number, or none
  forced,      \* reader.forced, or auto
  rpc,         \* the reader: find or read
  sub,         \* aseqdump: none (its output ended), live on the bridge's port, or idle
  events,      \* reader.events
  ui, sel,     \* main: where it is, and the control it captures
  agg,         \* what the screen shows of the events
  results,     \* results, in memory
  sv, final,   \* save_results: idle, open, dump or replace; it is the last one
  disk, file,  \* calibration.json: its records; whole, half (written) or spoiled
  tmp,         \* calibration.json.tmp: whole, or half
  seen,        \* history: the events since the capture (or its redo) began
  touched,     \* history of this session: controls captured or cleared
  told,        \* history: controls last flashed as saved
  unread       \* history of this session: the file could not be read

portVars == <<bridge, forced, rpc, sub>>
readerVars == <<portVars, events, seen>>
uiVars == <<ui, sel, agg>>
fileVars == <<disk, file, tmp>>
saveVars == <<sv, final>>
history == <<touched, told, unread>>
vars == <<readerVars, uiVars, results, saveVars, fileVars, history>>

(* reader.alive *)
alive == ui # "down" /\ ~final

Init ==
  /\ bridge \in Client \cup {"none"} /\ forced = "auto" /\ rpc = "find" /\ sub = "none"
  /\ events = <<>> /\ seen = <<>>
  /\ ui = "down" /\ sel = NoControl /\ agg = <<>> /\ results = NoRecords
  /\ sv = "idle" /\ final = FALSE
  /\ disk = NoRecords /\ file = "whole" /\ tmp = "half"
  /\ touched = {} /\ told = {} /\ unread = FALSE

-----------------------------------------------------------------------------
(* Reader *)

(* The port is resolved, unless it is forced, and aseqdump started on it.    *)
(* Without the bridge, find_bridge_port falls back on the kernel port; a     *)
(* forced number may be nobody's, or another client's.  Where there is no    *)
(* port the reader sleeps and looks again.  (A port that goes between the    *)
(* two is one that goes just after them.)                                    *)
Connect ==
  /\ alive /\ rpc = "find"
  /\ \/ forced = "auto" /\ bridge # "none" /\ sub' = "live"
     \/ forced = "auto" /\ bridge = "none" /\ KernelPort /\ sub' = "idle"
     \/ forced # "auto" /\ bridge = forced /\ sub' = "live"
     \/ forced # "auto" /\ bridge # forced /\ sub' \in {"none", "idle"}
  /\ rpc' = "read"
  /\ UNCHANGED <<bridge, forced, events, seen, uiVars, results, saveVars, fileVars, history>>

(* fault: the reader ends with its first aseqdump *)
LostForGood ==
  /\ alive /\ rpc = "read" /\ sub = "none"
  /\ rpc' = "ended"
  /\ UNCHANGED <<bridge, forced, sub, events, seen, uiVars, results, saveVars, fileVars>>
  /\ UNCHANGED history

(* aseqdump's output ended: look for the port again. *)
Lost ==
  /\ alive /\ rpc = "read" /\ sub = "none"
  /\ rpc' = "find"
  /\ UNCHANGED <<bridge, forced, sub, events, seen, uiVars, results, saveVars, fileVars>>
  /\ UNCHANGED history

Receive(v) ==
  /\ alive /\ rpc = "read" /\ sub = "live" /\ Len(events) < MaxEvents
  /\ events' = Append(events, v)
  /\ seen' = IF ui \in {"look", "key"} THEN Append(seen, v) ELSE seen
  /\ UNCHANGED <<portVars, uiVars, results, saveVars, fileVars, history>>

(* The bridge is restarted by its service, or the mixer comes and goes; an   *)
(* aseqdump that was on its port waits for a port that is gone.  (Without a  *)
(* reader the bridge is of no account: Load finds it anywhere.)              *)
BridgeChanges(b) ==
  /\ alive /\ b # bridge
  /\ bridge' = b /\ sub' = IF sub = "live" THEN "idle" ELSE sub
  /\ UNCHANGED <<forced, rpc, events, seen, uiVars, results, saveVars, fileVars, history>>

(* aseqdump is killed. *)
AseqdumpEnds ==
  /\ sub # "none"
  /\ sub' = "none"
  /\ UNCHANGED <<bridge, forced, rpc, events, seen, uiVars, results, saveVars, fileVars, history>>

-----------------------------------------------------------------------------
(* main and run_tui *)

(* The reader is given the port to use; load_results: a file that cannot be  *)
(* read counts as an empty one.                                              *)
Load ==
  /\ ui = "down"
  /\ ui' = "list"
  /\ results' = IF file = "whole" THEN disk ELSE NoRecords
  /\ unread' = (file # "whole")
  /\ forced' \in Asked /\ bridge' \in Client \cup {"none"}
  /\ UNCHANGED <<rpc, sub, events, seen, sel, agg, saveVars, fileVars, touched, told>>

BeginSave == sv' = "open" /\ ui' = "save"

(* 'd' on a control that has a record; whether the save works is not looked at. *)
ClearRecord(c) ==
  /\ ui = "list" /\ results[c] # "none"
  /\ results' = [results EXCEPT ![c] = "none"]
  /\ touched' = touched \cup {c} /\ told' = told \ {c}
  /\ BeginSave
  /\ UNCHANGED <<readerVars, sel, agg, final, fileVars, unread>>

(* do_capture, and its redo: the list is cleared. *)
BeginCapture == ui' = "look" /\ events' = <<>> /\ agg' = <<>> /\ seen' = <<>>
Capture(c) ==
  /\ ui = "list"
  /\ sel' = c
  /\ BeginCapture
  /\ UNCHANGED <<portVars, results, saveVars, fileVars, history>>

(* One turn of the capture loop: it takes a snapshot of the list and draws   *)
(* it, ...                                                                   *)
Look ==
  /\ ui = "look"
  /\ agg' = events /\ ui' = "key"
  /\ UNCHANGED <<readerVars, sel, results, saveVars, fileVars, history>>

(* ... and waits for a key up to 120 ms: none, or SPACE. *)
CaptureKey ==
  /\ ui = "key"
  /\ ui' \in {"look", "review"}
  /\ UNCHANGED <<readerVars, sel, agg, results, saveVars, fileVars, history>>

(* fault: a redo goes on with the list as it is *)
RedoWithoutClear ==
  /\ ui = "review"
  /\ ui' = "look" /\ agg' = <<>> /\ seen' = <<>>
  /\ UNCHANGED <<portVars, events, sel, results, saveVars, fileVars, history>>

Redo ==
  /\ ui = "review"
  /\ BeginCapture
  /\ UNCHANGED <<portVars, sel, results, saveVars, fileVars, history>>

EndCapture == agg' = <<>> /\ seen' = <<>>

(* ESC, in the capture or in the review *)
Cancel ==
  /\ ui \in {"key", "review"}
  /\ ui' = "list"
  /\ EndCapture
  /\ UNCHANGED <<portVars, events, sel, results, saveVars, fileVars, history>>

(* fault: the record goes to every control *)
KeepForAll ==
  /\ ui = "review"
  /\ results' = [c \in Control |-> IF agg = <<>> THEN "silent" ELSE Last(agg)]
  /\ touched' = touched \cup {sel} /\ told' = told \ {sel}
  /\ BeginSave /\ EndCapture
  /\ UNCHANGED <<portVars, events, sel, final, fileVars, unread>>

(* 's': the record replaces the control's entry, and everything is saved. *)
Keep ==
  /\ ui = "review"
  /\ results' = [results EXCEPT ![sel] = IF agg = <<>> THEN "silent" ELSE Last(agg)]
  /\ touched' = touched \cup {sel} /\ told' = told \ {sel}
  /\ BeginSave /\ EndCapture
  /\ UNCHANGED <<portVars, events, sel, final, fileVars, unread>>

(* 'q', or KeyboardInterrupt wherever it strikes, in a save too: the reader  *)
(* and its aseqdump are stopped and the results are saved once more.         *)
Quit ==
  /\ ui \notin {"down", "exit"} /\ ~final
  /\ BeginSave /\ final' = TRUE /\ EndCapture
  /\ rpc' = "find" /\ sub' = "none"
  /\ UNCHANGED <<bridge, forced, events, sel, results, fileVars, history>>

-----------------------------------------------------------------------------
(* save_results *)

SaveReturns == sv' = "idle" /\ ui' = IF final THEN "exit" ELSE "list"

(* fault: what was written so far is renamed into place *)
SaveFailsInPlace ==
  /\ sv # "idle"
  /\ SaveReturns
  /\ file' = IF sv = "open" THEN file ELSE tmp
  /\ UNCHANGED <<readerVars, sel, agg, results, final, disk, tmp, history>>

(* Any step may fail (a full disk, a lost directory): False is returned. *)
SaveFails ==
  /\ sv # "idle"
  /\ SaveReturns
  /\ UNCHANGED <<readerVars, sel, agg, results, final, fileVars, history>>

(* The temporary file is opened, whatever an earlier save left of it, ... *)
SaveOpen ==
  /\ sv = "open"
  /\ sv' = "dump" /\ tmp' = "half"
  /\ UNCHANGED <<readerVars, uiVars, results, final, disk, file, history>>

(* ... written and closed; ... *)
SaveDump ==
  /\ sv = "dump"
  /\ sv' = "replace" /\ tmp' = "whole"
  /\ UNCHANGED <<readerVars, uiVars, results, final, disk, file, history>>

(* ... os.replace puts it in place of the results file.  After a capture the *)
(* list flashes " saved ".                                                   *)
SaveReplace ==
  /\ sv = "replace"
  /\ SaveReturns
  /\ disk' = results /\ file' = tmp
  /\ told' = told \cup (IF ~final /\ sel \in touched /\ results[sel] # "none" THEN {sel} ELSE {})
  /\ UNCHANGED <<readerVars, sel, agg, results, final, tmp, touched, unread>>

(* Nothing of the process is left but the file. *)
End ==
  /\ ui' = "down" /\ sel' = NoControl /\ results' = NoRecords
  /\ forced' = "auto" /\ rpc' = "find" /\ sub' = "none" /\ events' = <<>> /\ EndCapture
  /\ sv' = "idle" /\ final' = FALSE
  /\ touched' = {} /\ told' = {} /\ unread' = FALSE
  /\ UNCHANGED <<bridge, fileVars>>

(* main's last print, and the end of the process. *)
Exit == ui = "exit" /\ End

(* The process is killed.  (A power failure may lose what was not synced.) *)
Crash == ui # "down" /\ End

(* Somebody edits the file, or takes away the right to read it. *)
Spoil ==
  /\ ui = "down" /\ file # "spoiled"
  /\ file' = "spoiled"
  /\ UNCHANGED <<readerVars, uiVars, results, saveVars, disk, tmp, history>>

-----------------------------------------------------------------------------
Reader == Connect \/ Lost \/ (\E v \in Value : Receive(v))
Screen == Look \/ CaptureKey \/ Redo \/ Cancel \/ Keep
List == \E c \in Control : ClearRecord(c) \/ Capture(c)
Save == SaveFails \/ SaveOpen \/ SaveDump \/ SaveReplace

Outside == (\E b \in Client \cup {"none"} : BridgeChanges(b)) \/ AseqdumpEnds

Next == Reader \/ Outside \/ Load \/ List \/ Screen \/ Quit \/ Save \/ Exit \/ Crash
        \/ Spoil

(* The reader thread runs; the user, the bridge and the disk promise nothing. *)
Fairness == WF_vars(Connect) /\ WF_vars(Lost)

Spec == Init /\ [][Next]_vars /\ Fairness

-----------------------------------------------------------------------------
(* Properties *)

(* The types of the state; a save is under way exactly where main waits for it. *)
TypeOK ==
  /\ bridge \in Client \cup {"none"} /\ forced \in Client \cup {"auto"}
  /\ rpc \in {"find", "read"} /\ sub \in {"none", "live", "idle"}
  /\ rpc = "find" => sub = "none"
  /\ ui \in {"down", "list", "look", "key", "review", "save", "exit"}
  /\ sel \in Control \cup {NoControl}
  /\ \A list \in {events, agg, seen} : list \in Seq(Value) /\ Len(list) <= MaxEvents
  /\ results \in [Control -> Record] /\ disk \in [Control -> Record]
  /\ sv \in {"idle", "open", "dump", "replace"} /\ (sv = "idle") <=> (ui # "save")
  /\ final \in BOOLEAN /\ file \in {"whole", "half", "spoiled"} /\ tmp \in {"half", "whole"}
  /\ touched \subseteq Control /\ told \subseteq Control /\ unread \in BOOLEAN

(* The results file is never half written (calibrate.py:281-292), whenever   *)
(* a save fails, is interrupted or dies with the process.  A control whose   *)
(* capture was flashed as saved (:596) is in it with the record on the       *)
(* screen, through failing saves of others, until it is captured or cleared  *)
(* again.                                                                    *)
SavedIsKept ==
  /\ file # "half"
  /\ ui # "down" => \A c \in told : file = "whole" /\ disk[c] = results[c]

(* A record in the file changes or goes only when its control was captured   *)
(* or cleared in this session, through crashes and interrupted saves of      *)
(* earlier ones; unless the session could not read the file it replaces      *)
(* (calibrate.py:278).                                                       *)
RecordsChangeOnlyByChoice ==
  [][\A c \in Control : disk'[c] # disk[c] => c \in touched \/ unread]_vars

(* What is reviewed is a first part of the events that arrived since this    *)
(* capture, or its redo, began (calibrate.py:452-465): nothing of another    *)
(* control, of an earlier attempt or of the time spent in the list gets in.  *)
(* (Events that arrive while getch waits for the key are missing, and an     *)
(* event arrives when the reader appends it, however long aseqdump held it.) *)
ReviewShowsThisCapture == ui = "review" => IsPrefix(agg, seen)

(* A reader whose aseqdump ended is on the bridge's port again, whatever its  *)
(* client number is now (calibrate.py:242-255, 224), unless the session ends, *)
(* the bridge is gone or the port is forced.                                  *)
ReaderComesBack ==
  (rpc = "read" /\ sub = "none") ~>
    (sub = "live" \/ ~alive \/ bridge = "none" \/ forced # "auto")

(* calibrate.py:21-23: "The reader auto-reconnects. The djm-midi service can  *)
(* restart and get a new ALSA client number; the reader re-resolves the port  *)
(* and resubscribes": with a bridge that stays, it is subscribed again and    *)
(* again.                                                                     *)
ReaderReconnects ==
  <>[](bridge # "none" /\ alive /\ forced = "auto") => []<>(sub = "live")
=============================================================================
