--------------------------- MODULE CalibrateProofs ---------------------------
(***************************************************************************)
(* What Calibrate promises, for any controls, events and number of them.   *)
(*                                                                         *)
(*   Typed       types, with what the lists of events hold;                *)
(*   Saved       what the file, the temporary file and the memory of main  *)
(*               know of each other;                                       *)
(*   Captured    what the lists of a capture have in common.               *)
(***************************************************************************)
EXTENDS Calibrate, SequenceTheorems, TLAPS

PortsTyped ==
  /\ bridge \in Client \cup {"none"} /\ forced \in Client \cup {"auto"}
  /\ rpc \in {"find", "read"} /\ sub \in {"none", "live", "idle"}
  /\ rpc = "find" => sub = "none"
FlagsTyped ==
  /\ ui \in {"down", "list", "look", "key", "review", "save", "exit"}
  /\ sel \in Control \cup {NoControl}
  /\ sv \in {"idle", "open", "dump", "replace"} /\ (sv = "idle") <=> (ui # "save")
  /\ final \in BOOLEAN /\ file \in {"whole", "half", "spoiled"} /\ tmp \in {"half", "whole"}
  /\ touched \subseteq Control /\ told \subseteq Control /\ unread \in BOOLEAN
ListsTyped ==
  /\ events \in Seq(Value) /\ agg \in Seq(Value) /\ seen \in Seq(Value)
  /\ Len(events) <= MaxEvents /\ Len(agg) <= MaxEvents /\ Len(seen) <= Len(events)
RecordsTyped == results \in [Control -> Record] /\ disk \in [Control -> Record]
Selected == ui \in {"look", "key", "review"} => sel \in Control
Typed == PortsTyped /\ FlagsTyped /\ ListsTyped /\ RecordsTyped /\ Selected

Saved ==
  /\ file # "half"
  /\ sv = "replace" => tmp = "whole"
  /\ ui = "down" => told = {} /\ touched = {}
  /\ ui # "down" => \A c \in told : file = "whole" /\ disk[c] = results[c]
  /\ ui # "down" /\ ~unread => \A c \in Control : results[c] # disk[c] => c \in touched

Captured ==
  /\ ui \in {"look", "key"} => seen = events
  /\ ui \in {"key", "review"} => IsPrefix(agg, seen)

-----------------------------------------------------------------------------
(* Types *)

(* The record kept after a capture: the last of its events, or silent. *)
LEMMA KeptRecord ==
  ASSUME agg \in Seq(Value)
  PROVE  (IF agg = <<>> THEN "silent" ELSE Last(agg)) \in Record
<1>1. CASE agg = <<>>
  BY <1>1 DEF Record
<1>2. CASE agg # <<>>
  <2>1. Len(agg) \in 1..Len(agg)
    BY <1>2, EmptySeq, LenProperties
  <2>2. agg[Len(agg)] \in Value
    BY <2>1, LenProperties
  <2> QED
    BY <1>2, <2>2 DEF Record, Last
<1> QED
  BY <1>1, <1>2

(* The empty list. *)
LEMMA NoEvents == <<>> \in Seq(Value) /\ Len(<<>>) = 0
BY EmptySeq

(* A capture begins with empty lists ... *)
LEMMA Cleared == BeginCapture => ListsTyped'
<1> SUFFICES ASSUME BeginCapture PROVE ListsTyped'
  OBVIOUS
<1>1. events' = <<>> /\ agg' = <<>> /\ seen' = <<>>
  BY DEF BeginCapture
<1> QED
  BY <1>1, NoEvents, CalibrateAssumption DEF ListsTyped

(* ... and leaves nothing but the list of the reader. *)
LEMMA Ended == ListsTyped /\ EndCapture /\ UNCHANGED events => ListsTyped'
<1> SUFFICES ASSUME ListsTyped, EndCapture, UNCHANGED events PROVE ListsTyped'
  OBVIOUS
<1>1. Len(events) \in Nat
  BY LenProperties DEF ListsTyped
<1> QED
  BY <1>1, NoEvents, CalibrateAssumption DEF ListsTyped, EndCapture

(* The first session finds nothing captured. *)
LEMMA TypedInit == Init => Typed
<1> SUFFICES ASSUME Init PROVE Typed
  OBVIOUS
<1>1. ListsTyped
  BY NoEvents, CalibrateAssumption DEF Init, ListsTyped
<1>2. RecordsTyped
  BY DEF Init, RecordsTyped, NoRecords, Record
<1>3. PortsTyped /\ FlagsTyped /\ Selected
  BY DEF Init, PortsTyped, FlagsTyped, Selected
<1> QED
  BY <1>1, <1>2, <1>3 DEF Typed

(* The reader appends one event at a time. *)
LEMMA ReaderKeepsTyped ==
  ASSUME Typed, Reader \/ Outside
  PROVE  Typed'
<1> USE DEF Typed, FlagsTyped, ListsTyped, RecordsTyped, Selected,
            uiVars, saveVars, fileVars, history
<1>1. CASE Connect \/ Lost \/ Outside
  <2>1. PortsTyped'
    BY <1>1 DEF Connect, Lost, Outside, BridgeChanges, AseqdumpEnds, PortsTyped
  <2>2. UNCHANGED <<events, seen, uiVars, results, saveVars, fileVars, history>>
    BY <1>1 DEF Connect, Lost, Outside, BridgeChanges, AseqdumpEnds
  <2>3. FlagsTyped' /\ ListsTyped' /\ RecordsTyped' /\ Selected'
    BY <2>2
  <2> QED
    BY <2>1, <2>3
<1>2. CASE \E v \in Value : Receive(v)
  <2>1. PICK v \in Value : Receive(v)
    BY <1>2
  <2>2. /\ Append(events, v) \in Seq(Value) /\ Len(Append(events, v)) = Len(events) + 1
        /\ Append(seen, v) \in Seq(Value) /\ Len(Append(seen, v)) = Len(seen) + 1
        /\ Len(events) \in Nat /\ Len(seen) \in Nat
    BY AppendProperties, LenProperties
  <2>3. UNCHANGED <<portVars, uiVars, results, saveVars, fileVars, history>>
    BY <2>1 DEF Receive
  <2>4. ListsTyped' /\ PortsTyped'
    BY <2>1, <2>2, <2>3, CalibrateAssumption DEF Receive, portVars, PortsTyped
  <2> QED
    BY <2>3, <2>4
<1> QED
  BY <1>1, <1>2 DEF Reader

(* main draws the ports at the load and stops the reader at the end. *)
LEMMA MainKeepsPorts ==
  ASSUME Typed, Load \/ List \/ Screen \/ Quit \/ Save \/ Exit \/ Crash \/ Spoil
  PROVE  PortsTyped'
<1> USE CalibrateAssumption DEF Typed, PortsTyped, readerVars, portVars
<1>1. CASE Load
  BY <1>1 DEF Load
<1>2. CASE Quit \/ Exit \/ Crash
  BY <1>2 DEF Quit, Exit, Crash, End
<1>3. CASE List \/ Screen
  BY <1>3 DEF List, ClearRecord, Capture, Screen, Look, CaptureKey, Redo, Cancel, Keep
<1>4. CASE Save \/ Spoil
  BY <1>4 DEF Save, SaveFails, SaveOpen, SaveDump, SaveReplace, Spoil
<1> QED
  BY <1>1, <1>2, <1>3, <1>4

(* main, from the load to the save, and the end of the session. *)
LEMMA MainKeepsTyped ==
  ASSUME Typed, Load \/ List \/ Screen \/ Quit \/ Save \/ Exit \/ Crash \/ Spoil
  PROVE  Typed'
<1> USE MainKeepsPorts DEF Typed, readerVars, uiVars, saveVars, fileVars, history
<1>1. CASE Load \/ Spoil
  BY <1>1 DEF Load, Spoil, NoRecords, Record, FlagsTyped, ListsTyped, RecordsTyped, Selected
<1>2. CASE \E c \in Control : ClearRecord(c) \/ Capture(c)
  <2>1. PICK c \in Control : ClearRecord(c) \/ Capture(c)
    BY <1>2
  <2>2. FlagsTyped' /\ RecordsTyped' /\ Selected'
    BY <2>1 DEF ClearRecord, Capture, BeginSave, BeginCapture, Record,
                FlagsTyped, RecordsTyped, Selected
  <2>3. CASE ClearRecord(c)
    BY <2>2, <2>3 DEF ClearRecord, ListsTyped
  <2>4. CASE Capture(c)
    BY <2>2, <2>4, Cleared DEF Capture
  <2> QED
    BY <2>1, <2>3, <2>4
<1>3. CASE Look \/ CaptureKey \/ Redo \/ Cancel
  <2>1. FlagsTyped' /\ RecordsTyped' /\ Selected'
    BY <1>3 DEF Look, CaptureKey, Redo, Cancel, BeginCapture, EndCapture,
                FlagsTyped, RecordsTyped, Selected
  <2>2. CASE Look \/ CaptureKey
    BY <2>1, <2>2 DEF Look, CaptureKey, ListsTyped
  <2>3. CASE Redo
    BY <2>1, <2>3, Cleared DEF Redo
  <2>4. CASE Cancel
    BY <2>1, <2>4, Ended DEF Cancel
  <2> QED
    BY <1>3, <2>2, <2>3, <2>4
<1>4. CASE Keep
  <2>1. results' \in [Control -> Record]
    BY <1>4, KeptRecord DEF Keep, RecordsTyped, ListsTyped
  <2>2. FlagsTyped' /\ RecordsTyped' /\ Selected'
    BY <1>4, <2>1 DEF Keep, BeginSave, EndCapture, FlagsTyped, RecordsTyped, Selected
  <2> QED
    BY <1>4, <2>2, Ended DEF Keep
<1>5. CASE Quit
  <2>1. FlagsTyped' /\ RecordsTyped' /\ Selected'
    BY <1>5 DEF Quit, BeginSave, EndCapture, FlagsTyped, RecordsTyped, Selected
  <2> QED
    BY <1>5, <2>1, Ended DEF Quit
<1>6. CASE Save
  BY <1>6 DEF Save, SaveFails, SaveOpen, SaveDump, SaveReplace, SaveReturns,
              FlagsTyped, ListsTyped, RecordsTyped, Selected
<1>7. CASE Exit \/ Crash
  <2>1. End
    BY <1>7 DEF Exit, Crash
  <2>2. ListsTyped'
    BY <2>1, NoEvents, CalibrateAssumption DEF End, EndCapture, ListsTyped
  <2>3. RecordsTyped'
    BY <2>1 DEF End, RecordsTyped, NoRecords, Record
  <2>4. FlagsTyped' /\ Selected'
    BY <2>1 DEF End, FlagsTyped, Selected
  <2> QED
    BY <2>2, <2>3, <2>4
<1> QED
  BY <1>1, <1>2, <1>3, <1>4, <1>5, <1>6, <1>7 DEF List, Screen

(* In every session the types hold. *)
THEOREM CalibrateTyped == Spec => []Typed
<1>1. Typed /\ [Next]_vars => Typed'
  <2> SUFFICES ASSUME Typed, [Next]_vars PROVE Typed'
    OBVIOUS
  <2>1. CASE Next
    BY <2>1, ReaderKeepsTyped, MainKeepsTyped DEF Next
  <2>2. CASE UNCHANGED vars
    BY <2>2 DEF vars, Typed, PortsTyped, FlagsTyped, ListsTyped, RecordsTyped, Selected,
                readerVars, portVars, uiVars, saveVars, fileVars, history
  <2> QED
    BY <2>1, <2>2
<1> QED
  BY TypedInit, <1>1, PTL DEF Spec

(* The types that the runs check. *)
THEOREM CalibrateTypes == Spec => []TypeOK
<1>1. Typed => TypeOK
  <2> SUFFICES ASSUME Typed PROVE TypeOK
    OBVIOUS
  <2>1. Len(events) \in Nat /\ Len(seen) \in Nat
    BY LenProperties DEF Typed, ListsTyped
  <2>2. \A list \in {events, agg, seen} : list \in Seq(Value) /\ Len(list) <= MaxEvents
    BY <2>1, CalibrateAssumption DEF Typed, ListsTyped
  <2> QED
    BY <2>2 DEF Typed, PortsTyped, FlagsTyped, RecordsTyped, TypeOK
<1> QED
  BY CalibrateTyped, <1>1, PTL

-----------------------------------------------------------------------------
(* The results file *)

(* The first session finds an empty file. *)
LEMMA SavedInit == Init => Saved
BY DEF Init, Saved

(* A step that touches neither memory nor file, nor ends the session. *)
LEMMA SavedFrame ==
  ASSUME Saved, UNCHANGED <<results, fileVars, told, touched, unread>>,
         sv' = "replace" => sv = "replace", (ui' = "down") <=> (ui = "down")
  PROVE  Saved'
BY DEF Saved, fileVars

(* The file changes by the rename only, and memory by a capture, a clear or   *)
(* a load.                                                                    *)
LEMMA SavedStep ==
  ASSUME Typed, Saved, Next
  PROVE  Saved'
<1> USE DEF readerVars, uiVars, saveVars, fileVars, history
<1>1. CASE Reader \/ Outside
  BY <1>1, SavedFrame DEF Reader, Connect, Lost, Receive, Outside, BridgeChanges, AseqdumpEnds
<1>2. CASE Load
  BY <1>2 DEF Load, Saved, Typed, FlagsTyped
<1>3. CASE List
  <2>1. PICK c \in Control : ClearRecord(c) \/ Capture(c)
    BY <1>3 DEF List
  <2>2. CASE ClearRecord(c)
    <3>1. ui # "down" /\ ui' # "down" /\ sv' = "open"
      BY <2>2 DEF ClearRecord, BeginSave
    <3>2. /\ UNCHANGED <<disk, file, tmp, unread>>
          /\ touched' = touched \cup {c} /\ told' = told \ {c}
      BY <2>2 DEF ClearRecord
    <3>3. \A d \in Control : d # c => results'[d] = results[d]
      BY <2>2 DEF ClearRecord, Typed, RecordsTyped
    <3>4. told \subseteq Control
      BY DEF Typed, FlagsTyped
    <3> QED
      BY <3>1, <3>2, <3>3, <3>4 DEF Saved
  <2>3. CASE Capture(c)
    BY <2>3, SavedFrame DEF Capture, BeginCapture
  <2> QED
    BY <2>1, <2>2, <2>3
<1>4. CASE Look \/ CaptureKey \/ Redo \/ Cancel
  BY <1>4, SavedFrame DEF Look, CaptureKey, Redo, Cancel, BeginCapture
<1>5. CASE Keep
  <2>1. ui # "down" /\ ui' # "down" /\ sv' = "open"
    BY <1>5 DEF Keep, BeginSave
  <2>2. /\ UNCHANGED <<disk, file, tmp, unread>>
        /\ touched' = touched \cup {sel} /\ told' = told \ {sel}
    BY <1>5 DEF Keep
  <2>3. \A d \in Control : d # sel => results'[d] = results[d]
    BY <1>5 DEF Keep, Typed, RecordsTyped
  <2>4. told \subseteq Control
    BY DEF Typed, FlagsTyped
  <2> QED
    BY <2>1, <2>2, <2>3, <2>4 DEF Saved
<1>6. CASE Quit
  BY <1>6, SavedFrame DEF Quit, BeginSave
<1>7. CASE SaveFails \/ SaveOpen \/ SaveDump
  <2>1. ui # "down"
    BY <1>7 DEF SaveFails, SaveOpen, SaveDump, Typed, FlagsTyped
  <2> QED
    BY <1>7, <2>1 DEF SaveFails, SaveOpen, SaveDump, SaveReturns, Saved
<1>8. CASE SaveReplace
  <2>1. ui # "down" /\ ui' # "down" /\ tmp = "whole" /\ sv' = "idle"
    BY <1>8 DEF SaveReplace, SaveReturns, Saved, Typed, FlagsTyped
  <2>2. file' = "whole" /\ tmp' = "whole" /\ \A c \in Control : disk'[c] = results'[c]
    BY <1>8, <2>1 DEF SaveReplace
  <2>3. told' \subseteq Control
    BY <1>8 DEF SaveReplace, Typed, FlagsTyped
  <2> QED
    BY <2>1, <2>2, <2>3 DEF Saved
<1>9. CASE Exit \/ Crash
  BY <1>9 DEF Exit, Crash, End, Saved
<1>10. CASE Spoil
  BY <1>10 DEF Spoil, Saved, Typed, FlagsTyped
<1> QED
  BY <1>1, <1>2, <1>3, <1>4, <1>5, <1>6, <1>7, <1>8, <1>9, <1>10 DEF Next, Screen, Save

(* In every session, file and memory agree as Saved says. *)
THEOREM FileIsSound == Spec => []Saved
<1>1. Typed /\ Saved /\ [Next]_vars => Saved'
  <2> SUFFICES ASSUME Typed, Saved, [Next]_vars PROVE Saved'
    OBVIOUS
  <2>1. CASE UNCHANGED vars
    BY <2>1 DEF vars, Saved, uiVars, saveVars, fileVars, history
  <2> QED
    BY <2>1, SavedStep
<1> QED
  BY SavedInit, CalibrateTyped, <1>1, PTL DEF Spec

(* The file is never half written, and what was flashed as saved is in it     *)
(* (calibrate.py:281-292, 596).                                               *)
THEOREM SavedStays == Spec => []SavedIsKept
<1>1. Saved => SavedIsKept
  BY DEF Saved, SavedIsKept
<1> QED
  BY FileIsSound, <1>1, PTL

(* No record in the file changes or goes unasked, unless the session could    *)
(* not read the file it replaces (calibrate.py:278).                          *)
THEOREM RecordsStay == Spec => RecordsChangeOnlyByChoice
<1>1. Typed /\ Saved /\ [Next]_vars
        => [\A c \in Control : disk'[c] # disk[c] => c \in touched \/ unread]_vars
  <2> SUFFICES ASSUME Typed, Saved, Next, NEW c \in Control, disk'[c] # disk[c]
               PROVE  c \in touched \/ unread
    OBVIOUS
  <2> USE DEF readerVars, uiVars, saveVars, fileVars, history
  <2>1. SaveReplace
    BY DEF Next, Reader, Connect, Lost, Receive, Outside, BridgeChanges, AseqdumpEnds, Load,
           List, ClearRecord, Capture,
           Screen, Look, CaptureKey, Redo, Cancel, Keep, Quit, Save, SaveFails, SaveOpen,
           SaveDump, Exit, Crash, End, Spoil
  <2>2. ui # "down" /\ disk' = results
    BY <2>1 DEF SaveReplace, Typed, FlagsTyped
  <2> QED
    BY <2>2 DEF Saved
<1> QED
  BY CalibrateTyped, FileIsSound, <1>1, PTL DEF Spec, RecordsChangeOnlyByChoice

-----------------------------------------------------------------------------
(* The capture *)

(* A list is a first part of itself. *)
LEMMA PrefixOfItself ==
  ASSUME NEW s \in Seq(Value)
  PROVE  IsPrefix(s, s)
BY LenProperties DEF IsPrefix

(* The first part of a list is untouched by one more event. *)
LEMMA PrefixGrows ==
  ASSUME NEW s \in Seq(Value), NEW t \in Seq(Value), NEW v \in Value, IsPrefix(s, t)
  PROVE  IsPrefix(s, Append(t, v))
<1>1. Len(s) \in Nat /\ Len(t) \in Nat /\ Len(s) <= Len(t)
  BY LenProperties DEF IsPrefix
<1>2. Len(Append(t, v)) = Len(t) + 1
  BY AppendProperties
<1>3. SubSeq(Append(t, v), 1, Len(s)) = SubSeq(t, 1, Len(s))
  <2>1. CASE Len(s) = 0
    BY <2>1, SubSeqEmpty
  <2>2. CASE Len(s) > 0
    <3>1. 1 \in 1..Len(t) /\ Len(s) \in 1..Len(t)
      BY <1>1, <2>2
    <3>2. Append(t, v) = t \o <<v>> /\ <<v>> \in Seq(Value)
      BY AppendIsConcat
    <3> QED
      BY <3>1, <3>2, SubSeqOfConcat1
  <2> QED
    BY <1>1, <2>1, <2>2
<1> QED
  BY <1>1, <1>2, <1>3 DEF IsPrefix

(* The first session captures nothing. *)
LEMMA CapturedInit == Init => Captured
BY DEF Init, Captured

(* The reader appends to both lists while a capture runs. *)
LEMMA ReaderKeepsCaptured ==
  ASSUME Typed, Captured, Reader \/ Outside
  PROVE  Captured'
<1> USE DEF uiVars
<1>1. CASE Connect \/ Lost \/ Outside
  BY <1>1 DEF Connect, Lost, Outside, BridgeChanges, AseqdumpEnds, Captured
<1>2. CASE \E v \in Value : Receive(v)
  <2>1. PICK v \in Value : Receive(v)
    BY <1>2
  <2>2. agg \in Seq(Value) /\ seen \in Seq(Value)
    BY DEF Typed, ListsTyped
  <2>3. IsPrefix(agg, seen) => IsPrefix(agg, Append(seen, v))
    BY <2>2, PrefixGrows
  <2>4. UNCHANGED <<ui, agg>> /\ events' = Append(events, v)
        /\ seen' = IF ui \in {"look", "key"} THEN Append(seen, v) ELSE seen
    BY <2>1 DEF Receive
  <2> QED
    BY <2>3, <2>4 DEF Captured
<1> QED
  BY <1>1, <1>2 DEF Reader

(* A review shows a snapshot of the list that this capture cleared.           *)
LEMMA CapturedStep ==
  ASSUME Typed, Captured, Next
  PROVE  Captured'
<1> USE DEF readerVars, uiVars
<1>1. CASE Look
  <2>1. events \in Seq(Value)
    BY DEF Typed, ListsTyped
  <2>2. IsPrefix(events, events)
    BY <2>1, PrefixOfItself
  <2> QED
    BY <1>1, <2>2 DEF Look, Captured
<1>2. CASE CaptureKey
  BY <1>2 DEF CaptureKey, Captured
<1>3. CASE Redo \/ \E c \in Control : Capture(c)
  BY <1>3 DEF Redo, Capture, BeginCapture, Captured
<1>4. CASE Cancel \/ Keep \/ Quit \/ (\E c \in Control : ClearRecord(c)) \/ Load
  BY <1>4 DEF Cancel, Keep, Quit, ClearRecord, BeginSave, Load, Captured
<1>5. CASE Save
  BY <1>5 DEF Save, SaveFails, SaveOpen, SaveDump, SaveReplace, SaveReturns, Captured, Typed,
              FlagsTyped
<1>6. CASE Exit \/ Crash \/ Spoil
  BY <1>6 DEF Exit, Crash, End, Spoil, Captured
<1> QED
  BY <1>1, <1>2, <1>3, <1>4, <1>5, <1>6, ReaderKeepsCaptured DEF Next, List, Screen

(* What is reviewed is a first part of what arrived since the capture, or     *)
(* its redo, began (calibrate.py:452-465), however long the lists.            *)
THEOREM ReviewIsOfThisCapture == Spec => []ReviewShowsThisCapture
<1>1. Typed /\ Captured /\ [Next]_vars => Captured'
  <2> SUFFICES ASSUME Typed, Captured, [Next]_vars PROVE Captured'
    OBVIOUS
  <2>1. CASE UNCHANGED vars
    BY <2>1 DEF vars, Captured, readerVars, uiVars
  <2> QED
    BY <2>1, CapturedStep
<1>2. Captured => ReviewShowsThisCapture
  BY DEF Captured, ReviewShowsThisCapture
<1> QED
  BY CapturedInit, CalibrateTyped, <1>1, <1>2, PTL DEF Spec
=============================================================================
