-------------------------- MODULE StreamToolsProofs --------------------------
(***************************************************************************)
(* What StreamTools promises, for any number of transfers.  inflight is    *)
(* exact because a transfer enters the count from "none" or from its       *)
(* callback only; the report is complete because what moved data and is    *)
(* not counted yet waits to be reaped, and the drain waits for that.       *)
(***************************************************************************)
EXTENDS StreamTools, FiniteSetTheorems, TLAPS

Active == {x \in Transfers : xfer[x] \notin {"none", "dead"}}
Full == {x \in Transfers : xfer[x] = "full"}

(* TypeOK, but for the bounds that follow from the counts. *)
Types ==
  /\ pc \in {"open", "submit", "loop", "events", "cancel", "drain", "report", "exit"}
  /\ i \in 0..(NXFR + 1) /\ running \in BOOLEAN /\ late \in BOOLEAN /\ conn \in BOOLEAN
  /\ xfer \in [Transfers -> {"none", "flight", "full", "empty", "cb", "dead"}]
  /\ cb \in 0..NXFR /\ at \in {"idle", "test", "submit"}
  /\ \A x \in Transfers : xfer[x] = "cb" <=> x = cb
  /\ (cb = 0) <=> (at = "idle")
  /\ total_pkts \in Nat /\ delivered \in 0..MaxData /\ inflight \in Int

Phases ==
  /\ pc \in {"submit", "cancel"} => i >= 1
  /\ pc \notin {"events", "drain"} => cb = 0
  /\ pc = "open" => \A x \in Transfers : xfer[x] = "none"
  /\ pc = "submit" => \A x \in Transfers : x >= i => xfer[x] = "none"
  /\ pc \in {"report", "exit"} => Active = {}

Counts ==
  /\ inflight = Cardinality(Active)
  /\ delivered = total_pkts + Cardinality(Full)

ToolInv == Types /\ Phases /\ Counts

(* There are finitely many transfers. *)
LEMMA ActiveIsFinite ==
  /\ IsFiniteSet(Active) /\ Cardinality(Active) \in 0..NXFR
  /\ IsFiniteSet(Full) /\ Cardinality(Full) \in Nat
<1>1. IsFiniteSet(1..NXFR) /\ Cardinality(1..NXFR) = NXFR
  BY FS_Interval, ToolAssumption
<1>2. Active \in SUBSET (1..NXFR) /\ Full \in SUBSET (1..NXFR)
  BY DEF Active, Full, Transfers
<1>3. IsFiniteSet(Active) /\ Cardinality(Active) <= NXFR /\ IsFiniteSet(Full)
  BY <1>1, <1>2, FS_Subset
<1> QED
  BY <1>3, FS_CardinalityType, ToolAssumption

(* One transfer changes its state: both sets gain it, lose it or keep it. *)
LEMMA OneTransferMoves ==
  ASSUME Types, NEW x \in Transfers, NEW v \in {"flight", "full", "empty", "cb", "dead"},
         xfer' = [xfer EXCEPT ![x] = v]
  PROVE  /\ Cardinality(Active') = Cardinality(Active)
              + (IF v # "dead" /\ x \notin Active THEN 1 ELSE IF v = "dead" /\ x \in Active THEN -1 ELSE 0)
         /\ Cardinality(Full') = Cardinality(Full)
              + (IF v = "full" /\ x \notin Full THEN 1 ELSE IF v # "full" /\ x \in Full THEN -1 ELSE 0)
<1> USE ActiveIsFinite
<1>1. Active' = IF v = "dead" THEN Active \ {x} ELSE Active \cup {x}
  BY DEF Types, Active
<1>2. Full' = IF v = "full" THEN Full \cup {x} ELSE Full \ {x}
  BY DEF Types, Full
<1>3. /\ Cardinality(Active \cup {x}) = IF x \in Active THEN Cardinality(Active) ELSE Cardinality(Active) + 1
      /\ Cardinality(Full \cup {x}) = IF x \in Full THEN Cardinality(Full) ELSE Cardinality(Full) + 1
  BY FS_AddElement
<1>4. /\ Cardinality(Active \ {x}) = IF x \in Active THEN Cardinality(Active) - 1 ELSE Cardinality(Active)
      /\ Cardinality(Full \ {x}) = IF x \in Full THEN Cardinality(Full) - 1 ELSE Cardinality(Full)
  BY FS_RemoveElement
<1>5. Cardinality(Active') = Cardinality(Active)
        + (IF v # "dead" /\ x \notin Active THEN 1 ELSE IF v = "dead" /\ x \in Active THEN -1 ELSE 0)
  BY <1>1, <1>3, <1>4
<1>6. Cardinality(Full') = Cardinality(Full)
        + (IF v = "full" /\ x \notin Full THEN 1 ELSE IF v # "full" /\ x \in Full THEN -1 ELSE 0)
  BY <1>2, <1>3, <1>4
<1> QED
  BY <1>5, <1>6

(* A step that moves no transfer moves no set of them. *)
LEMMA SetsUnmoved == UNCHANGED xfer => Active' = Active /\ Full' = Full
BY DEF Active, Full

(* At the start nothing is in flight and nothing counted. *)
LEMMA ToolInit == Init => ToolInv
<1> SUFFICES ASSUME Init PROVE ToolInv
  OBVIOUS
<1>1. Active = {} /\ Full = {}
  BY DEF Init, Active, Full
<1>2. Types
  <2>1. xfer \in [Transfers -> {"none", "flight", "full", "empty", "cb", "dead"}]
        /\ \A x \in Transfers : xfer[x] = "none" /\ x # 0
    BY DEF Init, Transfers
  <2>2. i \in 0..(NXFR + 1) /\ cb \in 0..NXFR /\ total_pkts \in Nat /\ delivered \in 0..MaxData
        /\ inflight \in Int
    BY ToolAssumption DEF Init
  <2>3. running \in BOOLEAN /\ late \in BOOLEAN /\ conn \in BOOLEAN
    BY DEF Init
  <2> QED
    BY <2>1, <2>2, <2>3 DEF Init, Types
<1>3. Phases
  BY <1>1 DEF Init, Phases
<1>4. Counts
  BY <1>1, FS_EmptySet DEF Init, Counts
<1> QED
  BY <1>2, <1>3, <1>4 DEF ToolInv

(* main: the first submissions, the loop, the cancellation, the drain. *)
LEMMA MainKeepsInv ==
  ASSUME ToolInv, Main
  PROVE  ToolInv'
<1> USE ToolAssumption, ActiveIsFinite
    DEF ToolInv, mainVars, cbVars, counters
<1>1. CASE Open \/ StartLoop \/ LoopTest \/ EventsReturn \/ Report
  <2>1. UNCHANGED <<xfer, inflight, cb, at, total_pkts, delivered>>
    BY <1>1 DEF Open, StartLoop, LoopTest, EventsReturn, Report
  <2>2. Types'
    <3>1. i' \in 0..(NXFR + 1)
      BY <1>1 DEF Open, StartLoop, LoopTest, EventsReturn, Report, Types
    <3>2. running' \in BOOLEAN /\ late' \in BOOLEAN /\ conn' \in BOOLEAN
      <4>1. running' \in BOOLEAN
        BY <1>1 DEF Open, StartLoop, LoopTest, EventsReturn, Report, Types
      <4>2. late' \in BOOLEAN
        BY <1>1 DEF Open, StartLoop, LoopTest, EventsReturn, Report, Types
      <4>3. conn' \in BOOLEAN
        BY <1>1 DEF Open, StartLoop, LoopTest, EventsReturn, Report, Types
      <4> QED
        BY <4>1, <4>2, <4>3
    <3>3. pc' \in {"submit", "loop", "events", "cancel", "exit"}
      BY <1>1 DEF Open, StartLoop, LoopTest, EventsReturn, Report
    <3> QED
      BY <2>1, <3>1, <3>2, <3>3 DEF Types
  <2>3. Phases'
    <3>1. pc = "open" => Active = {} /\ cb = 0
      BY DEF Active, Phases
    <3> QED
      BY <1>1, <2>1, <3>1, SetsUnmoved DEF Open, StartLoop, LoopTest, EventsReturn, Report,
          Phases
  <2>4. Counts'
    BY <2>1, SetsUnmoved DEF Counts
  <2> QED
    BY <2>2, <2>3, <2>4
<1>2. CASE Submit
  <2>1. i \in Transfers /\ xfer[i] = "none" /\ pc = "submit" /\ i \notin Active /\ i \notin Full /\ cb = 0
    BY <1>2 DEF Submit, Types, Phases, Transfers, Active, Full
  <2>2. UNCHANGED <<pc, running, late, conn, cb, at, total_pkts, delivered>> /\ i' = i + 1
    BY <1>2 DEF Submit
  <2>3. PICK v \in {"flight", "dead"} :
          /\ xfer' = [xfer EXCEPT ![i] = v]
          /\ inflight' = inflight + (IF v = "flight" THEN 1 ELSE 0)
    BY <1>2 DEF Submit, Types
  <2>4. Types'
    BY <2>1, <2>2, <2>3 DEF Types, Transfers
  <2>5. Phases'
    BY <2>1, <2>2, <2>3 DEF Types, Phases, Transfers
  <2>6. Counts'
    <3>1. Cardinality(Active') = Cardinality(Active) + (IF v = "flight" THEN 1 ELSE 0)
      BY <2>1, <2>2, <2>3, OneTransferMoves
    <3>2. Cardinality(Full') = Cardinality(Full) + 0
      BY <2>1, <2>2, <2>3, OneTransferMoves
    <3> QED
      BY <2>1, <2>2, <2>3, <3>1, <3>2 DEF Counts, Types
  <2> QED
    BY <2>4, <2>5, <2>6
<1>3. CASE Cancel
  <2>1. UNCHANGED <<running, late, conn, inflight, cb, at, total_pkts, delivered>> /\ pc = "cancel"
        /\ pc' \in {"cancel", "drain"} /\ i' \in 0..(NXFR + 1) /\ i' >= 1 /\ cb = 0
    BY <1>3 DEF Cancel, Types, Phases
  <2>2. CASE UNCHANGED xfer
    BY <2>1, <2>2, SetsUnmoved DEF Types, Phases, Counts
  <2>3. CASE ~UNCHANGED xfer
    <3>1. i \in Transfers /\ xfer[i] = "flight" /\ xfer' = [xfer EXCEPT ![i] = "empty"]
      BY <1>3, <2>3 DEF Cancel, Types, Phases, Transfers
    <3>2. i \in Active /\ i \notin Full
      BY <3>1 DEF Active, Full
    <3>3. Types'
      BY <2>1, <3>1 DEF Types
    <3>4. Phases'
      BY <2>1 DEF Phases
    <3>5. Counts'
      <4>1. Cardinality(Active') = Cardinality(Active) + 0
        BY <2>1, <3>1, <3>2, OneTransferMoves
      <4>2. Cardinality(Full') = Cardinality(Full) + 0
        BY <2>1, <3>1, <3>2, OneTransferMoves
      <4> QED
        BY <2>1, <3>1, <3>2, <4>1, <4>2 DEF Counts, Types
    <3> QED
      BY <3>3, <3>4, <3>5
  <2> QED
    BY <2>2, <2>3
<1>4. CASE Drain
  <2>1. UNCHANGED <<i, running, late, conn, xfer, inflight, cb, at, total_pkts, delivered>>
        /\ pc' = "report" /\ cb = 0
    BY <1>4 DEF Drain
  <2>2. Active = {}
    BY <1>4, FS_EmptySet DEF Drain, Counts
  <2> QED
    BY <2>1, <2>2, SetsUnmoved DEF Types, Phases, Counts
<1> QED
  BY <1>1, <1>2, <1>3, <1>4 DEF Main

(* The callback counts a transfer that moved data, and submits or gives up. *)
LEMMA CallbackKeepsInv ==
  ASSUME ToolInv, Callback
  PROVE  ToolInv'
<1> USE ToolAssumption, ActiveIsFinite
    DEF ToolInv, mainVars, cbVars, counters
<1>1. ASSUME NEW x \in Transfers, CbCount(x) PROVE ToolInv'
  <2>1. /\ UNCHANGED <<pc, i, running, late, conn, inflight, delivered>>
        /\ pc \in {"events", "drain"} /\ cb = 0 /\ cb' = x /\ at' = "test"
        /\ xfer' = [xfer EXCEPT ![x] = "cb"] /\ xfer[x] \in {"full", "empty"}
        /\ total_pkts' = total_pkts + (IF x \in Full THEN 1 ELSE 0)
    BY <1>1 DEF CbCount, Ready, Full
  <2>2. x \in Active
    BY <2>1 DEF Active
  <2>3. Types'
    BY <2>1 DEF Types, Transfers
  <2>4. Phases'
    BY <2>1 DEF Phases
  <2>5. Counts'
    <3>1. Cardinality(Active') = Cardinality(Active) + 0
      BY <2>1, <2>2, OneTransferMoves
    <3>2. Cardinality(Full') = Cardinality(Full) + (IF x \in Full THEN -1 ELSE 0)
      BY <2>1, <2>2, OneTransferMoves
    <3> QED
      BY <2>1, <2>2, <3>1, <3>2 DEF Counts, Types
  <2> QED
    BY <2>3, <2>4, <2>5
<1>2. ASSUME GiveUp, at \in {"test", "submit"},
             UNCHANGED <<pc, i, running, late, conn, total_pkts, delivered>>
      PROVE  ToolInv'
  <2>1. cb \in Transfers /\ cb \in Active /\ cb \notin Full /\ pc \in {"events", "drain"}
    BY <1>2 DEF Types, Phases, Transfers, Active, Full
  <2>2. Types'
    BY <1>2, <2>1 DEF Types, GiveUp, Transfers
  <2>3. Phases'
    BY <1>2, <2>1 DEF Phases
  <2>4. Counts'
    <3>1. Cardinality(Active') = Cardinality(Active) + (-1)
      BY <1>2, <2>1, OneTransferMoves DEF GiveUp
    <3>2. Cardinality(Full') = Cardinality(Full) + 0
      BY <1>2, <2>1, OneTransferMoves DEF GiveUp
    <3> QED
      BY <1>2, <2>1, <3>1, <3>2 DEF Counts, Types, GiveUp
  <2> QED
    BY <2>2, <2>3, <2>4
<1>3. CASE CbTest
  <2>1. CASE running
    <3>1. UNCHANGED <<mainVars, running, late, conn, counters, cb, xfer, inflight>> /\ at = "test"
          /\ at' = "submit"
      BY <1>3, <2>1 DEF CbTest
    <3> QED
      BY <3>1, SetsUnmoved DEF Types, Phases, Counts
  <2>2. CASE ~running
    BY <1>2, <1>3, <2>2 DEF CbTest
  <2> QED
    BY <2>1, <2>2
<1>4. CASE CbSubmit
  <2>1. CASE GiveUp
    BY <1>2, <1>4, <2>1 DEF CbSubmit
  <2>2. CASE xfer' = [xfer EXCEPT ![cb] = "flight"] /\ cb' = 0 /\ at' = "idle" /\ UNCHANGED inflight
    <3>1. cb \in Transfers /\ cb \in Active /\ cb \notin Full /\ pc \in {"events", "drain"}
      BY <1>4 DEF CbSubmit, Types, Phases, Transfers, Active, Full
    <3>2. UNCHANGED <<pc, i, running, late, conn, total_pkts, delivered>>
      BY <1>4 DEF CbSubmit
    <3>3. Types'
      BY <2>2, <3>1, <3>2 DEF Types, Transfers
    <3>4. Phases'
      BY <2>2, <3>1, <3>2 DEF Phases
    <3>5. Counts'
      <4>1. Cardinality(Active') = Cardinality(Active) + 0
        BY <2>2, <3>1, <3>2, OneTransferMoves
      <4>2. Cardinality(Full') = Cardinality(Full) + 0
        BY <2>2, <3>1, <3>2, OneTransferMoves
      <4> QED
        BY <2>2, <3>1, <3>2, <4>1, <4>2 DEF Counts, Types
    <3> QED
      BY <3>3, <3>4, <3>5
  <2> QED
    BY <1>4, <2>1, <2>2 DEF CbSubmit
<1> QED
  BY <1>1, <1>3, <1>4 DEF Callback

(* The mixer, the user and the clock break nothing. *)
LEMMA EnvironmentKeepsInv ==
  ASSUME ToolInv, Environment
  PROVE  ToolInv'
<1> USE ToolAssumption, ActiveIsFinite
    DEF ToolInv, mainVars, cbVars, counters
<1>1. ASSUME NEW x \in Transfers, NEW how \in {"full", "empty"}, Complete(x, how) PROVE ToolInv'
  <2>1. /\ UNCHANGED <<pc, i, running, late, conn, inflight, cb, at, total_pkts>>
        /\ xfer[x] = "flight" /\ xfer' = [xfer EXCEPT ![x] = how]
        /\ delivered' = delivered + (IF how = "full" THEN 1 ELSE 0)
        /\ how = "full" => delivered < MaxData
    BY <1>1 DEF Complete
  <2>2. x \in Active /\ x \notin Full
    BY <2>1 DEF Active, Full
  <2>3. Types'
    BY <2>1 DEF Types
  <2>4. Phases'
    BY <2>1, <2>2 DEF Phases, Types
  <2>5. Counts'
    <3>1. Cardinality(Active') = Cardinality(Active) + 0
      BY <2>1, <2>2, OneTransferMoves
    <3>2. Cardinality(Full') = Cardinality(Full) + (IF how = "full" THEN 1 ELSE 0)
      BY <2>1, <2>2, OneTransferMoves
    <3> QED
      BY <2>1, <2>2, <3>1, <3>2 DEF Counts, Types
  <2> QED
    BY <2>3, <2>4, <2>5
<1>2. CASE Unplug
  <2>1. UNCHANGED <<pc, i, running, late, inflight, cb, at, total_pkts, delivered>> /\ conn' = FALSE
        /\ xfer' = [x \in Transfers |-> IF xfer[x] = "flight" THEN "empty" ELSE xfer[x]]
    BY <1>2 DEF Unplug
  <2>2. Active' = Active /\ Full' = Full
    BY <2>1 DEF Active, Full, Types
  <2>3. Types'
    BY <2>1 DEF Types
  <2>4. Phases'
    BY <2>1, <2>2 DEF Phases, Types
  <2> QED
    BY <2>1, <2>2, <2>3, <2>4 DEF Counts
<1>3. CASE Signal \/ Clock
  <2>1. UNCHANGED <<pc, i, conn, xfer, inflight, cb, at, total_pkts, delivered>>
        /\ running' \in BOOLEAN /\ late' \in BOOLEAN
    BY <1>3 DEF Signal, Clock, Types
  <2> QED
    BY <2>1, SetsUnmoved DEF Types, Phases, Counts
<1> QED
  BY <1>1, <1>2, <1>3 DEF Environment

(* The inductive invariant holds in every reachable state of the tools. *)
THEOREM ToolInvariant == Spec => []ToolInv
<1>1. ToolInv /\ [Next]_vars => ToolInv'
  <2> SUFFICES ASSUME ToolInv, [Next]_vars PROVE ToolInv'
    OBVIOUS
  <2>1. CASE UNCHANGED vars
    BY <2>1, SetsUnmoved DEF ToolInv, Types, Phases, Counts, vars, mainVars, cbVars, counters
  <2> QED
    BY <2>1, MainKeepsInv, CallbackKeepsInv, EnvironmentKeepsInv DEF Next, Idle
<1> QED
  BY ToolInit, <1>1, PTL DEF Spec

(* inflight is exact (djmt1-capture.c:73-76, 86-98), and with it the bounds   *)
(* of TypeOK, for any number of transfers.                                    *)
THEOREM ToolTypes == Spec => []TypeOK
<1>1. ToolInv => TypeOK
  BY ActiveIsFinite, ToolAssumption DEF ToolInv, Types, Counts, TypeOK
<1> QED
  BY ToolInvariant, <1>1, PTL

(* The counter the drain waits for (djmt1-capture.c:120) is exact. *)
THEOREM ToolInflight == Spec => []InflightIsExact
<1>1. ToolInv => InflightIsExact
  BY DEF ToolInv, Counts, Active, InflightIsExact
<1> QED
  BY ToolInvariant, <1>1, PTL

(* The report counts every transfer that moved data (djmt1-capture.c:120-139, *)
(* djmt1-playback.c:106-111).                                                 *)
THEOREM ToolReports == Spec => []ReportIsComplete
<1>1. ToolInv => ReportIsComplete
  <2> SUFFICES ASSUME ToolInv, pc \in {"report", "exit"}
               PROVE  total_pkts = delivered /\ \A x \in Transfers : xfer[x] \in {"none", "dead"}
    BY DEF ReportIsComplete
  <2>1. Active = {}
    BY DEF ToolInv, Phases
  <2>2. \A x \in Transfers : xfer[x] \in {"none", "dead"}
    BY <2>1 DEF Active
  <2>3. Full = {}
    BY <2>2 DEF Full
  <2>4. Cardinality(Full) = 0
    BY <2>3, FS_EmptySet
  <2> QED
    BY <2>2, <2>4 DEF ToolInv, Counts, Types
<1> QED
  BY ToolInvariant, <1>1, PTL
=============================================================================
