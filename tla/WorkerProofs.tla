---------------------------- MODULE WorkerProofs ----------------------------
(***************************************************************************)
(* What Worker guarantees for every set of heartbeats, every table of      *)
(* opportunities and every number of faults and crashes.  GateInv is the   *)
(* inductive invariant behind NeverOrders and StartsAreGated; SerialInv is *)
(* the one behind AtMostOnce and OrphanLatchStops, which need heartbeats   *)
(* that do not overlap.                                                    *)
(***************************************************************************)
EXTENDS Worker, TLAPS

USE DEF Modes, PCs, Gating, Claiming, Trading, Results, Terminal, OppStatuses,
        HealthRows

-----------------------------------------------------------------------------
(* Type correctness                                                        *)

\* Going on to the next call keeps the program counters and the rows in
\* flight typed (worker-core 297).
LEMMA GoesType ==
  ASSUME TypeOK, mode' \in Modes, env' \in Envs, signerVerification' \in BOOLEAN,
         NEW h \in Heartbeats, NEW call \in PCs, Goes(h, call)
  PROVE  /\ pc' \in [Heartbeats -> PCs]
         /\ sent' \in [Heartbeats -> HealthRows]
<1>1. HealthRow' \in HealthRows
  BY DEF HealthRow, SignerStatus
<1>2. NoRow \in HealthRows
  BY DEF NoRow
<1> QED
  BY <1>1, <1>2 DEF Goes, TypeOK

\* A step that assigns nothing but mode keeps the types.
LEMMA ContinuesType ==
  ASSUME TypeOK, NEW h \in Heartbeats, NEW m \in Modes, NEW call \in PCs,
         Continues(h, m, call)
  PROVE  TypeOK'
<1>1. pc' \in [Heartbeats -> PCs] /\ sent' \in [Heartbeats -> HealthRows]
  BY GoesType DEF Continues, TypeOK
<1> QED
  BY <1>1 DEF Continues, TypeOK, rows, counts

\* The initial state is typed.
LEMMA InitType == Init => TypeOK
<1> SUFFICES ASSUME Init PROVE TypeOK
  OBVIOUS
<1>1. env.mode \in Modes
  BY DEF Init, Envs
<1> QED
  BY <1>1 DEF Init, TypeOK, NoRow

\* Every step from a typed state leads to a typed state.
LEMMA NextType == TypeOK /\ [Next]_vars => TypeOK'
<1> SUFFICES ASSUME TypeOK, [Next]_vars PROVE TypeOK'
  OBVIOUS
<1> USE DEF At
<1>1. ASSUME NEW h \in Heartbeats, Fire(h) PROVE TypeOK'
  BY <1>1, ContinuesType DEF Fire, TypeOK
<1>2. ASSUME NEW h \in Heartbeats, Gate(h) PROVE TypeOK'
  <2>1. CASE ControlBlocked(h)
    BY <2>1, ContinuesType DEF ControlBlocked
  <2>2. CASE ControlPassed(h)
    BY <2>2, ContinuesType DEF ControlPassed, TypeOK
  <2>3. CASE SelectNone(h)
    BY <2>3, ContinuesType DEF SelectNone
  <2>4. ASSUME NEW o \in Opps, SelectRejected(h, o) PROVE TypeOK'
    <3>1. pc' \in [Heartbeats -> PCs] /\ sent' \in [Heartbeats -> HealthRows]
      BY <2>4, GoesType DEF SelectRejected, Selects, TypeOK
    <3> QED
      BY <2>4, <3>1 DEF SelectRejected, Selects, TypeOK, rows, counts
  <2>5. ASSUME NEW o \in Opps, SelectReady(h, o) PROVE TypeOK'
    <3>1. pc' \in [Heartbeats -> PCs] /\ sent' \in [Heartbeats -> HealthRows]
      BY <2>5, GoesType DEF SelectReady, Selects, TypeOK
    <3>2. Selects(h, o) /\ mode' = mode
      BY <2>5 DEF SelectReady
    <3> QED
      BY <3>1, <3>2 DEF Selects, TypeOK, rows, counts
  <2>6. CASE GateRecorded(h)
    <3>1. CASE env.executionEnabled
      BY <2>6, <3>1, ContinuesType DEF GateRecorded, TypeOK
    <3>2. CASE ~env.executionEnabled
      BY <2>6, <3>2, ContinuesType DEF GateRecorded
    <3> QED
      BY <3>1, <3>2
  <2>7. CASE Recorded(h)
    BY <2>7, ContinuesType DEF Recorded, TypeOK
  <2>8. ASSUME NEW v \in BOOLEAN, NEW call \in PCs, SignerChecked(h, v),
               mode' \in Modes, Goes(h, call)
        PROVE  TypeOK'
    <3>1. signerVerification' \in BOOLEAN
      BY <2>8 DEF SignerChecked, TypeOK
    <3>2. pc' \in [Heartbeats -> PCs] /\ sent' \in [Heartbeats -> HealthRows]
      BY <2>8, <3>1, GoesType DEF SignerChecked, TypeOK
    <3> QED
      BY <2>8, <3>1, <3>2 DEF SignerChecked, TypeOK, rows, counts
  <2>9. CASE SignerRejected(h)
    BY <2>8, <2>9 DEF SignerRejected
  <2>10. CASE BridgeRejected(h)
    BY <2>8, <2>10 DEF BridgeRejected
  <2>11. CASE PlanValidated(h)
    BY <2>8, <2>11 DEF PlanValidated
  <2>12. CASE AdaptersCreated(h)
    BY <2>8, <2>12 DEF AdaptersCreated, TypeOK
  <2>13. CASE InventoryRejected(h)
    BY <2>13, ContinuesType DEF InventoryRejected
  <2>14. CASE InventoryVerified(h)
    <3>1. pc' \in [Heartbeats -> PCs] /\ sent' \in [Heartbeats -> HealthRows]
      BY <2>14, GoesType DEF InventoryVerified, TypeOK
    <3> QED
      BY <2>14, <3>1 DEF InventoryVerified, TypeOK, rows, counts
  <2> QED
    BY <1>2, <2>1, <2>2, <2>3, <2>4, <2>5, <2>6, <2>7, <2>9, <2>10, <2>11,
       <2>12, <2>13, <2>14 DEF Gate
<1>3. ASSUME NEW h \in Heartbeats, Execute(h) PROVE TypeOK'
  <2>1. ASSUME NEW s, opp[h] \in Opps => s \in OppStatuses, NEW call \in PCs,
               SetsStatus(h, s, call)
        PROVE  TypeOK'
    <3>1. status' \in [Opps -> OppStatuses]
      BY <2>1 DEF SetsStatus, TypeOK
    <3>2. pc' \in [Heartbeats -> PCs] /\ sent' \in [Heartbeats -> HealthRows]
      BY <2>1, GoesType DEF SetsStatus, TypeOK, process
    <3> QED
      BY <2>1, <3>1, <3>2 DEF SetsStatus, TypeOK, process, counts
  <2>2. CASE Mark(h)
    <3>1. opp[h] \in Opps => Claimed(status[opp[h]]) \in OppStatuses
      BY DEF Claimed, TypeOK
    <3> QED
      BY <2>1, <2>2, <3>1 DEF Mark
  <2>3. CASE Audit(h)
    <3>1. starts' \in [Opps -> Nat]
      <4>1. starts' = [starts EXCEPT ![opp[h]] = starts[opp[h]] + 1]
        BY <2>3 DEF Audit
      <4>2. CASE opp[h] \in Opps
        <5>1. starts[opp[h]] + 1 \in Nat
          BY <4>2 DEF TypeOK
        <5> QED
          BY <4>1, <5>1 DEF TypeOK
      <4>3. CASE opp[h] \notin Opps
        BY <4>1, <4>3 DEF TypeOK
      <4> QED
        BY <4>2, <4>3
    <3>2. ordered' \subseteq Opps \cup {NoOpp}
      <4>1. ordered' = ordered \cup {opp[h]} \/ ordered' = ordered
        <5> DEFINE accepted == PairAccepts(opp[h])
        <5>1. ordered' = IF accepted THEN ordered \cup {opp[h]} ELSE ordered
          BY <2>3 DEF Audit
        <5> HIDE DEF accepted
        <5> QED
          BY <5>1
      <4> QED
        BY <4>1 DEF TypeOK
    <3>3. pc' \in [Heartbeats -> PCs] /\ sent' \in [Heartbeats -> HealthRows]
      BY <2>3, GoesType DEF Audit, TypeOK, process
    <3> QED
      BY <2>3, <3>1, <3>2, <3>3 DEF Audit, TypeOK, process, counts
  <2>4. ASSUME NEW r \in Results, PairReturns(h, r) PROVE TypeOK'
    <3>1. pc' \in [Heartbeats -> PCs] /\ sent' \in [Heartbeats -> HealthRows]
      BY <2>4, GoesType DEF PairReturns, TypeOK
    <3> QED
      BY <2>4, <3>1 DEF PairReturns, TypeOK, rows, counts
  <2>5. CASE Settle(h)
    BY <2>1, <2>5 DEF Settle, FinalStatus
  <2>6. CASE SettleAudit(h)
    <3>1. mode' \in Modes
      BY <2>6 DEF SettleAudit, FinalMode, TypeOK
    <3>2. pc' \in [Heartbeats -> PCs] /\ sent' \in [Heartbeats -> HealthRows]
      BY <2>6, <3>1, GoesType DEF SettleAudit, TypeOK
    <3> QED
      BY <2>6, <3>1, <3>2 DEF SettleAudit, TypeOK, rows, counts
  <2> QED
    BY <1>3, <2>2, <2>3, <2>4, <2>5, <2>6 DEF Execute
<1>4. ASSUME NEW h \in Heartbeats, Report(h) PROVE TypeOK'
  <2>1. pc' \in [Heartbeats -> PCs] /\ sent' \in [Heartbeats -> HealthRows]
    BY <1>4, GoesType DEF Report, EndHeartbeat, TypeOK, process
  <2> QED
    BY <1>4, <2>1 DEF Report, EndHeartbeat, TypeOK, process, counts
<1>5. ASSUME NEW h \in Heartbeats, Failure(h) PROVE TypeOK'
  <2>1. Fails(h) => faults' \in Nat /\ restarts' \in Nat
    BY DEF Fails, TypeOK
  <2>2. CASE Throw(h)
    <3>1. pc' \in [Heartbeats -> PCs] /\ sent' \in [Heartbeats -> HealthRows]
      BY <2>2, GoesType DEF Throw, FailsOutsideTry, TypeOK
    <3> QED
      BY <2>1, <2>2, <3>1 DEF Throw, FailsOutsideTry, TypeOK, rows
  <2>3. CASE ThrowInSettle(h)
    <3>1. executing' \in BOOLEAN
      BY <2>3 DEF ThrowInSettle, TypeOK
    <3>2. pc' \in [Heartbeats -> PCs] /\ sent' \in [Heartbeats -> HealthRows]
      BY <2>3, GoesType DEF ThrowInSettle, TypeOK
    <3> QED
      BY <2>1, <2>3, <3>1, <3>2 DEF ThrowInSettle, TypeOK, rows
  <2>4. CASE ReportLost(h)
    <3>1. pc' \in [Heartbeats -> PCs] /\ sent' \in [Heartbeats -> HealthRows]
      BY <2>4, GoesType DEF ReportLost, EndHeartbeat, TypeOK, process
    <3>2. /\ opp' = [opp EXCEPT ![h] = NoOpp]
          /\ result' = [result EXCEPT ![h] = "none"]
          /\ Fails(h)
          /\ UNCHANGED <<env, process, rows, ordered>>
      BY <2>4 DEF ReportLost, EndHeartbeat
    <3>3. faults' \in Nat /\ restarts' \in Nat
      BY <2>1, <3>2
    <3>4. opp' \in [Heartbeats -> Opps \cup {NoOpp}]
          /\ result' \in [Heartbeats -> Results \cup {"none"}]
      BY <3>2 DEF TypeOK
    <3>5. UNCHANGED <<env, mode, executing, signerVerification, control, health,
                     status, live, starts, ordered>>
      BY <3>2 DEF process, rows
    <3> QED
      BY <3>1, <3>3, <3>4, <3>5 DEF TypeOK
  <2> QED
    BY <1>5, <2>2, <2>3, <2>4 DEF Failure
<1>6. ASSUME NEW e \in Envs, Restart(e) PROVE TypeOK'
  <2>1. e.mode \in Modes
    BY DEF Envs
  <2>2. /\ pc' \in [Heartbeats -> PCs]
        /\ opp' \in [Heartbeats -> Opps \cup {NoOpp}]
        /\ result' \in [Heartbeats -> Results \cup {"none"}]
        /\ sent' \in [Heartbeats -> HealthRows]
    BY <1>6 DEF Restart, NoRow
  <2>3. restarts' \in Nat /\ UNCHANGED <<control, health, status, live, starts>>
    BY <1>6 DEF Restart, TypeOK, rows
  <2> QED
    BY <1>6, <2>1, <2>2, <2>3 DEF Restart, TypeOK
<1>7. CASE Arm
  BY <1>7 DEF Arm, TypeOK, process, tasks, counts
<1>8. ASSUME NEW o \in Opps, Expire(o) PROVE TypeOK'
  BY <1>8 DEF Expire, TypeOK, process, tasks, counts
<1>9. CASE UNCHANGED vars
  BY <1>9 DEF vars, TypeOK, process, tasks, rows, counts
<1> QED
  BY <1>1, <1>2, <1>3, <1>4, <1>5, <1>6, <1>7, <1>8, <1>9 DEF Next

\* The worker's variables and the rows it shares keep their types.
THEOREM Typing == Spec => []TypeOK
<1> QED
  BY InitType, NextType, PTL DEF Spec
-----------------------------------------------------------------------------
(* The gates of the refresh                                                *)

\* From the insert of EXECUTION_GATE_READY on a heartbeat holds a row that
\* passed the gates; from the balance check on it is a pair of exchanges.
Committed == {"inventory"} \cup Claiming \cup Trading
Gated == Gating \cup Committed

HoldsGated(h) ==
  /\ opp[h] \in Opps
  /\ Attr[opp[h]].source = env.capitalSource
  /\ Attr[opp[h]].sized /\ Attr[opp[h]].profitable
  /\ control = "ARMED"
HoldsPair(h) == Attr[opp[h]].cexPair /\ env.capitalSource # Funded

GateInv ==
  /\ NeverOrders
  /\ StartsAreGated
  /\ \A h \in Heartbeats : /\ pc[h] \in Gated => HoldsGated(h)
                           /\ pc[h] \in Committed => HoldsPair(h)
                           /\ pc[h] = "select" => control = "ARMED"

\* Going on to a call that needs the gates with a row that passed them.
LEMMA GateFrame ==
  ASSUME TypeOK, GateInv, NEW h \in Heartbeats, NEW call \in PCs, Goes(h, call),
         UNCHANGED <<env, control, starts, ordered>>,
         \A k \in Heartbeats : k # h => opp'[k] = opp[k],
         call = "select" => control = "ARMED",
         call \in Gated => HoldsGated(h)', call \in Committed => HoldsPair(h)'
  PROVE  GateInv'
<1>1. \A k \in Heartbeats : pc'[k] = IF k = h THEN call ELSE pc[k]
  BY DEF Goes, TypeOK
<1>2. NeverOrders' /\ StartsAreGated'
  BY DEF GateInv, NeverOrders, StartsAreGated
<1>3. ASSUME NEW k \in Heartbeats
      PROVE  /\ pc'[k] \in Gated => HoldsGated(k)'
             /\ pc'[k] \in Committed => HoldsPair(k)'
             /\ pc'[k] = "select" => control' = "ARMED"
  <2>1. CASE k = h
    BY <1>1, <2>1
  <2>2. CASE k # h
    BY <1>1, <2>2 DEF GateInv, HoldsGated, HoldsPair
  <2> QED
    BY <2>1, <2>2
<1> QED
  BY <1>2, <1>3 DEF GateInv

\* Going on with the row that is held, to a call that needs no further gate.
LEMMA GateMove ==
  ASSUME TypeOK, GateInv, NEW h \in Heartbeats, NEW call \in PCs, Goes(h, call),
         UNCHANGED <<env, control, starts, ordered, opp>>,
         call = "select" => control = "ARMED",
         call \in Gated => pc[h] \in Gated,
         call \in Committed => pc[h] \in Committed
  PROVE  GateInv'
<1>1. call \in Gated => HoldsGated(h)'
  BY DEF GateInv, HoldsGated
<1>2. call \in Committed => HoldsPair(h)'
  BY DEF GateInv, HoldsPair
<1> QED
  BY <1>1, <1>2, GateFrame

\* Every step keeps GateInv.
LEMMA GateStep == TypeOK /\ GateInv /\ [Next]_vars => GateInv'
<1> SUFFICES ASSUME TypeOK, GateInv, [Next]_vars PROVE GateInv'
  OBVIOUS
<1> USE DEF At, Gated, Committed
<1>1. ASSUME NEW h \in Heartbeats, NEW m, NEW call \in PCs, Continues(h, m, call),
             call = "select" => control = "ARMED",
             call \in Gated => pc[h] \in Gated,
             call \in Committed => pc[h] \in Committed
      PROVE  GateInv'
  BY <1>1, GateMove DEF Continues, rows
<1>2. ASSUME NEW h \in Heartbeats, Fire(h) PROVE GateInv'
  BY <1>1, <1>2 DEF Fire
<1>3. ASSUME NEW h \in Heartbeats, Gate(h) PROVE GateInv'
  <2>1. CASE ControlBlocked(h)
    BY <1>1, <2>1 DEF ControlBlocked
  <2>2. CASE ControlPassed(h)
    BY <1>1, <2>2 DEF ControlPassed, LiveArmed
  <2>3. CASE SelectNone(h)
    BY <1>1, <2>3 DEF SelectNone
  <2>4. ASSUME NEW o \in Opps, SelectRejected(h, o) PROVE GateInv'
    <3>1. \A k \in Heartbeats : k # h => opp'[k] = opp[k]
      BY <2>4 DEF SelectRejected, Selects, TypeOK
    <3>2. UNCHANGED <<env, control, starts, ordered>> /\ Goes(h, "record")
      BY <2>4 DEF SelectRejected, Selects, rows
    <3> QED
      BY <3>1, <3>2, GateFrame
  <2>5. ASSUME NEW o \in Opps, SelectReady(h, o) PROVE GateInv'
    <3>1. opp' = [opp EXCEPT ![h] = o]
      BY <2>5 DEF SelectReady, Selects
    <3>2. UNCHANGED <<env, control, starts, ordered>> /\ Goes(h, "ready")
      BY <2>5 DEF SelectReady, Selects, rows
    <3>3. pc[h] = "select" /\ Attr[o].profitable /\ GatesPass(o)
      BY <2>5 DEF SelectReady, Selects, Best, Candidate
    <3>4. control = "ARMED"
      BY <3>3 DEF GateInv
    <3> QED
      BY <3>1, <3>2, <3>3, <3>4, GateFrame DEF HoldsGated, GatesPass, TypeOK
  <2>6. CASE GateRecorded(h)
    BY <1>1, <2>6 DEF GateRecorded
  <2>7. CASE Recorded(h)
    BY <1>1, <2>7 DEF Recorded
  <2>8. ASSUME NEW v, SignerChecked(h, v)
        PROVE  UNCHANGED <<env, control, starts, ordered, opp>> /\ pc[h] = "signer"
    BY <2>8 DEF SignerChecked, rows
  <2>9. CASE SignerRejected(h)
    BY <2>8, <2>9, GateMove DEF SignerRejected
  <2>10. CASE BridgeRejected(h)
    BY <2>8, <2>10, GateMove DEF BridgeRejected
  <2>11. CASE PlanValidated(h)
    BY <2>8, <2>11, GateMove DEF PlanValidated
  <2>12. CASE AdaptersCreated(h)
    <3>1. Goes(h, "inventory") /\ SignerChecked(h, TRUE) /\ HoldsPair(h)
      BY <2>12 DEF AdaptersCreated, HoldsPair
    <3>2. HoldsGated(h)
      BY <2>8, <3>1 DEF GateInv
    <3>3. HoldsGated(h)' /\ HoldsPair(h)'
      BY <2>8, <3>1, <3>2 DEF HoldsGated, HoldsPair
    <3> QED
      BY <2>8, <3>1, <3>3, GateFrame
  <2>13. CASE InventoryRejected(h)
    BY <1>1, <2>13 DEF InventoryRejected
  <2>14. CASE InventoryVerified(h)
    BY <2>14, GateMove DEF InventoryVerified, rows
  <2> QED
    BY <1>3, <2>1, <2>2, <2>3, <2>4, <2>5, <2>6, <2>7, <2>9, <2>10, <2>11,
       <2>12, <2>13, <2>14 DEF Gate
<1>4. ASSUME NEW h \in Heartbeats, Execute(h) PROVE GateInv'
  <2>1. CASE Mark(h)
    BY <2>1, GateMove DEF Mark, SetsStatus
  <2>2. CASE Audit(h)
    <3>1. HoldsGated(h) /\ HoldsPair(h)
      BY <2>2 DEF Audit, GateInv
    <3>2. starts' = [starts EXCEPT ![opp[h]] = starts[opp[h]] + 1]
      BY <2>2 DEF Audit
    <3>3. ~PairAccepts(opp[h])
      BY <3>1 DEF PairAccepts, HoldsGated, HoldsPair
    <3>4. UNCHANGED <<env, control, ordered, opp>> /\ Goes(h, "pair")
      BY <2>2, <3>3 DEF Audit
    <3>5. \A k \in Heartbeats : pc'[k] = IF k = h THEN "pair" ELSE pc[k]
      BY <3>4 DEF Goes, TypeOK
    <3>6. StartsAreGated'
      <4> SUFFICES ASSUME NEW o \in Opps, starts'[o] > 0
                   PROVE  /\ control = "ARMED"
                          /\ Attr[o].cexPair /\ Attr[o].sized /\ Attr[o].profitable
                          /\ Attr[o].source # Funded
        BY <3>4 DEF StartsAreGated
      <4>1. CASE o = opp[h]
        BY <3>1, <4>1 DEF HoldsGated, HoldsPair
      <4>2. CASE o # opp[h]
        BY <3>2, <4>2 DEF GateInv, StartsAreGated, TypeOK
      <4> QED
        BY <4>1, <4>2
    <3>7. ASSUME NEW k \in Heartbeats
          PROVE  /\ pc'[k] \in Gated => HoldsGated(k)'
                 /\ pc'[k] \in Committed => HoldsPair(k)'
                 /\ pc'[k] = "select" => control' = "ARMED"
      BY <3>1, <3>4, <3>5 DEF GateInv, HoldsGated, HoldsPair
    <3> QED
      BY <3>4, <3>6, <3>7 DEF GateInv, NeverOrders
  <2>3. ASSUME NEW r \in Results, PairReturns(h, r) PROVE GateInv'
    BY <2>3, GateMove DEF PairReturns, rows
  <2>4. CASE Settle(h)
    BY <2>4, GateMove DEF Settle, SetsStatus
  <2>5. CASE SettleAudit(h)
    BY <2>5, GateMove DEF SettleAudit, rows
  <2> QED
    BY <1>4, <2>1, <2>2, <2>3, <2>4, <2>5 DEF Execute
<1>5. ASSUME NEW h \in Heartbeats, EndHeartbeat(h),
             UNCHANGED <<env, control, starts, ordered>>
      PROVE  GateInv'
  <2>1. \A k \in Heartbeats : k # h => opp'[k] = opp[k]
    BY <1>5 DEF EndHeartbeat, TypeOK
  <2>2. Goes(h, "idle")
    BY <1>5 DEF EndHeartbeat
  <2> QED
    BY <1>5, <2>1, <2>2, GateFrame
<1>6. ASSUME NEW h \in Heartbeats, Report(h) PROVE GateInv'
  BY <1>5, <1>6 DEF Report
<1>7. ASSUME NEW h \in Heartbeats, Failure(h) PROVE GateInv'
  <2>1. CASE Throw(h)
    BY <2>1, GateMove DEF Throw, FailsOutsideTry, rows
  <2>2. CASE ThrowInSettle(h)
    BY <2>2, GateMove DEF ThrowInSettle, rows
  <2>3. CASE ReportLost(h)
    BY <1>5, <2>3 DEF ReportLost, rows
  <2> QED
    BY <1>7, <2>1, <2>2, <2>3 DEF Failure
<1>8. ASSUME NEW e \in Envs, Restart(e) PROVE GateInv'
  <2>1. \A h \in Heartbeats : pc'[h] = "idle"
    BY <1>8 DEF Restart
  <2> QED
    BY <1>8, <2>1 DEF Restart, GateInv, NeverOrders, StartsAreGated, rows
<1>9. CASE Arm
  BY <1>9 DEF Arm, GateInv, NeverOrders, StartsAreGated, HoldsGated, HoldsPair, tasks
<1>10. ASSUME NEW o \in Opps, Expire(o) PROVE GateInv'
  BY <1>10 DEF Expire, GateInv, NeverOrders, StartsAreGated, HoldsGated,
               HoldsPair, tasks
<1>11. CASE UNCHANGED vars
  BY <1>11 DEF vars, GateInv, NeverOrders, StartsAreGated, HoldsGated,
               HoldsPair, tasks, rows
<1> QED
  BY <1>2, <1>3, <1>4, <1>6, <1>7, <1>8, <1>9, <1>10, <1>11 DEF Next

\* GateInv holds in every reachable state.
LEMMA GateInvariant == Spec => []GateInv
<1>1. Init => GateInv
  BY DEF Init, GateInv, NeverOrders, StartsAreGated, Gated, Committed
<1> QED
  BY <1>1, Typing, GateStep, PTL DEF Spec

\* No order of a pair reaches a venue (worker-core 207, cex-pair 59).
THEOREM NoOrders == Spec => []NeverOrders
<1>1. GateInv => NeverOrders
  BY DEF GateInv
<1> QED
  BY <1>1, GateInvariant, PTL

\* Whatever was announced as started had passed every gate (worker-core 133,
\* 168, 177, 207, 217).
THEOREM GatedStarts == Spec => []StartsAreGated
<1>1. GateInv => StartsAreGated
  BY DEF GateInv
<1> QED
  BY <1>1, GateInvariant, PTL

-----------------------------------------------------------------------------
(* Final statuses                                                          *)

\* Only the two updates of worker-core 259 and 273 or 278 write a status.
LEMMA StatusFrame ==
  [Next]_vars => \/ status' = status
                 \/ \E h \in Heartbeats : Mark(h) \/ Settle(h)
<1> SUFFICES ASSUME [Next]_vars, ~\E h \in Heartbeats : Mark(h) \/ Settle(h)
             PROVE  status' = status
  OBVIOUS
<1>1. ASSUME NEW h \in Heartbeats, Fire(h) \/ Gate(h) PROVE status' = status
  BY <1>1 DEF Fire, Gate, ControlBlocked, ControlPassed, SelectNone, SelectRejected,
     SelectReady, Selects, GateRecorded, Recorded, SignerRejected, BridgeRejected,
     PlanValidated, AdaptersCreated, SignerChecked, InventoryRejected,
     InventoryVerified, Continues, rows
<1>2. ASSUME NEW h \in Heartbeats, Execute(h) PROVE status' = status
  BY <1>2 DEF Execute, Audit, PairReturns, SettleAudit, rows
<1>3. ASSUME NEW h \in Heartbeats, Report(h) \/ Failure(h) PROVE status' = status
  BY <1>3 DEF Report, Failure, Throw, FailsOutsideTry, ThrowInSettle, ReportLost, rows
<1>4. CASE (\E e \in Envs : Restart(e)) \/ Arm \/ (\E o \in Opps : Expire(o))
  BY <1>4 DEF Restart, Arm, Expire, rows
<1>5. CASE UNCHANGED vars
  BY <1>5 DEF vars, rows
<1> QED
  BY <1>1, <1>2, <1>3, <1>4, <1>5 DEF Next

\* A final status is only ever replaced by a final status (worker-core 259,
\* 273, 278), however the heartbeats overlap.
THEOREM FinalStays == Spec => TerminalStays
<1>1. ASSUME TypeOK, [Next]_vars, NEW o \in Opps, status[o] \in Terminal
      PROVE  status'[o] \in Terminal
  <2>1. CASE status' = status
    BY <1>1, <2>1
  <2>2. ASSUME NEW h \in Heartbeats, Mark(h) PROVE status'[o] \in Terminal
    <3>1. status' = [status EXCEPT ![opp[h]] = Claimed(status[opp[h]])]
      BY <2>2 DEF Mark, SetsStatus
    <3>2. status'[o] = status[o] \/ status'[o] = Claimed(status[o])
      BY <3>1 DEF TypeOK
    <3> QED
      BY <1>1, <3>2 DEF Claimed
  <2>3. ASSUME NEW h \in Heartbeats, Settle(h) PROVE status'[o] \in Terminal
    <3>1. status' = [status EXCEPT ![opp[h]] = FinalStatus(result[h])]
      BY <2>3 DEF Settle, SetsStatus
    <3>2. FinalStatus(result[h]) \in Terminal
      BY DEF FinalStatus
    <3> QED
      BY <1>1, <3>1, <3>2 DEF TypeOK
  <2> QED
    BY <1>1, <2>1, <2>2, <2>3, StatusFrame
<1>2. TypeOK /\ [Next]_vars => [\A o \in Opps : status[o] \in Terminal => status'[o] \in Terminal]_vars
  BY <1>1
<1> QED
  BY <1>2, Typing, PTL DEF Spec, TerminalStays

-----------------------------------------------------------------------------
(* Heartbeats that do not overlap                                          *)

Serial == \A h1, h2 \in Heartbeats : h1 = h2

\* A row is started once, and from then on it is not EXECUTABLE; a heartbeat
\* on its way to the update holds an EXECUTABLE row, and after the update one
\* that was never started; the latch belongs to the heartbeat that executes.
SerialInv ==
  /\ \A o \in Opps : starts[o] \in {0, 1} /\ (starts[o] = 1 => status[o] # "EXECUTABLE")
  /\ \A h \in Heartbeats :
       /\ pc[h] \in Gating \cup {"inventory", "mark"} => status[opp[h]] = "EXECUTABLE"
       /\ pc[h] = "audit" => starts[opp[h]] = 0 /\ status[opp[h]] # "EXECUTABLE"
  /\ executing => \E h \in Heartbeats :
                    \/ pc[h] \in Claiming \cup Trading
                    \/ pc[h] \in {"idle", "report"} /\ mode = "EMERGENCY_STOP"

\* A step of the only heartbeat that writes neither rows nor the latch.
LEMMA SerialMove ==
  ASSUME TypeOK, Serial, SerialInv, NEW h \in Heartbeats, NEW call \in PCs,
         Goes(h, call), UNCHANGED <<executing, status, starts>>,
         call \in Gating \cup {"inventory", "mark"} => status[opp'[h]] = "EXECUTABLE",
         call = "audit" => FALSE,
         ~executing \/ call \in Trading \/ (call \in {"idle", "report"} /\ mode' = "EMERGENCY_STOP")
  PROVE  SerialInv'
<1>1. \A k \in Heartbeats : k = h /\ pc'[k] = call
  BY DEF Goes, TypeOK, Serial
<1>2. executing' => \E k \in Heartbeats :
                    \/ pc'[k] \in Claiming \cup Trading
                    \/ pc'[k] \in {"idle", "report"} /\ mode' = "EMERGENCY_STOP"
  BY <1>1
<1> QED
  BY <1>1, <1>2 DEF SerialInv

\* While heartbeats do not overlap every step keeps SerialInv.
LEMMA SerialStep == Serial /\ TypeOK /\ GateInv /\ SerialInv /\ [Next]_vars => SerialInv'
<1> SUFFICES ASSUME Serial, TypeOK, GateInv, SerialInv, [Next]_vars PROVE SerialInv'
  OBVIOUS
<1> USE DEF At
\* The latch is set only while the heartbeat executes or has ended.
<1>1. ASSUME NEW h \in Heartbeats, executing
      PROVE  \/ pc[h] \in Claiming \cup Trading
             \/ pc[h] \in {"idle", "report"} /\ mode = "EMERGENCY_STOP"
  BY <1>1 DEF SerialInv, Serial
<1>2. ASSUME NEW h \in Heartbeats, NEW m, NEW call \in PCs, Continues(h, m, call),
             call \in Gating \cup {"inventory"} => pc[h] \in Gating,
             call \notin Claiming,
             \/ pc[h] \notin {"idle", "report"} \cup Claiming \cup Trading
             \/ pc[h] = "idle" /\ call = (IF executing THEN "report" ELSE "control") /\ m = mode
      PROVE  SerialInv'
  <2>1. UNCHANGED <<executing, status, starts, opp>> /\ Goes(h, call) /\ mode' = m
    BY <1>2 DEF Continues, rows
  <2>2. call \in Gating \cup {"inventory"} => status[opp'[h]] = "EXECUTABLE"
    BY <1>2, <2>1 DEF SerialInv
  <2>3. ~executing \/ (call = "report" /\ mode' = "EMERGENCY_STOP")
    BY <1>1, <1>2, <2>1
  <2> QED
    BY <1>2, <2>1, <2>2, <2>3, SerialMove
<1>3. ASSUME NEW h \in Heartbeats, Fire(h) PROVE SerialInv'
  BY <1>2, <1>3 DEF Fire
<1>4. ASSUME NEW h \in Heartbeats, Gate(h) PROVE SerialInv'
  <2>1. CASE ControlBlocked(h)
    BY <1>2, <2>1 DEF ControlBlocked
  <2>2. CASE ControlPassed(h)
    BY <1>2, <2>2 DEF ControlPassed
  <2>3. CASE SelectNone(h)
    BY <1>2, <2>3 DEF SelectNone
  <2>4. ASSUME NEW o \in Opps, SelectRejected(h, o) PROVE SerialInv'
    <3>1. pc[h] = "select" /\ Goes(h, "record") /\ UNCHANGED <<executing, status, starts>>
      BY <2>4 DEF SelectRejected, Selects, rows
    <3> QED
      BY <1>1, <3>1, SerialMove
  <2>5. ASSUME NEW o \in Opps, SelectReady(h, o) PROVE SerialInv'
    <3>1. pc[h] = "select" /\ Goes(h, "ready") /\ UNCHANGED <<executing, status, starts>>
      BY <2>5 DEF SelectReady, Selects, rows
    <3>2. opp'[h] = o /\ status[o] = "EXECUTABLE"
      BY <2>5 DEF SelectReady, Selects, Best, Candidate, TypeOK
    <3> QED
      BY <1>1, <3>1, <3>2, SerialMove
  <2>6. CASE GateRecorded(h)
    BY <1>2, <2>6 DEF GateRecorded
  <2>7. CASE Recorded(h)
    BY <1>2, <2>7 DEF Recorded
  <2>8. ASSUME NEW v, SignerChecked(h, v)
        PROVE  UNCHANGED <<executing, status, starts, opp>> /\ pc[h] = "signer" /\ ~executing
    BY <1>1, <2>8 DEF SignerChecked, rows
  <2>9. CASE SignerRejected(h) \/ BridgeRejected(h) \/ PlanValidated(h)
    BY <2>8, <2>9, SerialMove DEF SignerRejected, BridgeRejected, PlanValidated
  <2>10. CASE AdaptersCreated(h)
    <3>1. Goes(h, "inventory") /\ SignerChecked(h, TRUE)
      BY <2>10 DEF AdaptersCreated
    <3>2. status[opp'[h]] = "EXECUTABLE"
      BY <2>8, <3>1 DEF SerialInv
    <3> QED
      BY <2>8, <3>1, <3>2, SerialMove
  <2>11. CASE InventoryRejected(h)
    BY <1>2, <2>11 DEF InventoryRejected
  <2>12. CASE InventoryVerified(h)
    <3>1. pc[h] = "inventory" /\ Goes(h, "mark") /\ UNCHANGED <<status, starts, opp>>
      BY <2>12 DEF InventoryVerified, rows
    <3>2. \A k \in Heartbeats : k = h /\ pc'[k] = "mark"
      BY <3>1 DEF Goes, TypeOK, Serial
    <3> QED
      BY <3>1, <3>2 DEF SerialInv
  <2> QED
    BY <1>4, <2>1, <2>2, <2>3, <2>4, <2>5, <2>6, <2>7, <2>9, <2>10, <2>11, <2>12 DEF Gate
<1>5. ASSUME NEW h \in Heartbeats, Execute(h) PROVE SerialInv'
  <2>1. CASE Mark(h)
    <3>1. /\ pc[h] = "mark" /\ Goes(h, "audit")
          /\ UNCHANGED <<executing, starts, opp>>
          /\ status' = [status EXCEPT ![opp[h]] = Claimed(status[opp[h]])]
      BY <2>1 DEF Mark, SetsStatus, process
    <3>2. \A k \in Heartbeats : k = h /\ pc'[k] = "audit"
      BY <3>1 DEF Goes, TypeOK, Serial
    <3>3. opp[h] \in Opps /\ status[opp[h]] = "EXECUTABLE"
      BY <3>1 DEF SerialInv, GateInv, Gated, Committed, HoldsGated
    <3>4. status' = [status EXCEPT ![opp[h]] = "EXECUTING"]
      BY <3>1, <3>3 DEF Claimed
    <3>5. starts[opp[h]] = 0
      BY <3>3 DEF SerialInv
    <3> QED
      BY <3>1, <3>2, <3>3, <3>4, <3>5 DEF SerialInv, TypeOK
  <2>2. CASE Audit(h)
    <3>1. /\ pc[h] = "audit" /\ Goes(h, "pair")
          /\ UNCHANGED <<executing, status, opp>>
          /\ starts' = [starts EXCEPT ![opp[h]] = starts[opp[h]] + 1]
      BY <2>2 DEF Audit, process
    <3>2. \A k \in Heartbeats : k = h /\ pc'[k] = "pair"
      BY <3>1 DEF Goes, TypeOK, Serial
    <3>3. starts[opp[h]] = 0 /\ status[opp[h]] # "EXECUTABLE"
      BY <3>1 DEF SerialInv
    <3>4. starts' = [starts EXCEPT ![opp[h]] = 1]
      BY <3>1, <3>3
    <3> QED
      BY <3>1, <3>2, <3>3, <3>4 DEF SerialInv, TypeOK
  <2>3. ASSUME NEW r \in Results, PairReturns(h, r) PROVE SerialInv'
    BY <2>3, SerialMove DEF PairReturns, rows
  <2>4. CASE Settle(h)
    <3>1. /\ pc[h] = "settle" /\ Goes(h, "settleAudit")
          /\ UNCHANGED <<executing, starts>>
          /\ status' = [status EXCEPT ![opp[h]] = FinalStatus(result[h])]
      BY <2>4 DEF Settle, SetsStatus, process
    <3>2. \A k \in Heartbeats : k = h /\ pc'[k] = "settleAudit"
      BY <3>1 DEF Goes, TypeOK, Serial
    <3>3. FinalStatus(result[h]) # "EXECUTABLE"
      BY DEF FinalStatus
    <3> QED
      BY <3>1, <3>2, <3>3 DEF SerialInv, TypeOK
  <2>5. CASE SettleAudit(h)
    <3>1. Goes(h, "report") /\ ~executing' /\ UNCHANGED <<status, starts>>
      BY <2>5 DEF SettleAudit, rows
    <3>2. \A k \in Heartbeats : k = h /\ pc'[k] = "report"
      BY <3>1 DEF Goes, TypeOK, Serial
    <3> QED
      BY <3>1, <3>2 DEF SerialInv
  <2> QED
    BY <1>5, <2>1, <2>2, <2>3, <2>4, <2>5 DEF Execute
<1>6. ASSUME NEW h \in Heartbeats, EndHeartbeat(h),
             UNCHANGED <<process, status, starts>>
      PROVE  SerialInv'
  <2>1. Goes(h, "idle") /\ pc[h] = "report" /\ mode' = mode /\ executing' = executing
    BY <1>6 DEF EndHeartbeat, process
  <2> QED
    BY <1>1, <1>6, <2>1, SerialMove
<1>7. ASSUME NEW h \in Heartbeats, Report(h) PROVE SerialInv'
  BY <1>6, <1>7 DEF Report
<1>8. ASSUME NEW h \in Heartbeats, Failure(h) PROVE SerialInv'
  <2>1. CASE Throw(h)
    BY <2>1, SerialMove DEF Throw, FailsOutsideTry, rows
  <2>2. CASE ThrowInSettle(h)
    <3>1. /\ pc[h] \in Trading /\ mode' = "EMERGENCY_STOP"
          /\ UNCHANGED <<status, starts>>
          /\ executing' => executing /\ result[h] # "THROW"
          /\ Goes(h, IF result[h] = "THROW" THEN "report" ELSE "settle")
      BY <2>2 DEF ThrowInSettle, rows
    <3>2. \A k \in Heartbeats : k = h /\ pc'[k] \in {"report", "settle"}
      BY <3>1 DEF Goes, TypeOK, Serial
    <3> QED
      BY <3>1, <3>2 DEF SerialInv
  <2>3. CASE ReportLost(h)
    BY <1>6, <2>3 DEF ReportLost, rows
  <2> QED
    BY <1>8, <2>1, <2>2, <2>3 DEF Failure
<1>9. ASSUME NEW e \in Envs, Restart(e) PROVE SerialInv'
  BY <1>9 DEF Restart, SerialInv, rows
<1>10. CASE UNCHANGED <<executing, mode, status, starts, pc, opp>>
  BY <1>10 DEF SerialInv
<1>11. CASE Arm \/ \E o \in Opps : Expire(o)
  BY <1>10, <1>11 DEF Arm, Expire, process, tasks, rows
<1>12. CASE UNCHANGED vars
  BY <1>10, <1>12 DEF vars, process, tasks, rows
<1> QED
  BY <1>3, <1>4, <1>5, <1>7, <1>8, <1>9, <1>11, <1>12 DEF Next

\* SerialInv holds in every reachable state while heartbeats do not overlap.
LEMMA SerialInvariant == ASSUME Serial PROVE Spec => []SerialInv
<1>1. Init => SerialInv
  BY DEF Init, SerialInv
<1>2. TypeOK /\ GateInv /\ SerialInv /\ [Next]_vars => SerialInv'
  BY SerialStep
<1> QED
  BY <1>1, <1>2, Typing, GateInvariant, PTL DEF Spec

\* A row is started at most once while heartbeats do not overlap, whatever
\* crashes and fails (worker-core 151, 256, 259).
THEOREM StartedOnce == ASSUME Serial PROVE Spec => []AtMostOnce
<1>1. SerialInv => AtMostOnce
  BY DEF SerialInv, AtMostOnce
<1> QED
  BY <1>1, SerialInvariant, PTL

\* A latch that nobody will release comes with EMERGENCY_STOP while
\* heartbeats do not overlap (worker-core 256-260, 296).
THEOREM OrphanStops == ASSUME Serial PROVE Spec => []OrphanLatchStops
<1>1. SerialInv => OrphanLatchStops
  BY DEF SerialInv, OrphanLatchStops
<1> QED
  BY <1>1, SerialInvariant, PTL

=============================================================================
