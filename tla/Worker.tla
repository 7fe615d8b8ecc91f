------------------------------- MODULE Worker -------------------------------
(***************************************************************************)
(* The execution worker, apps/worker/src/worker-core.ts: the module-level  *)
(* variables of one Node process, the heartbeat that setInterval fires     *)
(* whether or not the previous one has finished, the rows it shares with   *)
(* PostgreSQL, the operator's routes of apps/web, and a crash followed by  *)
(* the restart that systemd performs.                                      *)
(*                                                                         *)
(* JavaScript runs to completion between two awaits, so one action is the  *)
(* completion of one awaited call together with the code that follows it   *)
(* up to the next await.  pc[h] names the call that heartbeat h awaits.    *)
(***************************************************************************)
EXTENDS Naturals, FiniteSets

CONSTANTS
  Heartbeats,   \* heartbeats that can be in flight at once
  Opps,         \* rows of the opportunities table
  NoOpp,        \* a heartbeat that holds no opportunity
  Attr,         \* the columns of a row that never change
  Sources,      \* capital sources (packages/types)
  MaxFaults,    \* bound: failed database statements
  MaxRestarts   \* bound: crashes of the process

Funded == "FUNDED_INVENTORY"

ASSUME OppsAssumption == NoOpp \notin Opps
ASSUME SourcesAssumption == Funded \in Sources
ASSUME AttrAssumption ==
  Attr \in [Opps -> [source: Sources, cexPair: BOOLEAN, sized: BOOLEAN,
                     profitable: BOOLEAN, ratio: Nat]]
ASSUME BoundsAssumption == MaxFaults \in Nat /\ MaxRestarts \in Nat

VARIABLES
  env,                 \* environment variables the process was started with
  mode,                \* let mode
  executing,           \* let executing
  signerVerification,  \* signerVerification # null
  pc,                  \* the call each heartbeat awaits
  opp,                 \* the opportunity each heartbeat holds
  result,              \* what executePair gave that heartbeat
  sent,                \* the health row the heartbeat has sent
  control,             \* system_health row 'trading_control'
  health,              \* system_health row 'worker'
  status,              \* opportunities.status
  live,                \* opportunities.expires_at > now()
  starts,              \* audit_logs rows TRADE_EXECUTION_STARTED
  ordered,             \* opportunities for which orders reached a venue
  faults, restarts     \* bounded counters

process == <<mode, executing, signerVerification>>
tasks   == <<pc, opp, result, sent>>
rows    == <<control, health, status, live, starts>>
counts  == <<faults, restarts>>
vars    == <<env, process, tasks, rows, ordered, counts>>

\* What index.ts leaves in process.env for worker-core: LIVE only when the
\* startup gate allowed it, and the gate wants execution and a signer.
Envs ==
  {e \in [mode: {"STOPPED", "DRY_RUN", "LIVE"}, executionEnabled: BOOLEAN,
          capitalSource: Sources, signer: BOOLEAN] :
     e.mode = "LIVE" => e.executionEnabled /\ e.signer}

Claiming == {"mark", "audit"}              \* latch set, outside the try block
Trading  == {"pair", "settle", "settleAudit"}
Gating   == {"ready", "signer"}
PCs == {"idle", "control", "select", "record", "inventory", "report"}
         \cup Gating \cup Claiming \cup Trading

Results     == {"COMPLETED", "HEDGE_OR_EXIT", "FAILED", "TIMEOUT", "THROW"}
Terminal    == {"COMPLETED", "PARTIAL", "FAILED"}
OppStatuses == {"EXECUTABLE", "EXECUTING"} \cup Terminal
Modes == {"STOPPED", "DRY_RUN", "LIVE", "ARMED", "ARMED_EXECUTION_READY",
          "EXECUTING", "EMERGENCY_STOP"}

HealthRows == [status: Modes, signer: {"VERIFIED", "CONFIGURED", "NOT_CONFIGURED"}]
NoRow == [status |-> "STOPPED", signer |-> "NOT_CONFIGURED"]

Init ==
  /\ env \in Envs
  /\ mode = env.mode
  /\ executing = FALSE
  /\ signerVerification = FALSE
  /\ pc = [h \in Heartbeats |-> "idle"]
  /\ opp = [h \in Heartbeats |-> NoOpp]
  /\ result = [h \in Heartbeats |-> "none"]
  /\ sent = [h \in Heartbeats |-> NoRow]
  /\ control \in {"STOPPED", "ARMED"}
  /\ health = NoRow
  /\ status = [o \in Opps |-> "EXECUTABLE"]
  /\ live = [o \in Opps |-> TRUE]
  /\ starts = [o \in Opps |-> 0]
  /\ ordered = {}
  /\ faults = 0
  /\ restarts = 0

\* The row of worker-core 297 holds the values the process has at the moment
\* the statement is sent; the statement takes effect when it is answered.
SignerStatus == IF signerVerification THEN "VERIFIED"
                ELSE IF env.signer THEN "CONFIGURED" ELSE "NOT_CONFIGURED"
HealthRow == [status |-> mode, signer |-> SignerStatus]

At(h, call) == pc[h] = call
Goes(h, call) ==
  /\ pc' = [pc EXCEPT ![h] = call]
  /\ sent' = [sent EXCEPT ![h] = IF call = "report" THEN HealthRow' ELSE NoRow]
\* Continues to the next call, having assigned nothing but mode.
Continues(h, m, call) ==
  /\ mode' = m
  /\ UNCHANGED <<env, executing, signerVerification, opp, result, rows, ordered, counts>>
  /\ Goes(h, call)

-----------------------------------------------------------------------------
(* heartbeat() and the early returns of refreshControlAndOpportunity()     *)

Fire(h) ==
  /\ At(h, "idle")
  /\ Continues(h, mode, IF executing THEN "report" ELSE "control")

LiveArmed == env.mode = "LIVE" /\ control = "ARMED"

ControlBlocked(h) ==
  /\ At(h, "control")
  /\ ~(LiveArmed /\ env.signer)
  /\ Continues(h, IF LiveArmed \/ env.mode = "DRY_RUN" THEN "DRY_RUN" ELSE "STOPPED",
               "report")

ControlPassed(h) ==
  /\ At(h, "control")
  /\ LiveArmed /\ env.signer
  /\ Continues(h, mode, "select")

-----------------------------------------------------------------------------
(* The candidate query and the gates on the row it returns                 *)

Candidate(o) == status[o] = "EXECUTABLE" /\ live[o] /\ Attr[o].profitable
Best(o) ==
  Candidate(o) /\ \A p \in Opps : Candidate(p) => Attr[p].ratio <= Attr[o].ratio
\* Mutant of GatesPass: the source gate of worker-core 168 is dropped.
GatesPassUnsourced(o) == Attr[o].sized
GatesPass(o) == Attr[o].source = env.capitalSource /\ Attr[o].sized

SelectNone(h) ==
  /\ At(h, "select")
  /\ ~\E o \in Opps : Candidate(o)
  /\ Continues(h, "ARMED", "report")

Selects(h, o) ==
  /\ At(h, "select")
  /\ Best(o)
  /\ opp' = [opp EXCEPT ![h] = o]
  /\ UNCHANGED <<env, executing, signerVerification, result, rows, ordered, counts>>

SelectRejected(h, o) ==
  /\ Selects(h, o)
  /\ ~GatesPass(o)
  /\ mode' = "ARMED"
  /\ Goes(h, "record")

SelectReady(h, o) ==
  /\ Selects(h, o)
  /\ GatesPass(o)
  /\ UNCHANGED mode
  /\ Goes(h, "ready")

GateRecorded(h) ==
  /\ At(h, "ready")
  /\ IF env.executionEnabled THEN Continues(h, mode, "signer")
                             ELSE Continues(h, "ARMED_EXECUTION_READY", "report")

Recorded(h) == At(h, "record") /\ Continues(h, mode, "report")

-----------------------------------------------------------------------------
(* resolveAndVerifySigner() and the branches that follow it                *)

SignerChecked(h, verified) ==
  /\ At(h, "signer")
  /\ signerVerification' = (verified \/ signerVerification)
  /\ UNCHANGED <<env, executing, opp, result, rows, ordered, counts>>

SignerRejected(h) == SignerChecked(h, FALSE) /\ mode' = "ARMED" /\ Goes(h, "record")

BridgeRejected(h) ==
  /\ SignerChecked(h, TRUE)
  /\ Attr[opp[h]].cexPair /\ env.capitalSource = Funded
  /\ mode' = "ARMED"
  /\ Goes(h, "record")

\* validateCoordinatedOpportunity only returns a verdict to be recorded.
PlanValidated(h) ==
  /\ SignerChecked(h, TRUE)
  /\ ~Attr[opp[h]].cexPair
  /\ mode' = "ARMED_EXECUTION_READY"
  /\ Goes(h, "record")

AdaptersCreated(h) ==
  /\ SignerChecked(h, TRUE)
  /\ Attr[opp[h]].cexPair /\ env.capitalSource # Funded
  /\ UNCHANGED mode
  /\ Goes(h, "inventory")

\* Missing credentials, a failed connect() or balances too small.
InventoryRejected(h) == At(h, "inventory") /\ Continues(h, "ARMED", "record")

InventoryVerified(h) ==
  /\ At(h, "inventory")
  /\ executing' = TRUE
  /\ mode' = "EXECUTING"
  /\ UNCHANGED <<env, signerVerification, opp, result, rows, ordered, counts>>
  /\ Goes(h, "mark")

-----------------------------------------------------------------------------
(* The execution itself                                                    *)

\* Mutants of Claimed: the update of worker-core 259 without its condition on
\* the status, and without its effect.
ClaimedAnyway(s) == "EXECUTING"
ClaimedNever(s) == s
Claimed(s) == IF s = "EXECUTABLE" THEN "EXECUTING" ELSE s

SetsStatus(h, s, call) ==
  /\ status' = [status EXCEPT ![opp[h]] = s]
  /\ UNCHANGED <<env, process, opp, result, control, health, live, starts, ordered, counts>>
  /\ Goes(h, call)

Mark(h) == At(h, "mark") /\ SetsStatus(h, Claimed(status[opp[h]]), "audit")

\* Mutant of PairAccepts: the source gate of cex-pair 59 is dropped.
PairAcceptsUnsourced(o) == live[o]
\* The gates of executePair that the arguments built by the worker can fail:
\* capital.source is the row's source, capital.available its requirement.
PairAccepts(o) == live[o] /\ Attr[o].source = Funded

\* The gates run before the first await of executePair, so the orders of a
\* pair that is accepted leave in this step.
Audit(h) ==
  /\ At(h, "audit")
  /\ starts' = [starts EXCEPT ![opp[h]] = @ + 1]
  /\ ordered' = IF PairAccepts(opp[h]) THEN ordered \cup {opp[h]} ELSE ordered
  /\ UNCHANGED <<env, process, opp, result, control, health, status, live,
                 counts>>
  /\ Goes(h, "pair")

PairResults(o) == IF o \in ordered THEN Results \ {"HEDGE_OR_EXIT"} ELSE {"THROW"}

PairReturns(h, r) ==
  /\ At(h, "pair")
  /\ r \in PairResults(opp[h])
  /\ result' = [result EXCEPT ![h] = r]
  /\ mode' = IF r = "THROW" THEN "EMERGENCY_STOP" ELSE mode
  /\ UNCHANGED <<env, executing, signerVerification, opp, rows, ordered, counts>>
  /\ Goes(h, "settle")

\* Mutants of FinalStatus: the result is stored as it is, or a pair that did
\* not complete keeps the status of a pair at work.
FinalStatusRaw(r) == r
FinalStatusOpen(r) == IF r = "COMPLETED" THEN "COMPLETED" ELSE "EXECUTING"
FinalStatus(r) ==
  IF r = "COMPLETED" THEN "COMPLETED"
  ELSE IF r = "HEDGE_OR_EXIT" THEN "PARTIAL" ELSE "FAILED"

Settle(h) == At(h, "settle") /\ SetsStatus(h, FinalStatus(result[h]), "settleAudit")

FinalMode(r) == IF r = "THROW" THEN mode
                ELSE IF r = "COMPLETED" THEN "ARMED" ELSE "EMERGENCY_STOP"

SettleAudit(h) ==
  /\ At(h, "settleAudit")
  /\ executing' = FALSE
  /\ mode' = FinalMode(result[h])
  /\ UNCHANGED <<env, signerVerification, opp, result, rows, ordered, counts>>
  /\ Goes(h, "report")

-----------------------------------------------------------------------------
(* The end of heartbeat(): the worker's own health row                     *)

EndHeartbeat(h) ==
  /\ At(h, "report")
  /\ opp' = [opp EXCEPT ![h] = NoOpp]
  /\ result' = [result EXCEPT ![h] = "none"]
  /\ Goes(h, "idle")

Report(h) ==
  /\ EndHeartbeat(h)
  /\ health' = sent[h]
  /\ UNCHANGED <<env, process, control, status, live, starts, ordered, counts>>

-----------------------------------------------------------------------------
(* Failures                                                                *)

\* One failed statement, an injected fault or one the schema cannot answer.
Fails(h) ==
  /\ faults < MaxFaults
  /\ faults' = faults + 1
  /\ UNCHANGED restarts

FailsOutsideTry(h) ==
  /\ pc[h] \in {"control", "select", "record", "ready"} \cup Claiming
  /\ Fails(h)
  /\ UNCHANGED <<env, executing, signerVerification, opp, result, rows, ordered>>

\* Mutant of Throw: the catch of heartbeat() only logs.
ThrowLogged(h) == FailsOutsideTry(h) /\ UNCHANGED mode /\ Goes(h, "report")
\* The rejection reaches the catch of heartbeat(); executing is left alone.
Throw(h) == FailsOutsideTry(h) /\ mode' = "EMERGENCY_STOP" /\ Goes(h, "report")

\* Inside try the failure leads to catch, inside catch to finally.
ThrowInSettle(h) ==
  /\ pc[h] \in {"settle", "settleAudit"}
  /\ Fails(h)
  /\ executing' = (result[h] # "THROW" /\ executing)
  /\ result' = [result EXCEPT ![h] = "THROW"]
  /\ mode' = "EMERGENCY_STOP"
  /\ UNCHANGED <<env, signerVerification, opp, rows, ordered>>
  /\ Goes(h, IF result[h] = "THROW" THEN "report" ELSE "settle")

ReportLost(h) ==
  /\ EndHeartbeat(h)
  /\ Fails(h)
  /\ UNCHANGED <<env, process, rows, ordered>>

\* The process dies and systemd starts it again, perhaps with another
\* environment; only the rows survive.
Restart(e) ==
  /\ restarts < MaxRestarts
  /\ restarts' = restarts + 1
  /\ env' = e
  /\ mode' = e.mode
  /\ executing' = FALSE
  /\ signerVerification' = FALSE
  /\ pc' = [h \in Heartbeats |-> "idle"]
  /\ opp' = [h \in Heartbeats |-> NoOpp]
  /\ result' = [h \in Heartbeats |-> "none"]
  /\ sent' = [h \in Heartbeats |-> NoRow]
  /\ UNCHANGED <<rows, ordered, faults>>

-----------------------------------------------------------------------------
(* The operator and the clock                                              *)

\* The only operator action: the disarm and emergency-stop routes write nothing.
Arm ==
  /\ control' = "ARMED"
  /\ UNCHANGED <<env, process, tasks, health, status, live, starts, ordered, counts>>

Expire(o) ==
  /\ live[o]
  /\ live' = [live EXCEPT ![o] = FALSE]
  /\ UNCHANGED <<env, process, tasks, control, health, status, starts, ordered, counts>>

-----------------------------------------------------------------------------
Gate(h) ==
  \/ ControlBlocked(h)
  \/ ControlPassed(h)
  \/ SelectNone(h)
  \/ \E o \in Opps : SelectRejected(h, o)
  \/ \E o \in Opps : SelectReady(h, o)
  \/ GateRecorded(h)
  \/ Recorded(h)
  \/ SignerRejected(h)
  \/ BridgeRejected(h)
  \/ PlanValidated(h)
  \/ AdaptersCreated(h)
  \/ InventoryRejected(h)
  \/ InventoryVerified(h)

Execute(h) ==
  \/ Mark(h)
  \/ Audit(h)
  \/ \E r \in Results : PairReturns(h, r)
  \/ Settle(h)
  \/ SettleAudit(h)

Failure(h) == Throw(h) \/ ThrowInSettle(h) \/ ReportLost(h)

Next ==
  \/ \E h \in Heartbeats : Fire(h)
  \/ \E h \in Heartbeats : Gate(h)
  \/ \E h \in Heartbeats : Execute(h)
  \/ \E h \in Heartbeats : Report(h)
  \/ \E h \in Heartbeats : Failure(h)
  \/ \E e \in Envs : Restart(e)
  \/ Arm
  \/ \E o \in Opps : Expire(o)

\* setInterval keeps firing and every awaited call settles in the end.
Fairness == \A h \in Heartbeats :
  WF_vars(Fire(h)) /\ WF_vars(Gate(h) \/ Execute(h) \/ Report(h))

Spec     == Init /\ [][Next]_vars
FairSpec == Spec /\ Fairness

-----------------------------------------------------------------------------
(* Properties                                                              *)

\* Type invariant: the values the variables of the worker and the rows take.
TypeOK ==
  /\ env \in Envs
  /\ mode \in Modes
  /\ executing \in BOOLEAN
  /\ signerVerification \in BOOLEAN
  /\ pc \in [Heartbeats -> PCs]
  /\ opp \in [Heartbeats -> Opps \cup {NoOpp}]
  /\ result \in [Heartbeats -> Results \cup {"none"}]
  /\ sent \in [Heartbeats -> HealthRows]
  /\ control \in {"STOPPED", "ARMED"}
  /\ health \in HealthRows
  /\ status \in [Opps -> OppStatuses]
  /\ live \in [Opps -> BOOLEAN]
  /\ starts \in [Opps -> Nat]
  /\ ordered \subseteq Opps \cup {NoOpp}
  /\ faults \in Nat
  /\ restarts \in Nat

\* No configuration and no interleaving lets the worker place an order: the
\* bridge gate (worker-core 207) stops pairs paid from funded inventory and
\* the source gate of executePair (cex-pair 59) stops every other pair.
NeverOrders == ordered = {}

\* An execution is announced only for a row that passed every gate of the
\* refresh (worker-core 133, 168, 177, 207, 217) under an armed control row.
StartsAreGated ==
  \A o \in Opps : starts[o] > 0 =>
    /\ control = "ARMED"
    /\ Attr[o].cexPair /\ Attr[o].sized /\ Attr[o].profitable
    /\ Attr[o].source # Funded

\* A row that reached a final status keeps a final status, also when a second
\* heartbeat selected it before the first one settled it (worker-core 259).
TerminalStays ==
  [][\A o \in Opps : status[o] \in Terminal => status'[o] \in Terminal]_vars

\* TRADE_EXECUTION_STARTED is written at most once for a row, crashes and
\* failed statements included.  It holds while heartbeats do not overlap.
AtMostOnce == \A o \in Opps : starts[o] <= 1

\* The latch left behind by a failure between worker-core 256 and 262 fails
\* closed: nobody executes, and the worker says EMERGENCY_STOP.
OrphanLatchStops ==
  executing /\ (\A h \in Heartbeats : pc[h] \notin Claiming \cup Trading)
    => mode = "EMERGENCY_STOP"

\* A row marked EXECUTING gets a final status (worker-core 259, 273, 278), two
\* overlapping heartbeats or not, unless a statement failed or the worker was
\* restarted: nobody reconciles such a row.
ExecutingResolves ==
  \A o \in Opps :
    status[o] = "EXECUTING" ~> status[o] \in Terminal \/ faults > 0 \/ restarts > 0
=============================================================================
