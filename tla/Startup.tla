------------------------------- MODULE Startup -------------------------------
(***************************************************************************)
(* How the worker process starts: bootstrap.ts and index.ts each run the   *)
(* start-up gate over process.env, rewrite it when LIVE is refused, and    *)
(* import the next module; worker-core.ts reads what is left.  systemd and *)
(* the container run index.js, `pnpm start` runs bootstrap.ts.  The        *)
(* environment file is read at every start, and the operator may edit it   *)
(* at any time.                                                            *)
(***************************************************************************)
EXTENDS Naturals

CONSTANTS
  Networks,               \* the networks of live-startup-config.ts
  MaxEdits, MaxCrashes    \* bounds on edits of the file and on crashes

ASSUME BoundAssumption == MaxEdits \in Nat /\ MaxCrashes \in Nat

VARIABLES
  file,      \* the environment file
  entry,     \* the module the process is started with
  module,    \* the module that runs; "down" when there is no process
  started,   \* the environment the process was started with
  env,       \* process.env
  log,       \* effectiveMode of the last worker_bootstrap line
  edits, crashes

process == <<entry, module, started, env, log>>
counts == <<edits, crashes>>
startVars == <<file, process, counts>>

\* "live" stands for every spelling of LIVE but the one in capitals: the gate
\* compares toUpperCase(), everything else the word itself.
Words == {"unset", "LIVE", "live", "DRY_RUN"}
Modes == {"LIVE", "live", "DRY_RUN", "STOPPED"}
Environments ==
  [TRADING_MODE: Words, RUNTIME_MODE: Words, execution: BOOLEAN, signer: BOOLEAN,
   hummingbot: BOOLEAN, rpc: SUBSET Networks]

StartTypeOK ==
  /\ file \in Environments /\ started \in Environments /\ env \in Environments
  /\ entry \in {"bootstrap", "index"}
  /\ module \in {"down", "bootstrap", "index", "core"}
  /\ log \in Modes \cup {"none"}
  /\ edits \in 0..MaxEdits /\ crashes \in 0..MaxCrashes

\* index.ts 4, bootstrap.ts 4, worker-core.ts 11.
\* Mutant of Requested: only TRADING_MODE is read.
RequestedRaw(e) == e.TRADING_MODE
Requested(e) == CASE e.TRADING_MODE # "unset" -> e.TRADING_MODE
                  [] e.TRADING_MODE = "unset" /\ e.RUNTIME_MODE # "unset" -> e.RUNTIME_MODE
                  [] OTHER -> "STOPPED"
LiveRequested(e) == Requested(e) \in {"LIVE", "live"}

\* createDexRuntimeRegistry throws on the first network without an address,
\* whatever the mode; the chain ids it registers are the ones expected.
RegistryBuilds(e) == e.rpc = Networks

\* validateLiveStartup: no reason against LIVE is found.
Allowed(e) ==
  LiveRequested(e) => e.execution /\ e.signer /\ e.hummingbot /\ e.rpc = Networks

\* Mutant of EffectiveMode: the requested mode is logged.
EffectiveModeRequested(e) == Requested(e)
EffectiveMode(e) ==
  IF ~Allowed(e) /\ Requested(e) = "LIVE" THEN "DRY_RUN" ELSE Requested(e)

StartInit ==
  /\ file \in Environments
  /\ entry \in {"bootstrap", "index"}
  /\ module = "down" /\ started = file /\ env = file /\ log = "none"
  /\ edits = 0 /\ crashes = 0

-----------------------------------------------------------------------------
Start ==
  /\ module = "down"
  /\ module' = entry
  /\ started' = file /\ env' = file /\ log' = "none"
  /\ UNCHANGED <<file, entry, counts>>

Gating == module \in {"bootstrap", "index"}
Imported == IF module = "bootstrap" THEN "index" ELSE "core"

\* Mutant of RegistryThrows: the process stays without having imported.
RegistryHangs ==
  /\ Gating
  /\ ~RegistryBuilds(env)
  /\ UNCHANGED startVars
\* The exception reaches the top of the module: the process ends.
RegistryThrows ==
  /\ Gating
  /\ ~RegistryBuilds(env)
  /\ module' = "down"
  /\ UNCHANGED <<file, entry, started, env, log, counts>>

\* index.ts 27 to 31.
\* Mutant of Rewritten: TRADING_MODE, which worker-core reads first, is kept.
RewrittenRuntime(e) == [e EXCEPT !.RUNTIME_MODE = "DRY_RUN"]
Rewritten(e) ==
  [e EXCEPT !.TRADING_MODE = "DRY_RUN", !.RUNTIME_MODE = "DRY_RUN", !.execution = FALSE]

Decides ==
  /\ Gating
  /\ RegistryBuilds(env)
  /\ module' = Imported
  /\ log' = EffectiveMode(env)
  /\ env' = IF ~Allowed(env) /\ Requested(env) = "LIVE" THEN Rewritten(env) ELSE env
  /\ UNCHANGED <<file, entry, started, counts>>

Crash ==
  /\ crashes < MaxCrashes
  /\ module # "down"
  /\ module' = "down" /\ crashes' = crashes + 1
  /\ UNCHANGED <<file, entry, started, env, log, edits>>

\* The operator changes one line of the file; a running process is not told.
Edit ==
  /\ edits < MaxEdits
  /\ edits' = edits + 1
  /\ \/ \E w \in Words : file' = [file EXCEPT !.TRADING_MODE = w]
     \/ \E w \in Words : file' = [file EXCEPT !.RUNTIME_MODE = w]
     \/ \E b \in BOOLEAN : file' = [file EXCEPT !.execution = b]
     \/ \E b \in BOOLEAN : file' = [file EXCEPT !.signer = b]
     \/ \E b \in BOOLEAN : file' = [file EXCEPT !.hummingbot = b]
     \/ \E r \in SUBSET Networks : file' = [file EXCEPT !.rpc = r]
  /\ UNCHANGED <<process, crashes>>

StartNext == Start \/ RegistryThrows \/ Decides \/ Crash \/ Edit

StartSpec == StartInit /\ [][StartNext]_startVars

\* Modules run to their end, and systemd (Restart=always) starts index.js
\* again; nobody restarts a bootstrap.ts started by hand.
StartLiveSpec ==
  /\ StartSpec
  /\ WF_startVars(RegistryThrows \/ Decides)
  /\ WF_startVars(Start /\ entry = "index")
-----------------------------------------------------------------------------
\* What worker-core sets as its mode (11, 286).
CoreMode(e) == IF Requested(e) = "LIVE" /\ ~e.signer THEN "DRY_RUN" ELSE Requested(e)

Configured(e) == e.execution /\ e.signer /\ e.hummingbot /\ e.rpc = Networks

\* The gate runs twice and the second run sees what the first one rewrote.  The
\* worker is in LIVE only if the environment the process was started with has
\* everything LIVE needs; if that environment asked for LIVE without it, the
\* worker is in DRY_RUN and may not execute either.
FailsClosed ==
  module = "core" =>
    /\ CoreMode(env) = "LIVE" => Configured(started)
    /\ Requested(started) = "LIVE" /\ ~Configured(started) =>
         CoreMode(env) = "DRY_RUN" /\ ~env.execution

\* The mode that was logged is the one the worker runs in: neither the second
\* gate nor line 286 of worker-core changes it again.
LogIsTrue == module = "core" => log = CoreMode(env)

\* Once the file names an address for every network, systemd brings the worker
\* back after every crash, and after every start that died in the registry.
ComesBack ==
  (entry = "index" /\ <>[](file.rpc = Networks)) => []<>(module = "core")

\* Claim of live-startup-gate.test.ts:34 ("fails closed on a missing RPC", which
\* expects the answer RPC_NOT_CONFIGURED): a start that is not interrupted by a
\* crash gets past the gate.
MissingRpcIsAnswered == [][Gating /\ crashes' = crashes => module' # "down"]_startVars
=============================================================================
