--------------------------- MODULE StandaloneProofs ---------------------------
(***************************************************************************)
(* Proofs about the three small components that no other module extends:   *)
(* the DEX swap, the Redis lock and the start-up gate.  Each has its own   *)
(* variables and its own specification; nothing here relates one to        *)
(* another.                                                                *)
(***************************************************************************)
EXTENDS DexSwap, RedisLock, Startup, TLAPS

-----------------------------------------------------------------------------
(* DexSwap: the verdicts of executeDexOpportunity, for every set of        *)
(* profits.  What has to be carried along is where the transaction stands  *)
(* at every await: the wire carries the one swap that is not on the chain  *)
(* yet, and whoever polls knows a hash.                                    *)

\* Before the swap is submitted nothing has been sent or answered.
Unsent == stage \in {"gates", "quote"} => ~wire /\ tx = "none" /\ verdict = "none"

\* A request on the wire has no transaction yet.
WireIsFresh == wire => tx = "none"

\* Whoever polls, or has polled, knows a transaction.
Hashed == stage \in {"poll", "asleep"} \/ verdict = "TIMEOUT" => tx # "none"

\* An answer ends the function.
Concluded == verdict # "none" => stage = "done"

SwapInv == TypeOK /\ Unsent /\ Concluded /\ WireIsFresh /\ Hashed /\ VerdictIsTrue

\* Initially nothing has been sent and nothing answered.
LEMMA SwapInit == Init => SwapInv
  BY DEF Init, SwapInv, TypeOK, Unsent, Concluded, WireIsFresh, Hashed, VerdictIsTrue,
         Stages

\* The steps that end the function before the polling keep the invariant:
\* they change the stage and the verdict to THROW only.
LEMMA ThrowKeeps ==
  ASSUME SwapInv, stage' = "done", verdict' = "THROW", UNCHANGED <<request, late, chain>>
  PROVE  SwapInv'
  BY DEF SwapInv, TypeOK, Unsent, Concluded, WireIsFresh, Hashed, VerdictIsTrue,
         Stages, request, chain

\* A poll answers with the word of the transaction it has read (67 to 73).
LEMMA PollKeeps == SwapInv /\ Poll => SwapInv'
<1> SUFFICES ASSUME SwapInv, Poll PROVE SwapInv'
  OBVIOUS
<1> USE DEF SwapInv, TypeOK, Unsent, Concluded, WireIsFresh, Hashed, VerdictIsTrue,
            Stages, request, chain
<1>1. StatusOf(tx) = "CONFIRMED" => tx \in Landed
  BY DEF StatusOf
<1>2. StatusOf(tx) = "FAILED" => tx \in Undone
  BY DEF StatusOf
<1>3. CASE StatusOf(tx) = "CONFIRMED" /\ Returns("COMPLETED")
  BY <1>1, <1>3 DEF Poll, Returns
<1>4. CASE StatusOf(tx) = "FAILED" /\ Returns("FAILED")
  BY <1>2, <1>4 DEF Poll, Returns
<1>5. CASE stage' = "asleep" /\ UNCHANGED verdict
  BY <1>5 DEF Poll
<1> QED
  BY <1>3, <1>4, <1>5 DEF Poll

\* Every step keeps the invariant.
LEMMA SwapKeeps == SwapInv /\ [Next]_vars => SwapInv'
<1> SUFFICES ASSUME SwapInv, [Next]_vars PROVE SwapInv'
  OBVIOUS
<1> USE DEF SwapInv, TypeOK, Unsent, Concluded, WireIsFresh, Hashed, VerdictIsTrue,
            Stages, request, chain
<1>1. CASE Reject
  BY <1>1, ThrowKeeps DEF Reject, Returns
<1>2. CASE Admit
  BY <1>2 DEF Admit, Admissible
<1>3. CASE QuoteThrows
  BY <1>3, ThrowKeeps DEF QuoteThrows, Returns
<1>4. CASE Submit
  BY <1>4 DEF Submit
<1>5. CASE Submitted
  BY <1>5 DEF Submitted
<1>6. CASE SwapThrows
  BY <1>6, ThrowKeeps DEF SwapThrows, Returns
<1>7. CASE Poll
  BY <1>7, PollKeeps
<1>8. CASE PollThrows
  BY <1>8, ThrowKeeps DEF PollThrows, Returns
<1>9. CASE Wake
  BY <1>9 DEF Wake
<1>10. CASE GiveUp
  BY <1>10 DEF GiveUp, Returns
<1>11. CASE Deadline
  BY <1>11 DEF Deadline
<1>12. CASE Arrives
  BY <1>12 DEF Arrives, Landed, Undone
<1>13. CASE Ends
  BY <1>13 DEF Ends, Ended, Landed, Undone
<1>14. CASE UNCHANGED vars
  BY <1>14 DEF vars
<1> QED
  BY <1>1, <1>2, <1>3, <1>4, <1>5, <1>6, <1>7, <1>8, <1>9, <1>10, <1>11, <1>12,
     <1>13, <1>14 DEF Next, Executor

\* The invariant holds in every reachable state, without any fairness.
THEOREM SwapInvariant == Spec => []SwapInv
  BY SwapInit, SwapKeeps, PTL DEF Spec

\* Type correctness.
THEOREM SwapTyping == Spec => []TypeOK
<1>1. SwapInv => TypeOK
  BY DEF SwapInv
<1> QED
  BY <1>1, SwapInvariant, PTL

\* After any answer but a throw no swap is on its way, and only the transaction
\* of a TIMEOUT may still end (lines 57 to 77).
THEOREM SwapQuiet == Spec => QuietUnlessThrown
<1>1. SwapInv /\ [Next]_vars =>
        [verdict \notin {"none", "THROW"} =>
           /\ UNCHANGED wire /\ ~wire
           /\ tx' # tx => verdict = "TIMEOUT" /\ tx = "SUBMITTED"]_vars
  <2> SUFFICES ASSUME SwapInv, Next, verdict \notin {"none", "THROW"}
               PROVE  /\ UNCHANGED wire /\ ~wire
                      /\ tx' # tx => verdict = "TIMEOUT" /\ tx = "SUBMITTED"
    OBVIOUS
  <2>1. stage = "done"
    BY DEF SwapInv, Concluded
  <2>2. ~wire
    BY DEF SwapInv, TypeOK, WireIsFresh, Hashed, VerdictIsTrue, Landed, Undone
  <2>3. CASE Ends
    BY <2>2, <2>3 DEF Ends, SwapInv, TypeOK, VerdictIsTrue, Landed, Undone
  <2>4. CASE Executor \/ Deadline \/ Arrives
    BY <2>1, <2>2, <2>4 DEF Executor, Deadline, Arrives, Reject, Admit, QuoteThrows, Submit,
       Submitted, SwapThrows, Poll, PollThrows, Wake, GiveUp
  <2> QED
    BY <2>2, <2>3, <2>4 DEF Next
<1> QED
  BY SwapInvariant, <1>1, PTL DEF Spec, QuietUnlessThrown

\* COMPLETED and FAILED are final truths about the transaction (67 to 73).
THEOREM SwapTruthful == Spec => []VerdictIsTrue
<1>1. SwapInv => VerdictIsTrue
  BY DEF SwapInv
<1> QED
  BY <1>1, SwapInvariant, PTL

\* A TIMEOUT names a transaction the chain has seen (line 77).
THEOREM SwapTraceable == Spec => []TimeoutIsTraceable
<1>1. SwapInv => TimeoutIsTraceable
  BY DEF SwapInv, Hashed, TimeoutIsTraceable
<1> QED
  BY <1>1, SwapInvariant, PTL

-----------------------------------------------------------------------------
(* RedisLock, for every set of calls, ttlMs and number of repeated         *)
(* commands: the types, that two calls run together only when one of them  *)
(* outlived its lock, and that a running call loses its key to the clock   *)
(* alone.  The inductive invariant says which command of a call may still  *)
(* be on its way at each of its awaits, and that a call which read 'OK'    *)
(* holds the key or has outlived it.                                       *)

\* What is on its way belongs to the await it was sent at, or to a call that
\* has given up, and has no answer yet.
CommandOf(c) ==
  /\ command[c] # "none" => answer[c] = "none"
  /\ command[c] = "set" => pc[c] \in {"set", "lost"}
  /\ command[c] = "release" => pc[c] \in {"release", "lost"}

\* Who was told 'OK' and has not sent the script.
Admitted(c) == pc[c] = "fn" \/ (pc[c] = "set" /\ answer[c] = "OK")
HeldOf(c) == Admitted(c) => key = c \/ c \in expired

LockInv ==
  /\ LockTypeOK
  /\ key # Nobody <=> left > 0
  /\ \A c \in Callers : CommandOf(c)
  /\ \A c \in Callers : HeldOf(c)

\* The initial state satisfies the invariant.
LEMMA LockInitInv == LockInit => LockInv
BY CallerAssumption, TtlAssumption, RetryAssumption
DEF LockInit, LockInv, LockTypeOK, CommandOf, HeldOf, Admitted

\* The steps of a call and its connection keep the invariant: none of them
\* touches the key, and each keeps the command in step with the await.
LEMMA LockCallKeeps ==
  ASSUME LockInv, NEW d \in Callers, Caller(d) \/ Fault(d)
  PROVE  LockInv'
<1> USE RetryAssumption
<1>1. CASE Acquire(d)
  BY <1>1 DEF Acquire, Moves, Sends, redis, LockInv, LockTypeOK, CommandOf, HeldOf, Admitted
<1>2. CASE Enters(d)
  BY <1>2 DEF Enters, Moves, redis, LockInv, LockTypeOK, CommandOf, HeldOf, Admitted
<1>3. CASE Busy(d)
  BY <1>3 DEF Busy, Moves, redis, LockInv, LockTypeOK, CommandOf, HeldOf, Admitted
<1>4. CASE Leaves(d)
  BY <1>4 DEF Leaves, Moves, Sends, redis, LockInv, LockTypeOK, CommandOf, HeldOf, Admitted
<1>5. CASE Released(d)
  BY <1>5 DEF Released, Moves, redis, LockInv, LockTypeOK, CommandOf, HeldOf, Admitted
<1>6. CASE Resend(d)
  BY <1>6 DEF Resend, Sends, redis, LockInv, LockTypeOK, CommandOf, HeldOf, Admitted
<1>7. CASE GivesUp(d)
  BY <1>7 DEF GivesUp, redis, LockInv, LockTypeOK, CommandOf, HeldOf, Admitted
<1>8. CASE Drops(d)
  BY <1>8 DEF Drops, redis, LockInv, LockTypeOK, CommandOf, HeldOf, Admitted
<1> QED
  BY <1>1, <1>2, <1>3, <1>4, <1>5, <1>6, <1>7, <1>8 DEF Caller, Fault

\* The steps of Redis keep it: NX only takes a free key, the script only
\* deletes the key of a call that has left fn, the clock remembers whom it
\* dropped.
LEMMA LockRedisKeeps ==
  ASSUME LockInv, NEW d \in Callers, Redis(d)
  PROVE  LockInv'
<1> USE CallerAssumption, TtlAssumption
<1>1. CASE SetApplied(d)
  BY <1>1 DEF SetApplied, Replies, LockInv, LockTypeOK, CommandOf, HeldOf, Admitted
<1>2. CASE ReleaseApplied(d)
  BY <1>2 DEF ReleaseApplied, Replies, LockInv, LockTypeOK, CommandOf, HeldOf, Admitted
<1> QED
  BY <1>1, <1>2 DEF Redis

LEMMA LockTickKeeps ==
  ASSUME LockInv, Tick
  PROVE  LockInv'
BY CallerAssumption, TtlAssumption
DEF Tick, calls, LockInv, LockTypeOK, CommandOf, HeldOf, Admitted

LEMMA LockStutterKeeps ==
  ASSUME LockInv, UNCHANGED lockVars
  PROVE  LockInv'
BY DEF lockVars, redis, calls, LockInv, LockTypeOK, CommandOf, HeldOf, Admitted

\* The invariant holds in every reachable state.
THEOREM LockInvariant == LockSpec => []LockInv
<1>1. LockInv /\ [LockNext]_lockVars => LockInv'
  BY LockCallKeeps, LockRedisKeeps, LockTickKeeps, LockStutterKeeps DEF LockNext
<1> QED
  BY LockInitInv, <1>1, PTL DEF LockSpec

\* Type correctness of the lock.
THEOREM LockTyping == LockSpec => []LockTypeOK
<1>1. LockInv => LockTypeOK
  BY DEF LockInv
<1> QED
  BY LockInvariant, <1>1, PTL

\* Two calls run fn together only when one of them outlived its lock.
THEOREM LockExclusive == LockSpec => []ExclusiveInTime
<1>1. LockInv => ExclusiveInTime
  BY DEF LockInv, HeldOf, Admitted, ExclusiveInTime
<1> QED
  BY LockInvariant, <1>1, PTL

\* One step of Redis takes the key from a running call only by the clock.
LEMMA OnlyTheClock ==
  ASSUME LockInv, [LockNext]_lockVars, NEW c \in Callers, key = c, pc[c] = "fn", key' # c
  PROVE  left = 1 /\ c \in expired'
<1>1. ASSUME NEW d \in Callers, Caller(d) \/ Fault(d) PROVE key' = key
  BY <1>1 DEF Caller, Fault, Acquire, Enters, Busy, Leaves, Released, Resend,
              GivesUp, Drops, redis
<1>2. ASSUME NEW d \in Callers, SetApplied(d) PROVE key' = key
  BY <1>2, CallerAssumption DEF SetApplied
<1>3. ASSUME NEW d \in Callers, ReleaseApplied(d) PROVE key' = key
  BY <1>3 DEF ReleaseApplied, LockInv, CommandOf
<1>4. CASE Tick
  BY <1>4 DEF Tick
<1>5. CASE UNCHANGED lockVars
  BY <1>5 DEF lockVars, redis
<1> QED
  BY <1>1, <1>2, <1>3, <1>4, <1>5 DEF LockNext, Redis

\* While fn runs, the key of its call goes away by its own time only.
THEOREM LockKept == LockSpec => KeptWhileRunning
<1>1. LockInv /\ [LockNext]_lockVars =>
        [\A c \in Callers : key = c /\ pc[c] = "fn" /\ key' # c
            => left = 1 /\ c \in expired']_lockVars
  BY OnlyTheClock
<1> QED
  BY LockInvariant, <1>1, PTL DEF LockSpec, KeptWhileRunning

-----------------------------------------------------------------------------
(* Startup, for every set of networks: the worker is LIVE only if the      *)
(* environment the process was started with allows it, and the mode that   *)
(* was logged is the one it runs in.  The gate runs once or twice on its   *)
(* own output, so the invariant says what it makes of an environment, and  *)
(* the heart of the proof is that a second run changes nothing.            *)

\* What one run of the gate leaves in process.env.
Gated(e) == IF ~Allowed(e) /\ Requested(e) = "LIVE" THEN Rewritten(e) ELSE e

\* What process.env holds in each module: untouched in the first one, gated
\* from there on; and the last gate logged the mode it left behind.
Passed ==
  /\ module = "bootstrap" => env = started
  /\ module = "index" => env = started \/ (RegistryBuilds(started) /\ env = Gated(started))
  /\ module = "core" =>
       RegistryBuilds(started) /\ env = Gated(started) /\ log = Requested(env)

StartInv == StartTypeOK /\ Passed

\* Running the gate on what it left behind changes nothing: it either found no
\* fault or has taken LIVE away under both names; and either way the mode it
\* logs is the one it leaves.
LEMMA GateIsIdempotent ==
  ASSUME NEW e \in Environments
  PROVE  /\ Gated(e) \in Environments
         /\ Gated(Gated(e)) = Gated(e)
         /\ EffectiveMode(e) = Requested(Gated(e))
         /\ RegistryBuilds(Gated(e)) <=> RegistryBuilds(e)
<1> DEFINE r == Rewritten(e)
<1>1. r \in Environments
  BY DEF Rewritten, Environments, Words
<1>2. r.TRADING_MODE = "DRY_RUN" /\ r.rpc = e.rpc
  BY DEF Rewritten, Environments
<1>3. Requested(r) = "DRY_RUN"
  BY <1>2 DEF Requested
<1> HIDE DEF r
<1> QED
  BY <1>1, <1>2, <1>3 DEF Gated, EffectiveMode, RegistryBuilds, r

\* A mode is one of four words.
LEMMA ModeType == \A e \in Environments : Requested(e) \in Modes /\ EffectiveMode(e) \in Modes
  BY DEF Environments, Words, Modes, Requested, EffectiveMode

\* Before the first start no module runs.
LEMMA StartInitInv == StartInit => StartInv
  BY BoundAssumption DEF StartInit, StartInv, StartTypeOK, Passed

\* A gate that decides hands its environment to the next module.
LEMMA DecidesKeeps ==
  ASSUME StartInv, Decides
  PROVE  StartInv'
<1> USE DEF StartInv, StartTypeOK, Decides, Gating, Imported
<1>1. env' = Gated(env) /\ log' = EffectiveMode(env) /\ started' = started
  BY DEF Gated
<1>2. /\ env' \in Environments
      /\ log' = Requested(env')
      /\ Gated(env') = env'
  BY <1>1, GateIsIdempotent
<1>3. env' = Gated(started) /\ RegistryBuilds(started)
  BY <1>1, GateIsIdempotent DEF Passed
<1>4. StartTypeOK'
  BY <1>1, <1>2, ModeType DEF counts
<1>5. Passed'
  BY <1>1, <1>2, <1>3 DEF Passed
<1> QED
  BY <1>4, <1>5

\* One line of the environment file changes.
LEMMA EditKeeps ==
  ASSUME StartInv, Edit
  PROVE  StartInv'
<1> USE DEF StartInv, StartTypeOK, process
<1>1. file' \in Environments
  BY DEF Edit, Environments
<1>2. edits' \in 0..MaxEdits
  BY BoundAssumption DEF Edit
<1>3. UNCHANGED <<entry, module, started, env, log, crashes>>
  BY DEF Edit
<1> QED
  BY <1>1, <1>2, <1>3 DEF Passed

\* Every step keeps the invariant.
LEMMA StartKeeps == StartInv /\ [StartNext]_startVars => StartInv'
<1> SUFFICES ASSUME StartInv, [StartNext]_startVars PROVE StartInv'
  OBVIOUS
<1> USE DEF StartInv, StartTypeOK, Passed, counts
<1>1. CASE Start
  BY <1>1 DEF Start
<1>2. CASE RegistryThrows
  BY <1>2 DEF RegistryThrows
<1>3. CASE Decides
  BY <1>3, DecidesKeeps
<1>4. CASE Crash
  BY <1>4, BoundAssumption DEF Crash
<1>5. CASE Edit
  BY <1>5, EditKeeps
<1>6. CASE UNCHANGED startVars
  BY <1>6 DEF startVars, process
<1> QED
  BY <1>1, <1>2, <1>3, <1>4, <1>5, <1>6 DEF StartNext

\* The invariant holds in every reachable state.
THEOREM StartInvariant == StartSpec => []StartInv
  BY StartInitInv, StartKeeps, PTL DEF StartSpec

\* Type correctness of the start-up.
THEOREM StartTyping == StartSpec => []StartTypeOK
<1>1. StartInv => StartTypeOK
  BY DEF StartInv
<1> QED
  BY <1>1, StartInvariant, PTL

\* The worker runs in LIVE only if the environment the process was started
\* with has everything LIVE needs, and never executes where LIVE was refused.
THEOREM Closed == StartSpec => []FailsClosed
<1>1. StartInv => FailsClosed
  <2> SUFFICES ASSUME StartInv, module = "core" PROVE FailsClosed
    BY DEF FailsClosed
  <2>1. started \in Environments /\ env = Gated(started) /\ RegistryBuilds(started)
    BY DEF StartInv, StartTypeOK, Passed
  <2>2. CASE ~Allowed(started) /\ Requested(started) = "LIVE"
    <3>1. env = Rewritten(started)
      BY <2>1, <2>2 DEF Gated
    <3>2. env.TRADING_MODE = "DRY_RUN" /\ ~env.execution
      BY <2>1, <3>1 DEF Rewritten, Environments
    <3>3. Requested(env) = "DRY_RUN"
      BY <3>2 DEF Requested
    <3> QED
      BY <3>2, <3>3 DEF FailsClosed, CoreMode
  <2>3. CASE ~(~Allowed(started) /\ Requested(started) = "LIVE")
    BY <2>1, <2>3 DEF Gated, FailsClosed, CoreMode, Configured, Allowed, LiveRequested
  <2> QED
    BY <2>2, <2>3
<1> QED
  BY <1>1, StartInvariant, PTL

\* The mode in the last worker_bootstrap line is the one worker-core runs in.
THEOREM LoggedTrue == StartSpec => []LogIsTrue
<1>1. StartInv => LogIsTrue
  <2> SUFFICES ASSUME StartInv, module = "core" PROVE log = CoreMode(env)
    BY DEF LogIsTrue
  <2>1. started \in Environments /\ env = Gated(started) /\ log = Requested(env)
    BY DEF StartInv, StartTypeOK, Passed
  <2>2. Requested(env) = "LIVE" => env.signer
    <3>1. Requested(Rewritten(started)) = "DRY_RUN"
      BY <2>1 DEF Requested, Rewritten, Environments
    <3> QED
      BY <2>1, <3>1 DEF Gated, Allowed, LiveRequested
  <2> QED
    BY <2>1, <2>2 DEF CoreMode
<1> QED
  BY <1>1, StartInvariant, PTL

\* What the module Worker assumes of the environment it starts in (its Envs):
\* a worker asked for LIVE may execute and has a signer.
THEOREM WorkerEnvironment ==
  StartSpec => [](module = "core" /\ Requested(env) = "LIVE" => env.execution /\ env.signer)
<1>1. StartInv /\ module = "core" /\ Requested(env) = "LIVE" => env.execution /\ env.signer
  <2> SUFFICES ASSUME StartInv, module = "core", Requested(env) = "LIVE"
               PROVE  env.execution /\ env.signer
    OBVIOUS
  <2>1. started \in Environments /\ env = Gated(started)
    BY DEF StartInv, StartTypeOK, Passed
  <2>2. Requested(Rewritten(started)) = "DRY_RUN"
    BY <2>1 DEF Requested, Rewritten, Environments
  <2> QED
    BY <2>1, <2>2 DEF Gated, Allowed, LiveRequested
<1> QED
  BY <1>1, StartInvariant, PTL
=============================================================================
