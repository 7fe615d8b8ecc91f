# ABn: models, checks and proofs

This directory holds TLA+ models of the execution plane of ABn, the TLC
configurations that check them on small instances, and TLAPS proofs of their
main invariants. Every definition is translated from the TypeScript, SQL or
service file that `PROJECT.json` names under `map`; docs and tests are only
quoted where the code does something else ("findings").

## Inventory: the system and its parts

ABn watches markets, computes arbitrage opportunities and (meant to) execute
them. A Next.js app is the control plane; one Node process, the worker, is the
execution plane; PostgreSQL holds the rows they share; Redis holds a heartbeat
key; exchanges, a Hummingbot API and a DEX gateway are external services.

| Component | State | Operations | Interacts with | Correct when |
|---|---|---|---|---|
| Worker, `apps/worker/src/worker-core.ts` | `mode`, `executing`, `signerVerification` | a heartbeat every `HEARTBEAT_MS`, overlapping if slow | PostgreSQL rows, signer, exchange adapters, `executePair` | a row is executed at most once and only after every gate; failures fail closed; rows and latch are resolved; a stop is honoured |
| Start-up gate, `live-startup-*.ts`, `dex-runtime-registry.ts`, `index.ts`, `bootstrap.ts` | `process.env` | `enforceLiveStartupConfiguration`, once per module | systemd, environment file, worker | LIVE only with execution, signer, Hummingbot, RPCs; the log tells the mode; a worker that died comes back |
| Operator routes, `apps/web/app/api/*` | `system_health` row `trading_control` | arm, disarm, emergency-stop, status, signup | PostgreSQL | a stop reaches the worker |
| Exchange pair, `packages/execution/src/cex-pair.ts` | two orders | `executePair` | two exchange adapters | COMPLETED only if both legs filled; no leg left alone |
| Hummingbot pair, `hummingbot-pair.ts` | two orders | `executeHummingbotPair`, `waitForOrder` | Hummingbot API | as above, and bounded in time |
| DEX swap, `dex-execution.ts`, `dex-gateway.ts` | one swap | gates, quote, submit, poll | gateway | verdicts tell the truth about the chain; only profitable quotes are swapped; a swap can be followed |
| Coordinated release, `coordinated-*.ts`, `authoritative-preflight.ts`, `runtime-readiness.ts`, `*-readiness.ts`, `rpc-dex-source.ts` | none | validation, plan, preflight, release | quote and balance providers | released only on fresh quotes and enough balance on both legs |
| Legacy pair, `packages/execution/index.ts`, `cex-connector.ts`, `dry-run.ts` | two orders, a hedge | `executePair` with hedging | connectors | never sells what was not bought; an order left behind was asked to be cancelled |
| Redis lock, `packages/redis/src/index.ts` | one key with a token | `withRedisLock` | Redis | one holder within the ttl; release deletes only one's own lock; the key becomes free |
| Market data, `packages/market-engine`, `opportunity-engine` | none | VWAP, scan, build, rank | venues | the walk through a book is the best filling; profits match the books |
| Risk and capital, `packages/risk-engine`, `capital-engine` | none | gates, collection of sources | worker (policy only) | capital covers the notional from the cheapest sources; an admitted trade pays |
| Signer, `packages/signer` | none | resolve, address, balance | protected service | only protected references |
| Venue adapters, `venue-adapters`, `cex-adapters`, `dex-adapters` | connections | order, status, cancel | exchanges | external |
| Web UI, auth, `secure-config.ts` | users | pages, sign-up | PostgreSQL | not modelled |

Hard behaviour: `setInterval` does not wait for the previous heartbeat, so
awaits of several heartbeats interleave; a statement may fail or the process
may die between any two of them; orders on two venues are placed concurrently,
may be filled late, and a timeout does not undo them.

How the parts meet: the worker reads the control row the operator routes write,
selects a row of `opportunities`, and calls `executePair` of the exchange pair.
The start-up gate decides the environment the worker reads its mode from. The
worker also calls the validation of the coordinated plan. Nothing in the
repository calls the Hummingbot pair, the DEX swap or the rest of the
coordinated release yet: they are exported by `packages/execution/src/index.ts`
and are modelled as the boundaries a caller will rely on. `scanPair`,
`assessCapital`, `evaluateRisk` and `withRedisLock` are exported by their
packages and have no caller either; `packages/execution/index.ts` lies outside
the package's entry point.

## Modules

| Module | Models | Role |
|---|---|---|
| `Worker` | `worker-core.ts`, with `index.ts`, the arm route and the systemd unit | specification |
| `MCWorker` | rows for TLC | instance |
| `WorkerProofs` | | theorems about `Worker` |
| `PairTrade` | what a caller of either pair function may rely on | abstract specification |
| `Venue` | two exchange accounts and the requests on the way to them (external) | part shared by both pairs |
| `VenueProofs` | | lemmas both pair proofs cite |
| `CexPair`, `CexPairProofs` | `cex-pair.ts` | specification, theorems, implements `PairTrade` |
| `HummingbotPair`, `HummingbotPairProofs` | `hummingbot-pair.ts`, `hummingbot.ts` | specification, theorems, implements `PairTrade` |
| `DexSwap` | `dex-execution.ts`, `dex-gateway.ts` | specification |
| `CoordinatedRelease`, `CoordinatedReleaseProofs` | `coordinated-*.ts`, `runtime-readiness.ts`, `authoritative-preflight.ts`, the providers and the RPC source | specification, theorems |
| `LegacyPair`, `LegacyPairProofs` | `packages/execution/index.ts`, `dry-run.ts` | specification, theorems |
| `Startup` | `bootstrap.ts`, `index.ts`, `live-startup-*.ts`, `dex-runtime-registry.ts`, the systemd unit | specification |
| `RedisLock` | `packages/redis` and Redis (external) | specification |
| `StandaloneProofs` | | theorems about `DexSwap`, `RedisLock` and `Startup` |
| `Admission`, `MCAdmission` | `scanner.ts`, `vwap.ts`, `opportunity-capital.ts`, `gates.ts` | specification, instance |
| `AdmissionProofs` | | theorems about sums over finite sets and about `Admission` |

`DexSwap`, `RedisLock` and `Startup` share nothing, neither with each other nor
with another module, so one module holds the proofs about all three. That is why
the definitions of the last two carry a prefix (`LockSpec`, `StartSpec`, ...).

An operator whose comment says "Mutant of X" stands before `X`. It is the form
`X` would have with a plausible bug; nothing refers to it, and `PROJECT.json`
names the property that notices it.

### Worker

JavaScript runs to completion between two awaits, so one action is the answer
to one awaited call together with all code up to the next await. `pc[h]` names
the call that heartbeat `h` awaits:

| `pc[h]` | lines of `worker-core.ts` | actions |
|---|---|---|
| `idle` | 303 | `Fire` (127: no refresh while the latch is set) |
| `control` | 129-142 | `ControlBlocked`, `ControlPassed` |
| `select` | 144-189 | `SelectNone`, `SelectRejected`, `SelectReady` |
| `ready` | 186-194 | `GateRecorded` |
| `signer` | 196-241 | `SignerRejected`, `BridgeRejected`, `PlanValidated`, `AdaptersCreated` |
| `inventory` | 238-257 | `InventoryRejected`, `InventoryVerified` |
| `mark`, `audit` | 259-261 | `Mark`, `Audit` |
| `pair` | 262-271 | `PairReturns` |
| `settle`, `settleAudit` | 272-283 | `Settle`, `SettleAudit`, `ThrowInSettle` |
| `record` | the audit rows of the early returns | `Recorded` |
| `report` | 297-300 | `Report`, `ReportLost` |

`Throw` is any failing statement outside the `try`; `Restart` is a crash and the
restart by systemd: rows survive, process variables do not. `Arm` is the arm
route. `Expire` is time passing. `sent` holds the health row as it was when its
statement was sent, because another heartbeat may change `mode` before it is
answered.

Abstractions: `executable_now` is part of the status EXECUTABLE; a row's
numbers appear as the facts the gates read (`sized`, `profitable`, `ratio`);
`DATABASE_URL` is set; the Redis heartbeat key is left out (written, never
read). `executePair` is represented by its gates and by the results `CexPair`
can give; it may also throw.

### Pairs

`Venue` keeps, for each leg, the requests on the wire, the order and the lots
filled. A request may arrive long after the caller gave up on it, or never; an
order may fill or be dropped at any moment. A venue reports "closed" only for
an order filled in full: that is the one assumption about ccxt the pair
functions rest on. A cancel that resolves says nothing of the order: exchanges
acknowledge before they act, so an order may go on working, and fill, after the
cancel of `executePair` has resolved and the pair is reported FAILED. `CexPair` and `HummingbotPair` add the await the function has
reached (`stage`), the call of each leg within it (`call`) and what was read
(`seen`). `Promise.all` is modelled as it is: the first rejection ends the
function and the other call goes on. In `HummingbotPair` a create is accepted
by the API before the venue has it, so a cancel may overtake its create; there
a leg's `waitForOrder` that continues after the other leg's failure only reads,
and is left out.

`PairTrade` is the promise: no order without passing gates, one verdict, never
revised, COMPLETED only with both legs full, and an order may still appear only
after the verdicts in `Overtaken`. For `executePair` these are throws only. For
`executeHummingbotPair` they are every verdict but COMPLETED, which is the real
difference between the two connectors.

### DEX swap

`stage` is the await of `executeDexOpportunity`. `tx` is the word the gateway
uses for the transaction: the client folds it to CONFIRMED, FAILED or PENDING
(`StatusOf`), and a word it does not know is PENDING for ever. `profit` is the
newest net profit the function has been shown; `Submit` replaces it by the
quote's, which nothing compares. After a swap request has failed the swap may
still be on its way (`wire`): `QuietUnlessThrown` says that this is so only after
a throw. The client never fills in
`expiresAt`, so line 50 cannot fire and has no action.

### Coordinated release

`at[l]` is the provider call leg `l` awaits; `answer` what it was told; `now`
the moment line 38 of `coordinated-preflight.ts` noted before asking. The
checks of the preflight partly repeat those of the leg. Both are modelled.
Whoever takes the plan from the validation to the release is external.

Funds are raw units. `Takes` is what a leg's trade takes from its account,
`Required` what the provider demands: the Hummingbot provider the quantity of
the leg, the DEX provider what `requiredCapital` computes, or the quantity when
there is none (`pricing`). `Told` is what a provider makes of an amount. Both
providers compare doubles in units of the asset, and raw amounts that share one
differ by less than raw / 2^52 (`Reads`; `Exact` is the 2^52), for up to 22
decimals, where the divisor of `rpc-dex-source.ts:47` is exact. Which ones share
one depends on the decimals and is a choice. The RPC source throws for a raw
amount that is no safe integer, so on a chain at most one unit is invisible:
8999999999999999 wei read as 0.009. `strict` is the second route,
`coordinated-runtime-preflight.ts` through `authoritative-preflight.ts`, which
differs by refusing a leg that requires nothing (`Firm`). `short` collects the
legs that passed a check while more than that one unit short. The rounding inside
a caller's `requiredCapital` is the caller's and is left out.

### Legacy pair

`leg` is the leg `executePair` is at, `call` the call of it that is awaited:
`check` (health and books), `create`, then the loop of `status` and `sleep`,
then `cancel` and `final`. The three connectors differ in where the loop looks
at the clock (`First`, `Loops`), in what an answer may say (`Read`, `Reported`)
and in the checks; LIVE replaces the connector by the Hummingbot one (`Start`).
Each leg's order lives on a venue of its own that may be slow, lose requests,
fill at any moment, and drop the order. `given` are the legs somebody asked to
be cancelled. `late` and `exposed` stand for the two comparisons with
`Date.now()`.

### Start-up

One action is one module body: `Start` is systemd or the operator, `Decides`
the gate with the rewriting of `process.env` and the import of the next module,
`RegistryThrows` its other outcome. `bootstrap.ts` and `index.ts` have the same
body, so the gate runs twice over what the first run left. `Edit` is the
operator and the environment file. An environment is what the code reads of it:
the two mode words, with "live" for any other spelling of LIVE, and which
settings are present.

### Admission

The parts are functions; the module takes them one loop turn at a time, in the
order of `docs/ARCHITECTURE.md:11`: `Scan` (quote ages), `TakeLevel` and
`EndWalk` for the asks and then the bids, `Net`, `CollectSource` per capital
source, `Assess`, `Risk`. The profit floor of the risk gates is computed; the five
gates on what the caller measured fail in any combination. The references they are checked against are written
without order or loop: `Fillings` are all ways to fill the quantity from a book.
`Covers` sums up the offers of a set of sources. The older `opportunity-engine`
computes the same in single expressions.

Floating-point rounding is left out here, and it does matter to the code:
three levels of 10.1 add up to 30.3, but in doubles to 30.299999999999997, which
the `Number.EPSILON` of `vwap.ts:31` does not bridge, so `scanPair` gives up a
book that is exactly thick enough. "Given up only when the books are too thin" in
`WalkIsBest` holds for sizes that doubles add exactly.

### Redis lock

`pc` is the await of each call, `command` its command under way. The client may
send a command again after a broken connection, and the await may throw while
the command is still under way. `Tick` is the clock of Redis; `expired` are the
calls whose key it has dropped, which nothing tells them.

## Runs

| Run | Result | Distinct states | Question |
|---|---|---|---|
| `Worker_overlap` | pass | 312,796 | two heartbeats, two rows, one fault, one crash: no orders, gated starts, final statuses, rows resolve |
| `Worker_serial` | pass | 422,000 | one heartbeat at a time, four rows, two faults, two crashes: at most one start, no silent orphan latch |
| `Worker_double` | violation | | `AtMostOnce` with overlapping heartbeats |
| `CexPair_answers` | pass | 2,189 | every leg of a FAILED pair full or asked to be cancelled, quiet after the answer, the promise of `PairTrade` |
| `HummingbotPair_answers` | pass | 25,892 | quiet after the answer, an answer, the promise of `PairTrade` |
| `DexSwap_answers` | pass | 244 | verdicts true of the chain, a traceable timeout, no swap after an answer but a throw, an answer |
| `CoordinatedRelease_legs` | pass | 1,603,480 | covered, agreed, refused for cause, funds there, an answer |
| `LegacyPair_answers` | pass | 14,134 | never short, hedged when completed, nothing forgotten, an answer |
| `Startup_gate` | pass | 71,680 | fails closed, the log is true, systemd brings it back |
| `Startup_rpc` | violation | | a missing RPC address is answered by the gate |
| `Admission_books` | pass | 278,080 | best filling, cheapest capital, an admitted trade pays |
| `RedisLock_ttl` | pass | 536,904 | exclusive in time, kept while running, freed |

Bounds and why they suffice. Two heartbeats: the hazards of the worker are
between one that has read `executing` and one that has not yet set it. Four
rows: one per outcome of the gates (exchange pair, funded pair, DEX leg, too
large); two where heartbeats overlap, so that the second can select another
row. `MaxFaults` and `MaxRestarts` of one or two reach a failure in every await
and a failure while a failure is handled. `Qty = 2`: untouched, partly filled,
full. `Profits = {0, 1, 2}` with `MinProfit = 1`: below, at and above the gate.
`MaxAge = 1`, `MaxClock = 2`: a fresh, a stale and a future quote, and two quotes
further apart than `MaxAge`. `Quantity = 5`, `Price = 2`, `Exact = 4`, `MaxRaw =
10`: amounts on both sides of what each leg takes and of the largest safe integer
(7), with a sell of 5 that 4 units pass for and a cost of 10 that 8 would pass for
if unsafe amounts were not refused. (So a buy on a chain that asks for its cost is
never released in this run; the theorem covers it.) Books of up to three levels at four prices, one of them invalid, with a
quantity of two: a level taken in part, levels skipped, books too thin. Three
lock calls: an expired holder, the next one, and a third whose command is late.
`MaxEdits = MaxCrashes = 1`: what happens after each is the same start again.
The proofs remove these bounds for the safety properties they cover.

Deadlock checking is off in all runs but those of the worker: the functions
return, and their models stop there; a worker whose process is down in `Startup`
and started by hand may stay down.

### Fairness

- Worker: `setInterval` keeps firing, and every call of a heartbeat settles
  (pg, the signer service and the adapters answer or fail). No fairness for
  faults, crashes, the operator or expiry. `ExecutingResolves` excuses a row
  once a fault or a crash has happened: those do strand it.
- Pairs, also the legacy one: calls and timers settle and the clock advances;
  nothing is assumed of the venue, neither that a request arrives nor that an
  order fills.
- DEX swap: each gateway call settles and the clock advances; nothing makes the
  chain end a transaction.
- Release: every provider call settles; this is assumed of the venues, see below.
- Start-up: modules run to their end, and systemd starts `index.js` again
  (`Restart=always`); nobody restarts a `bootstrap.ts` started by hand, and no
  edit is assumed.
- Redis lock: the clock of Redis goes on; neither commands nor `fn` are fair.

One place weakens "settles": `hummingbot.ts:34` returns `response.json()`
without awaiting it, and so does `dex-gateway.ts:93`. The `finally` clears the
abort timer before the body has arrived, so a body that stalls is never timed
out. It is a hazard without a property.

## Where the code and its documents differ

Two differences are runs:

- `Worker_double`: `docs/ARCHITECTURE.md:31` promises that idempotency keys
  prevent duplicate execution. Two overlapping heartbeats write
  TRADE_EXECUTION_STARTED twice for one row and call `executePair` twice.
- `Startup_rpc`: `docs/LIVE_TEST.md:41` wants missing RPC credentials reported as
  NOT_CONFIGURED, and `live-startup-gate.test.ts:34` expects the gate to answer
  RPC_NOT_CONFIGURED. The registry throws before the gate answers, in every mode;
  the process dies and systemd restarts it, until somebody edits the file.

Others are reachable in the models, and follow from reading them:

- `runtime.ts:5` allows only STOPPED after EMERGENCY_STOP; the next heartbeat of
  the worker overwrites it (lines 134, 139, 162, 169, 199, 226).
- `docs/ARCHITECTURE.md:31` makes reconciliation authoritative; a leg that fills
  between its status read and its cancel leaves both legs filled and the pair
  reported FAILED (`cex-pair.ts:84`), and a cancel that was only acknowledged
  leaves its order working.
- `README.md:45` names quote freshness as a gate; `hummingbot-pair.ts:120` reads
  the expiry before five awaits, and the orders of 142 go out after it.
- `docs/DEX_GATEWAY_LIVE_CHECKLIST.md:15` wants the net profit above the buffer
  immediately before submission; `dex-execution.ts:27` reads the profit before
  the quote, and the quote's own profit is never computed.

One more lies outside the models. `README.md:66` and `docs/LIVE_TEST.md:6` of the
repository have `001_core.sql` applied, and `docs/DATABASE_ARCHITECTURE.md:26` all
of `migrations/*.sql`, where `create table if not exists` keeps the tables of the
first file. Neither file declares `opportunities.expected_net_profit`, which the
candidate query reads (`worker-core.ts:147`), and `001_core.sql` declares
`audit_logs` without the `details` that the worker writes (260). With these tables
every armed heartbeat fails at the query and ends in EMERGENCY_STOP. `Worker`
is checked against the tables its statements are written for.

Facts that contradict no document: no configuration lets the worker place an
order (`NeverOrders`: line 207 of the worker refuses what line 59 of the pair
demands); a crash between `Mark` and `Settle` leaves a row EXECUTING for ever;
the disarm and emergency-stop routes write nothing; a filled leg whose partner
stays empty is left alone (nothing calls `needsRecovery`); a quote that passes
the preflight may be older than `maxQuoteAgeMs` when the plan is released.
The legacy pair hedges a sell shortfall only after `maxUnhedgedMs`, and then by
buying the rest once more (118 with 88 and 101); its Hummingbot hedge is stopped
by the spread check and leaves the bought leg open. A buying leg on Hummingbot
is checked for the quantity of the base asset in its quote balance
(`hummingbot-readiness.ts:19`): that leg is the exception in `FundsWereThere`. A
balance or allowance above 2^53-1 raw units, some 0.009 of a token with 18
decimals and every unlimited approval, cannot be confirmed
(`rpc-dex-source.ts:44`), and below that the last unit may not be seen. Capital
sources are listed in the order they were collected until they cover the notional:
a large dear one at the end may cover it alone, and the cheap ones before it stay
listed (`opportunity-capital.ts:8`). The safety reserve is subtracted by the scanner and
compared once more by the capital gate, so an admitted trade earns more than
twice the reserve before it is subtracted. A SET that the Redis client repeats
is refused by the key the first one set: the caller is told BUSY and nobody
holds the lock until its time is over.

## Proofs

| Module | Theorems | Inductive invariant |
|---|---|---|
| `WorkerProofs` | `Typing`, `NoOrders`, `GatedStarts`, `FinalStays`; `StartedOnce`, `OrphanStops` while heartbeats are serial | `GateInv`, `SerialInv` |
| `VenueProofs` | `VenueKeeps` | `VenueSound`: closed means full, a create is on the wire only before the order exists |
| `CexPairProofs` | `Typing`, `Hedged`, `FailureAsked`, `Quiet`, `Implements` | `Inv` |
| `HummingbotPairProofs` | `Typing`, `Hedged`, `Quiet`, `Implements` | `Inv` |
| `CoordinatedReleaseProofs` | `Typing`, `Covered`, `Agree`, `Caused`, `Funds` | `Inv` |
| `LegacyPairProofs` | `Typing`, `NoShort`, `Hedged`, `Abandoned` | `Inv` |
| `StandaloneProofs`, `DexSwap` | `SwapTyping`, `SwapTruthful`, `SwapTraceable`, `SwapQuiet` | `SwapInv` |
| `StandaloneProofs`, `RedisLock` | `LockTyping`, `LockExclusive`, `LockKept` | `LockInv` |
| `StandaloneProofs`, `Startup` | `StartTyping`, `Closed`, `LoggedTrue`, `WorkerEnvironment` | `StartInv` |
| `AdmissionProofs` | `Typing`, `BestFilling`, `CheapestSources`, `AdmittedEarns` | `IInv` |

Assumptions are the named `ASSUME`s of the modules: rows are typed, `NoOpp` is no
row, the funded source is a source, the bounds are naturals, `Qty` is a positive
natural, profits are integers, `MaxAge` is a positive natural, quantity, price and
`Exact` are positive naturals, a ttl is a positive natural and `Nobody` is no token. In
`Admission` levels, costs and offers are integers, there are finitely many sources
and `accessibleAmount` is not negative: it is what a source holds, and with a
negative one the sources collected would not be the cheapest. That a book comes
with its best price first is part of `Init`: the exchanges sort it. `StartedOnce` and
`OrphanStops` also assume `Serial`, that there is one heartbeat: `Worker_double`
shows that the first is false without it.

Why the invariants are needed. `StartsAreGated` speaks of rows that have been
started; `GateInv` adds what a heartbeat knows at each await, in particular that
it holds a row that passed the gates and that the control row was armed when it
went on (nothing disarms it). `SerialInv` ties the latch, the place of the only
heartbeat and the status of its row together, so that a row whose start was
announced is no longer EXECUTABLE. For the pairs, `CompletedIsHedged` follows
because a leg seen closed stays closed (`VenueKeeps`): `Inv` says that every leg
in `seen` is closed, that an order exists once its create was answered, and, for
the refinement, that orders exist only for an opportunity that passed its gates
and that no create is on the wire after a verdict outside `Overtaken`. While
cancels run and after FAILED, a leg without a call is one in `seen`. For the
swap, whoever polls knows a transaction and the wire carries no second one. For
the release, a leg that is ready has every answer and a leg that is done and not
ready has been told no; `QuotesAgree` is arithmetic on the bounds of each quote;
a leg gets into `short` only by what its provider demanded being less than what
the trade takes (`ReadsClose`: what shares a double with a safe amount is at most
one unit above it), which the invariant remembers until the release. For the legacy
pair, what was seen filled of a leg never exceeds what the venue has filled, and
a sell or a hedge is never started for more: `Inv` adds that an order seen final
stays as it was seen. For the lock, a call that runs holds the key or has
expired: `LockInv` ties each command under way to the await of its call, so that a
SET or a release that comes late never belongs to a call that is running. For the
start, the environment is always the one the process was started with after one
pass of the gate, and a second pass changes nothing (`GateIsIdempotent`);
`WorkerEnvironment` is what `Worker` takes for granted of its `Envs`.

For `Admission`, `Walked` says of the walk under way that some filling of the
levels passed so far has the size and the worth noted, with every valid level
taken whole, and once the quantity is filled, whole up to a last level k. From
that `WalkFills` follows by exchange: with the best price first, what another
filling moves away from levels before k to levels behind it is worth no less (for
the asks; no more for the bids), level by level and so in the sum. A filling
that leaves out a level cannot make up for it elsewhere, so a book that ends too
early has none (`WalkThin`). For the capital, the invariant carries the last
source needed: without it the others do not cover the notional, it is the
dearest, and everything not collected costs at least as much. TLC has checked
this invariant on the instance of `Admission_books`.

The sums are `SumFunctionOnSet` of the community modules, whose definition is a
recursive function over the subsets of its domain. What it computes is proved by
induction all the same, with a set of good cases in the place of a predicate: a
set of natural numbers, or of subsets of a finite set, that misses one misses a
least one (`NatSet`, `SubsetInduction`).

`CompletedIsHedged` of `CexPair` and `HummingbotPair` and the types of both are
proved and no run checks them apart: `PairTrade`, which the runs check, says the
first of them too.

`Implements` is proved as: initial states map to initial states, and every step
maps to a step of `PairTrade` or a stutter. The mapping is direct
(`admitted` is "no gate fails").

Only model-checked: the liveness properties (`ExecutingResolves`, the four
`Answers`, `ComesBack`, `Freed`), because fairness and ENABLED are beyond the
prover. Every invariant and every other action property of a passing run is a
theorem; `AtMostOnce` and `OrphanLatchStops` are theorems where heartbeats do not
overlap, as in `Worker_serial`.

## Not modelled, and why

- `cex-connector.ts`: it calls `orderStatus(symbol, id)` where the adapter takes
  `(id, symbol)`, likewise `cancelOrder`, and `createOrder` with `quantity` where
  the adapter reads `amount`. Every execution throws; a model would have one step.
- `dex-gateway-client.ts`: exported by nothing, and the regular expression on its
  line 45 does not parse. `gateway-live-policy.ts`, `runtime-config-gate.ts`,
  `runtime.ts`, `plan.ts`, `preflight.ts`: functions of one expression or a
  table that nothing calls. `dex-runtime.ts`: a health check.
- `opportunity-engine` and `risk-engine/index.ts`: what `Admission` models, again,
  as single expressions; `rank.ts` is one sort. `selectCapital` and
  `qualifiesCapital` judge one source each and have no caller.
- Signer, adapters, gateway, exchanges, Redis and PostgreSQL by their answers
  only: they are external, or wrappers around what is.
- Pages, sign-in and stored credentials: single statements that share nothing
  with execution. The SQL of the migrations beyond the columns the worker uses.
  Logging.
- A composition of `Worker` with `CexPair`: the worker takes `executePair`'s
  result as any the pair can give. While line 207 of the worker refuses what
  line 59 of the pair demands no order follows a row (`NeverOrders`), so there
  is nothing to relate yet.
