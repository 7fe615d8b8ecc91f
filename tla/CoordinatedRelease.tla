-------------------------- MODULE CoordinatedRelease --------------------------
(***************************************************************************)
(* From an opportunity to the release of a two-leg plan, in                *)
(* packages/execution/src: validateCoordinatedOpportunity makes the plan,  *)
(* releaseCoordinatedExecution, or runCoordinatedRuntimePreflight for a    *)
(* strict caller, has both legs checked concurrently and lets the plan go  *)
(* if both pass.  An exchange leg asks the Hummingbot provider, a chain    *)
(* leg the DEX provider over RPC.  What they read is external: each call   *)
(* settles after any delay, and balances change between the calls.         *)
(***************************************************************************)
EXTENDS Integers

CONSTANTS
  MaxAge,    \* maxQuoteAgeMs
  MaxClock,  \* bound on the clock
  Quantity,  \* the quantity of both legs, in raw units of the base asset
  Price,     \* raw units of the quote asset for one of the base asset
  Exact,     \* 2^52: raw amounts below it keep apart when divided in doubles
  MaxRaw     \* bound on what an account or a contract answers

ASSUME TimeAssumption == MaxAge \in Nat \ {0} /\ MaxClock \in Nat
ASSUME AmountAssumption ==
  Quantity \in Nat \ {0} /\ Price \in Nat \ {0} /\ Exact \in Nat \ {0} /\ MaxRaw \in Nat

Safe == 2 * Exact - 1     \* Number.MAX_SAFE_INTEGER

VARIABLES
  clock,     \* Date.now()
  kind,      \* CEX or DEX, for each leg
  equipped,  \* the DEX provider has wallet and allowance
  pricing,   \* what requiredCapital of the DEX provider computes
  strict,    \* the legs are asked through the authoritative provider
  offer,     \* the opportunity and the policy
  stage,     \* how far the plan has come
  now,       \* the time the preflight compares with
  at,        \* the provider call each leg awaits
  answer,    \* what the providers said, for each leg and topic
  stamp,     \* the time of each leg's quote
  ready,     \* LegPreflightResult.ready
  short      \* legs that passed a check with funds more than a raw unit short

given == <<kind, equipped, pricing, strict, offer>>
legs == <<at, answer, stamp, ready, short>>
vars == <<clock, given, stage, now, legs>>

Legs == {"BUY", "SELL"}
Topics == {"capital", "quote", "profit", "wallet", "allowance"}
Pricings == {"quantity", "cost", "nothing"}
Amounts == 0 .. MaxRaw
Time == 0 .. MaxClock
Offers == [gains : BOOLEAN, sound : BOOLEAN, policy : BOOLEAN,
           stamp : Time, expires : Time]

TypeOK ==
  /\ clock \in Time /\ now \in Time
  /\ kind \in [Legs -> {"CEX", "DEX"}]
  /\ equipped \in BOOLEAN
  /\ pricing \in Pricings
  /\ strict \in BOOLEAN
  /\ offer \in Offers
  /\ stage \in {"offered", "planned", "preflight", "released", "refused"}
  /\ at \in [Legs -> {"idle", "capital", "quote", "wallet", "allowance", "done"}]
  /\ answer \in [Legs -> [Topics -> {"unasked", "yes", "no"}]]
  /\ stamp \in [Legs -> Time]
  /\ ready \in [Legs -> BOOLEAN]
  /\ short \subseteq Legs

Init ==
  /\ clock = 0 /\ now = 0
  /\ kind \in [Legs -> {"CEX", "DEX"}]
  /\ equipped \in BOOLEAN
  /\ pricing \in Pricings
  /\ strict \in BOOLEAN
  /\ offer \in Offers
  /\ stage = "offered"
  /\ at = [l \in Legs |-> "idle"]
  /\ answer = [l \in Legs |-> [t \in Topics |-> "unasked"]]
  /\ stamp = [l \in Legs |-> 0]
  /\ ready = [l \in Legs |-> FALSE]
  /\ short = {}

\* A time t is neither after `from` nor more than MaxAge before it.
\* Mutant of Fresh: a time after `from` is let through.
FreshOrLater(t, from) == from - t <= MaxAge
Fresh(t, from) == t <= from /\ from - t <= MaxAge

\* createCoordinatedExecutionPlan throws unless ids, quantity and timeout do.
PlanMade == offer.sound

\* validateCoordinatedOpportunity: profit, quote age and expiry, then the plan.
Acceptable ==
  /\ offer.gains
  /\ Fresh(offer.stamp, clock)
  /\ offer.expires > clock

Validate ==
  /\ stage = "offered"
  /\ stage' = IF Acceptable /\ PlanMade THEN "planned" ELSE "refused"
  /\ UNCHANGED <<clock, given, now, legs>>

\* releaseCoordinatedExecution: a negative minNetProfit is refused (policy);
\* otherwise the time is noted and both legs are asked at once.
StartPreflight ==
  /\ stage = "planned"
  /\ IF offer.policy
       THEN stage' = "preflight" /\ now' = clock /\ at' = [l \in Legs |-> "capital"]
       ELSE stage' = "refused" /\ UNCHANGED <<now, at>>
  /\ UNCHANGED <<clock, given, answer, stamp, ready, short>>

Says(l, t, a) == answer' = [answer EXCEPT ![l][t] = a]
Turns(l, next) == at' = [at EXCEPT ![l] = next]
Settles(l, verdict) == Turns(l, "done") /\ ready' = [ready EXCEPT ![l] = verdict]

\* A buy takes the quote asset from its account, a sell the base asset.
Takes(l) == IF l = "BUY" THEN Quantity * Price ELSE Quantity

\* What the providers demand: the Hummingbot provider the quantity of the leg,
\* the DEX provider what requiredCapital says, or else the quantity too.
HummingbotRequires == Quantity
DexRequires(l) ==
  CASE pricing = "quantity" -> Quantity
    [] pricing = "cost" -> Takes(l)
    [] pricing = "nothing" -> 0
Required(l) == IF kind[l] = "CEX" THEN HummingbotRequires ELSE DexRequires(l)

\* A double in units of the asset has 53 bits: raw amounts that share one differ
\* by less than raw / 2^52, and which ones do depends on the decimals (up to 22,
\* where 10 ** decimals is exact).
Reads(raw) == raw .. (raw + raw \div Exact)

\* What a provider makes of an amount, as the highest raw amount it cannot tell
\* from it.  Both come as doubles; only the RPC source throws for a raw amount
\* that is no safe integer (toNumber, lines 41 to 48).
\* Mutant of Told: the safe-integer check is not there.
ToldRounded(l, raw) == Reads(raw)
Told(l, raw) == IF kind[l] = "DEX" /\ raw > Safe THEN {} ELSE Reads(raw)

\* The answer about an amount, and whether it was wrong about what l takes by
\* more than the one unit that line 47 cannot see.
Compares(l, t, raw, told) ==
  /\ Says(l, t, IF told >= Required(l) THEN "yes" ELSE "no")
  /\ short' = IF told >= Required(l) /\ raw + 1 < Takes(l) THEN short \cup {l} ELSE short

\* Mutant of CapitalAnswers: the provider's own word is kept as the answer.
CapitalAnswersRaw(l) ==
  /\ at[l] = "capital"
  /\ \E a \in {"yes", "short"} : Says(l, "capital", a)
  /\ Turns(l, "quote")
  /\ UNCHANGED <<clock, given, stage, now, stamp, ready, short>>
CapitalAnswers(l) ==
  /\ at[l] = "capital"
  /\ \E raw \in Amounts : \E told \in Told(l, raw) : Compares(l, "capital", raw, told)
  /\ Turns(l, "quote")
  /\ UNCHANGED <<clock, given, stage, now, stamp, ready>>

\* The authoritative provider passes a ready leg on if it requires something.
Firm(l) == strict => Required(l) > 0

\* The quote is stamped at any time up to now; only then is capital judged.
QuoteAnswers(l) ==
  /\ at[l] = "quote"
  /\ \E t \in Time, q \in {"yes", "no"}, p \in {"yes", "no"} :
       /\ t <= clock
       /\ stamp' = [stamp EXCEPT ![l] = t]
       /\ answer' = [answer EXCEPT ![l].quote = q, ![l].profit = p]
  /\ CASE answer[l].capital = "no" \/ answer'[l].quote = "no" -> Settles(l, FALSE)
       [] OTHER ->
            CASE kind[l] = "CEX" -> Settles(l, Firm(l))
              [] kind[l] = "DEX" /\ ~equipped -> Settles(l, FALSE)
              [] OTHER -> Turns(l, "wallet") /\ UNCHANGED ready
  /\ UNCHANGED <<clock, given, stage, now, short>>

\* The wallet is there if ownerForLeg names an owner.
WalletAnswers(l) ==
  /\ at[l] = "wallet"
  /\ \E a \in {"yes", "no"} : Says(l, "wallet", a)
  /\ Turns(l, "allowance")
  /\ UNCHANGED <<clock, given, stage, now, stamp, ready, short>>

\* No allowance without owner or spender; else the chain is read once more.
AllowanceAnswers(l) ==
  /\ at[l] = "allowance"
  /\ \/ Says(l, "allowance", "no") /\ UNCHANGED short
     \/ \E raw \in Amounts : \E told \in Told(l, raw) : Compares(l, "allowance", raw, told)
  /\ Settles(l, answer'[l].allowance = "yes" /\ answer[l].wallet = "yes" /\ Firm(l))
  /\ UNCHANGED <<clock, given, stage, now, stamp>>

\* A provider call that throws leaves the leg not ready (the catch of line 55).
\* Mutant of ProviderThrows: the throw escapes and the leg is never settled.
ProviderThrowsOn(l) ==
  /\ at[l] \in {"capital", "quote", "wallet", "allowance"}
  /\ Says(l, at[l], "no")
  /\ Turns(l, "idle")
  /\ UNCHANGED <<clock, given, stage, now, stamp, ready, short>>
ProviderThrows(l) ==
  /\ at[l] \in {"capital", "quote", "wallet", "allowance"}
  /\ Says(l, at[l], "no")
  /\ Settles(l, FALSE)
  /\ UNCHANGED <<clock, given, stage, now, stamp, short>>

\* The loop body of preflightCoordinatedExecution.
\* Mutant of LegPasses: wallet and allowance are demanded of every leg.
LegPassesOnChain(l) ==
  /\ ready[l]
  /\ answer[l].wallet = "yes" /\ answer[l].allowance = "yes"
  /\ Fresh(stamp[l], now)
  /\ answer[l].profit = "yes"
LegPasses(l) ==
  /\ ready[l]
  /\ answer[l].capital = "yes"
  /\ kind[l] = "DEX" => answer[l].wallet = "yes" /\ answer[l].allowance = "yes"
  /\ Fresh(stamp[l], now)
  /\ answer[l].profit = "yes"

\* Mutant of Decide: the first leg that answers decides (Promise.race).
DecideOnFirst ==
  /\ stage = "preflight"
  /\ \E l \in Legs :
       /\ at[l] = "done"
       /\ stage' = IF LegPasses(l) THEN "released" ELSE "refused"
  /\ UNCHANGED <<clock, given, now, legs>>
Decide ==
  /\ stage = "preflight"
  /\ \A l \in Legs : at[l] = "done"
  /\ stage' = IF \A l \in Legs : LegPasses(l) THEN "released" ELSE "refused"
  /\ UNCHANGED <<clock, given, now, legs>>

Tick ==
  /\ clock < MaxClock
  /\ clock' = clock + 1
  /\ UNCHANGED <<given, stage, now, legs>>

Calls ==
  \/ Validate \/ StartPreflight \/ Decide
  \/ \E l \in Legs :
       CapitalAnswers(l) \/ QuoteAnswers(l) \/ WalletAnswers(l)
       \/ AllowanceAnswers(l) \/ ProviderThrows(l)
Next == Calls \/ Tick

\* Every provider call settles.  The clients' timeouts do not give this: an HTTP
\* body that stalls after the headers has none.  It is assumed of the venues.
Spec == Init /\ [][Next]_vars /\ WF_vars(Calls)

\* Nothing is released unless both legs have answered, can pay, gain more than
\* the minimum and, on a chain, have wallet and allowance (lines 41 to 58):
\* the legs answer concurrently and a throw of one leaves the other running.
ReleasedIsCovered ==
  stage = "released" =>
    \A l \in Legs :
      /\ at[l] = "done"
      /\ \A t \in {"capital", "quote", "profit"} : answer[l][t] = "yes"
      /\ kind[l] = "DEX" => answer[l].wallet = "yes" /\ answer[l].allowance = "yes"

\* The two quotes a release rests on are at most MaxAge apart, so the spread
\* was there at about one time (line 52, which looks at each quote alone).
QuotesAgree ==
  stage = "released" => \A l, m \in Legs : stamp[l] - stamp[m] <= MaxAge

\* A plan that was asked about is refused only for something a provider said,
\* or did not offer, for nothing required, or for a stale quote: a leg on an exchange needs no
\* wallet and no allowance (lines 28 to 32 and 48).
RefusedForCause ==
  stage = "refused" /\ (\A l \in Legs : at[l] # "idle") =>
    \E l \in Legs :
      \/ \E t \in Topics : answer[l][t] = "no"
      \/ ~Fresh(stamp[l], now)
      \/ kind[l] = "DEX" /\ ~equipped
      \/ ~Firm(l)

\* A leg that is released had, when it was asked, what its trade takes, short of
\* at most one raw unit, and on a chain was allowed to spend it: what a double
\* cannot tell is refused (rpc-dex-source.ts lines 41 to 48).  Left out are a buy
\* whose provider demands the quantity of the base asset from its quote asset
\* (hummingbot-readiness.ts line 19), a quantity past the safe integers on an
\* exchange, where nothing refuses it, and a caller who demands nothing.
FundsWereThere ==
  stage = "released" =>
    \A l \in short :
      CASE kind[l] = "CEX" -> l = "BUY" \/ Quantity > Safe
        [] kind[l] = "DEX" /\ pricing = "quantity" -> l = "BUY"
        [] OTHER -> pricing = "nothing" /\ ~strict

\* The caller gets an answer, whatever the providers throw.
Answers == <>(stage \in {"released", "refused"})
=============================================================================
