----------------------------- MODULE Admission -----------------------------
(***************************************************************************)
(* How a trade is admitted, in the order of docs/ARCHITECTURE.md:11: the   *)
(* scanner fills a quantity from two order books level by level and nets   *)
(* the costs (market-engine), the capital engine collects sources until    *)
(* the notional is covered, the risk gates look at the snapshot.  Each     *)
(* part is a function of the repository; who calls them in turn is         *)
(* external.  Rounding of floating-point numbers is left out: prices,      *)
(* sizes and costs are integers, fees are percentages.                     *)
(***************************************************************************)
EXTENDS Integers, Sequences, FiniteSetsExt, Functions

CONSTANTS
  Levels,             \* the levels a book is made of, invalid ones included
  MaxLevels,          \* bound on the length of a book
  Quantity,           \* config.quantity
  FeeBuy, FeeSell,    \* taker fees, in percent
  Fixed, Reserve,     \* all other costs, and the safety reserve
  MinProfit,          \* config.minProfit
  Sources,            \* capital sources
  Offers              \* what a source may offer: [amount, cost, usable]

ASSUME QuantityAssumption == Quantity \in Nat \ {0}
ASSUME BookAssumption == Levels \subseteq [price: Int, quantity: Int] /\ MaxLevels \in Nat
ASSUME CostAssumption == {FeeBuy, FeeSell, Fixed, Reserve, MinProfit} \subseteq Int
\* accessibleAmount is what a source holds: it is not negative.
ASSUME SourceAssumption ==
  /\ IsFiniteSet(Sources)
  /\ Offers # {} /\ Offers \subseteq [amount: Nat, cost: Int, usable: BOOLEAN]

VARIABLES
  asks, bids,         \* the books of the venue to buy at and the one to sell at
  fresh,              \* the books whose snapshot is young enough
  stage,              \* the function at work
  cursor,             \* the next level of the book it walks
  remaining,          \* what that walk has still to fill
  notional,           \* what each finished or running walk has cost or earned
  offer,              \* what each source offers
  taken, amount,      \* the sources collected, and what they add up to
  verdict

books == <<asks, bids, fresh>>
walk == <<cursor, remaining, notional>>
capital == <<offer, taken, amount>>
vars == <<books, walk, capital, stage, verdict>>

Sides == {"asks", "bids"}
Valid(level) == level.price > 0 /\ level.quantity > 0

\* An adapter reports a book with its best price first; a level without a
\* price or a size can be anywhere in it.
BestFirst(book, Better(_, _)) ==
  \A i, j \in DOMAIN book :
    i < j /\ Valid(book[i]) /\ Valid(book[j]) => Better(book[i].price, book[j].price)
Books == UNION {[1..n -> Levels] : n \in 0..MaxLevels}

TypeOK ==
  /\ asks \in Seq(Levels) /\ bids \in Seq(Levels) /\ fresh \subseteq Sides
  /\ stage \in {"scan", "asks", "bids", "net", "capital", "risk", "done"}
  /\ cursor \in 1..(MaxLevels + 1)
  /\ remaining \in 0..Quantity
  /\ notional \in [Sides -> Nat]
  /\ offer \in [Sources -> Offers] /\ taken \subseteq Sources
  /\ amount \in 0..notional["asks"]
  /\ verdict \in {"none", "rejected", "admitted"}

Init ==
  /\ asks \in {b \in Books : BestFirst(b, <=)}
  /\ bids \in {b \in Books : BestFirst(b, >=)}
  /\ fresh \in SUBSET Sides
  /\ stage = "scan" /\ cursor = 1 /\ remaining = Quantity
  /\ notional = [s \in Sides |-> 0]
  /\ offer \in [Sources -> {CHOOSE o \in Offers : TRUE}]
  /\ taken = {} /\ amount = 0
  /\ verdict = "none"

Goes(s) == stage' = s /\ UNCHANGED verdict
Rejects == stage' = "done" /\ verdict' = "rejected"

-----------------------------------------------------------------------------
\* scanPair, executableVwap.

Book == IF stage = "asks" THEN asks ELSE bids
Walking == stage \in Sides

\* scanner.ts 42: both snapshots are young enough.
\* Mutant of Scan: && instead of ||, one young snapshot is enough.
ScanOne ==
  /\ stage = "scan"
  /\ IF fresh # {} THEN Goes("asks") ELSE Rejects
  /\ UNCHANGED <<books, walk, capital>>
Scan ==
  /\ stage = "scan"
  /\ IF fresh = Sides THEN Goes("asks") ELSE Rejects
  /\ UNCHANGED <<books, walk, capital>>

\* One turn of the loop, vwap.ts 19 to 26.
\* Mutant of TakeLevel: the whole level is taken.
TakeLevelWhole ==
  /\ Walking
  /\ remaining > 0 /\ cursor <= Len(Book)
  /\ cursor' = cursor + 1
  /\ LET level == Book[cursor]
         take == Min({remaining, level.quantity})
     IN IF Valid(level)
          THEN /\ remaining' = remaining - take
               /\ notional' = [notional EXCEPT ![stage] = @ + level.quantity * level.price]
          ELSE UNCHANGED <<remaining, notional>>
  /\ UNCHANGED <<books, capital, stage, verdict>>
TakeLevel ==
  /\ Walking
  /\ remaining > 0 /\ cursor <= Len(Book)
  /\ cursor' = cursor + 1
  /\ LET level == Book[cursor]
         take == Min({remaining, level.quantity})
     IN IF Valid(level)
          THEN /\ remaining' = remaining - take
               /\ notional' = [notional EXCEPT ![stage] = @ + take * level.price]
          ELSE UNCHANGED <<remaining, notional>>
  /\ UNCHANGED <<books, capital, stage, verdict>>

\* The quantity is filled, or the book is too thin (46).
EndWalk ==
  /\ Walking
  /\ remaining = 0 \/ cursor > Len(Book)
  /\ IF remaining > 0 THEN Rejects /\ UNCHANGED walk
     ELSE IF stage = "asks"
       THEN Goes("bids") /\ cursor' = 1 /\ remaining' = Quantity /\ UNCHANGED notional
       ELSE Goes("net") /\ UNCHANGED walk
  /\ UNCHANGED <<books, capital>>

\* expectedNetProfit, in hundredths (48 to 53): the reserve is a cost already.
NetProfit ==
  100 * (notional["bids"] - notional["asks"] - Fixed - Reserve)
    - FeeBuy * notional["asks"] - FeeSell * notional["bids"]

Net ==
  /\ stage = "net"
  /\ IF NetProfit >= 100 * MinProfit
       THEN /\ Goes("capital")
            /\ offer' \in [Sources -> Offers] /\ UNCHANGED <<taken, amount>>
       ELSE Rejects /\ UNCHANGED capital
  /\ UNCHANGED <<books, walk>>

-----------------------------------------------------------------------------
\* assessCapital, opportunity-capital.ts.

\* Usable: verified, of the asset and the network, not expired (6).
Usable == {s \in Sources : offer[s].usable}
Needed == notional["asks"]

\* The cheapest first, and of two as cheap the larger one.
\* Mutant of Before: the larger one first.
BeforeLarge(s, t) == offer[s].amount >= offer[t].amount
Before(s, t) ==
  \/ offer[s].cost < offer[t].cost
  \/ offer[s].cost = offer[t].cost /\ offer[s].amount >= offer[t].amount

\* Mutant of CollectSource: the whole offer is counted.
CollectSourceWhole ==
  /\ stage = "capital"
  /\ amount < Needed
  /\ \E s \in Usable \ taken :
       /\ \A t \in Usable \ taken : Before(s, t)
       /\ taken' = taken \cup {s}
       /\ amount' = amount + offer[s].amount
  /\ UNCHANGED <<books, walk, offer, stage, verdict>>
CollectSource ==
  /\ stage = "capital"
  /\ amount < Needed
  /\ \E s \in Usable \ taken :
       /\ \A t \in Usable \ taken : Before(s, t)
       /\ taken' = taken \cup {s}
       /\ amount' = amount + Min({offer[s].amount, Needed - amount})
  /\ UNCHANGED <<books, walk, offer, stage, verdict>>

\* Lines 9 and 10: expectedNetProfit is compared with the reserve once more.
Assess ==
  /\ stage = "capital"
  /\ Usable \subseteq taken \/ amount >= Needed
  /\ IF amount >= Needed /\ NetProfit > 100 * Reserve THEN Goes("risk") ELSE Rejects
  /\ UNCHANGED <<books, walk, capital>>

\* The gates whose numbers are whatever the caller measured (6 to 9 and 11).
Measured == {"STALE_QUOTE", "SLIPPAGE_LIMIT", "GAS_LIMIT", "OPEN_TRADE_LIMIT",
             "VENUE_UNHEALTHY"}

\* evaluateRisk, gates.ts 5 to 12.  The profit floor is the one of line 9 of the
\* capital gate, which has approved by now (10).
Reasons(failed) ==
  failed \cup (IF NetProfit <= 100 * Reserve THEN {"PROFIT_FLOOR_FAILED"} ELSE {})
Risk ==
  /\ stage = "risk"
  /\ stage' = "done"
  /\ \E failed \in SUBSET Measured :
       verdict' = IF Reasons(failed) = {} THEN "admitted" ELSE "rejected"
  /\ UNCHANGED <<books, walk, capital>>

Next == Scan \/ TakeLevel \/ EndWalk \/ Net \/ CollectSource \/ Assess \/ Risk

Spec == Init /\ [][Next]_vars
-----------------------------------------------------------------------------
\* Reference: every way to fill the quantity from a book, and what it is worth.
Fillings(book) ==
  {f \in [DOMAIN book -> 0..Quantity] :
     /\ \A i \in DOMAIN book :
          f[i] > 0 => Valid(book[i]) /\ f[i] <= book[i].quantity
     /\ SumFunction(f) = Quantity}
Worth(book, f) == SumFunction([i \in DOMAIN book |-> f[i] * book[i].price])

PastAsks == stage \in {"bids", "net", "capital", "risk"} \/ verdict = "admitted"
PastBids == stage \in {"net", "capital", "risk"} \/ verdict = "admitted"

\* The level-by-level walk finds the best filling: nothing else buys the
\* quantity for less or sells it for more (vwap.ts 19-26), and it is given up
\* only when the books are too thin.
WalkIsBest ==
  /\ PastAsks => /\ \E f \in Fillings(asks) : Worth(asks, f) = notional["asks"]
                 /\ \A f \in Fillings(asks) : Worth(asks, f) >= notional["asks"]
  /\ PastBids => /\ \E f \in Fillings(bids) : Worth(bids, f) = notional["bids"]
                 /\ \A f \in Fillings(bids) : Worth(bids, f) <= notional["bids"]
  /\ Walking /\ remaining > 0 /\ cursor > Len(Book) => Fillings(Book) = {}

Covers(sources) == SumFunctionOnSet([s \in Sources |-> offer[s].amount], sources) >= Needed

\* The cheap sources are collected first, and only until the notional is covered
\* (6-8): no usable sources whose dearest costs less would cover it, and a dearest
\* one of those collected was needed.  The others need not be: a large last one
\* can cover the notional alone, and those before it are listed all the same.
CapitalIsCheapest ==
  stage = "risk" =>
    /\ \A others \in SUBSET Usable :
         Covers(others) =>
           \E s \in others : \A t \in taken : offer[s].cost >= offer[t].cost
    /\ \E last \in taken :
         /\ ~Covers(taken \ {last})
         /\ \A t \in taken : offer[t].cost <= offer[last].cost

\* What is admitted pays: whatever way the best of both books is filled, the
\* sources cover the purchase and the sale leaves more than fees, costs and
\* twice the reserve, on two books that were young when they were scanned.
AdmittedPays ==
  verdict = "admitted" =>
    /\ fresh = Sides
    /\ Covers(taken)
    /\ \E f \in Fillings(asks), g \in Fillings(bids) :
         (100 - FeeSell) * Worth(bids, g) - (100 + FeeBuy) * Worth(asks, f)
           > 100 * (Fixed + 2 * Reserve)
=============================================================================
