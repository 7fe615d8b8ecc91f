----------------------------- MODULE LegacyPair -----------------------------
(***************************************************************************)
(* executePair of packages/execution/index.ts, the older pair executor: it *)
(* buys, then sells, and asks the connector to hedge what a failed leg     *)
(* left.  The connector is the direct one (one createOrder and a polling   *)
(* loop per leg), the Hummingbot one (health, books, then the same), or    *)
(* the dry one (dry-run.ts), which has no venue.  LIVE replaces whatever   *)
(* the caller passed by the Hummingbot connector.                          *)
(* The orders behind the calls are external: a request may be late or lost *)
(* and an order that was not cancelled may go on filling.                  *)
(***************************************************************************)
EXTENDS Integers

CONSTANT Qty     \* the amount of both legs of the plan, in lots

ASSUME QtyAssumption == Qty \in Nat \ {0}

VARIABLES
  connector,  \* who executes the legs
  fit,        \* in LIVE, the opportunity passes every gate of 39-51 and 115
  leg,        \* the leg executePair is at
  call,       \* the call that leg awaits
  late,       \* the order timeout of that leg has passed
  exposed,    \* more than maxUnhedgedMs have passed since the sell started
  result,     \* the LegResult of each leg
  verdict     \* what the caller got

VARIABLES
  wire, order, amount, filled,  \* of each leg: requests under way, its order
  given                         \* legs whose order was asked to be cancelled

clock == <<late, exposed>>
code == <<connector, fit, leg, call, result, verdict>>
venue == <<order, amount, filled>>
vars == <<code, clock, wire, given, venue>>

Legs == {"buy", "sell", "hedge"}
Requests == {"create", "cancel"}
OrderStates == {"none", "open", "closed", "canceled", "refused"}
Statuses == {"none", "FULL_FILL", "PARTIAL_FILL", "REJECTED", "CANCELLED", "TIMEOUT"}
Calls == {"idle", "check", "create", "status", "sleep", "cancel", "final"}
Verdicts == {"COMPLETED", "HEDGE_OR_EXIT", "PARTIAL", "THROW"}

TypeOK ==
  /\ connector \in {"direct", "dry", "hummingbot"}
  /\ fit \in BOOLEAN /\ late \in BOOLEAN /\ exposed \in BOOLEAN
  /\ leg \in Legs \cup {"none"}
  /\ call \in Calls
  /\ result \in [Legs -> [status: Statuses, filled: 0..Qty]]
  /\ verdict \in {"none"} \cup Verdicts
  /\ wire \in [Legs -> SUBSET Requests]
  /\ order \in [Legs -> OrderStates]
  /\ amount \in [Legs -> 0..Qty] /\ filled \in [Legs -> 0..Qty]
  /\ given \in SUBSET Legs

Unknown == [status |-> "none", filled |-> 0]

Init ==
  /\ connector \in {"direct", "dry"}
  /\ fit \in BOOLEAN
  /\ leg = "none" /\ call = "idle" /\ late = FALSE /\ exposed = FALSE
  /\ result = [l \in Legs |-> Unknown]
  /\ verdict = "none"
  /\ wire = [l \in Legs |-> {}]
  /\ order = [l \in Legs |-> "none"]
  /\ amount = [l \in Legs |-> 0] /\ filled = [l \in Legs |-> 0]
  /\ given = {}

Direct == connector = "direct"
Hummingbot == connector = "hummingbot"

Sends(request) == wire' = [wire EXCEPT ![leg] = @ \cup {request}]
Returns(v) == verdict' = v /\ UNCHANGED <<connector, fit, leg, result>> /\ call' = "idle"
Waits(c) == call' = c /\ UNCHANGED <<connector, fit, leg, result, verdict>>
Settles(status, n) ==
  /\ result' = [result EXCEPT ![leg] = [status |-> status, filled |-> n]]
  /\ call' = "idle"
  /\ UNCHANGED <<connector, fit, leg, verdict>>
Begins(l, n) ==
  /\ leg' = l /\ call' = "check" /\ late' = FALSE
  /\ amount' = [amount EXCEPT ![l] = n]
  /\ UNCHANGED <<exposed, fit, result, verdict, wire, given, order, filled>>
At(l) == leg = l /\ call = "idle" /\ verdict = "none"

-----------------------------------------------------------------------------
\* executePair, lines 114 to 120.

\* In LIVE the connector is replaced and the gates decide; else it is kept.
Start ==
  /\ At("none")
  /\ \/ connector' = connector
     \/ fit /\ connector' = "hummingbot"
  /\ Begins("buy", Qty)
LiveRejects ==
  /\ At("none")
  /\ ~fit
  /\ Returns("THROW")
  /\ UNCHANGED <<clock, wire, given, venue>>

Full(l) == result[l].status = "FULL_FILL"

BuyIsFull ==
  /\ At("buy")
  /\ Full("buy")
  /\ Begins("sell", Qty)
  /\ UNCHANGED connector

\* Line 116: what the failed buy left is sold; hedgeOrExit of nothing, and of
\* the dry connector, returns at once.
\* Mutant of BuyFallsShort: the plan's own amount is sold instead.
BuyFallsShortFull ==
  /\ At("buy")
  /\ ~Full("buy")
  /\ IF result["buy"].filled > 0 /\ connector # "dry"
       THEN Begins("hedge", Qty) /\ UNCHANGED connector
       ELSE Returns("HEDGE_OR_EXIT") /\ UNCHANGED <<clock, wire, given, venue>>
BuyFallsShort ==
  /\ At("buy")
  /\ ~Full("buy")
  /\ IF result["buy"].filled > 0 /\ connector # "dry"
       THEN Begins("hedge", result["buy"].filled) /\ UNCHANGED connector
       ELSE Returns("HEDGE_OR_EXIT") /\ UNCHANGED <<clock, wire, given, venue>>

SellIsFull ==
  /\ At("sell")
  /\ Full("sell")
  /\ Returns("COMPLETED")
  /\ UNCHANGED <<clock, wire, given, venue>>

\* Line 118: the rest is "hedged" only after maxUnhedgedMs, and the hedge of
\* source side 'sell' buys it once more (88, 101).
Residual == result["buy"].filled - result["sell"].filled
\* Mutant of SellFallsShort: a residual below zero is hedged too.
SellFallsShortUnclamped ==
  /\ At("sell")
  /\ ~Full("sell")
  /\ IF exposed
       THEN IF connector = "dry"
              THEN Returns("HEDGE_OR_EXIT") /\ UNCHANGED <<clock, wire, given, venue>>
              ELSE Begins("hedge", Residual) /\ UNCHANGED connector
       ELSE Returns("PARTIAL") /\ UNCHANGED <<clock, wire, given, venue>>
SellFallsShort ==
  /\ At("sell")
  /\ ~Full("sell")
  /\ IF Residual > 0 /\ exposed
       THEN IF connector = "dry"
              THEN Returns("HEDGE_OR_EXIT") /\ UNCHANGED <<clock, wire, given, venue>>
              ELSE Begins("hedge", Residual) /\ UNCHANGED connector
       ELSE Returns("PARTIAL") /\ UNCHANGED <<clock, wire, given, venue>>

HedgeReturns ==
  /\ At("hedge")
  /\ Returns("HEDGE_OR_EXIT")
  /\ UNCHANGED <<clock, wire, given, venue>>

-----------------------------------------------------------------------------
\* One leg, lines 68 to 87 (Hummingbot), 92 to 100 (direct), dry-run.ts 22.

\* dry-run.ts: the leg is full, or rejected for want of a price or a quantity.
DryFill ==
  /\ call = "check"
  /\ connector = "dry"
  /\ \E status \in {"FULL_FILL", "REJECTED"}, n \in {0, Qty} :
       /\ status = "FULL_FILL" => n > 0
       /\ Settles(status, n)
  /\ UNCHANGED <<clock, wire, given, venue>>

\* health and books of 72 and 73 pass; the direct connector has no checks.
Submit ==
  /\ call = "check"
  /\ connector # "dry"
  /\ Waits("create")
  /\ Sends("create")
  /\ UNCHANGED <<clock, given, venue>>

\* Health, depth or spread say no, for the hedge as for the two legs.
CheckFails ==
  /\ call = "check"
  /\ Hummingbot
  /\ Returns("THROW")
  /\ UNCHANGED <<clock, wire, given, venue>>

Ended == {"closed", "canceled", "refused"}
StatusOf(l) == CASE order[l] = "closed" -> "FULL_FILL"
                 [] order[l] = "canceled" -> "CANCELLED"
                 [] order[l] = "refused" -> "REJECTED"

\* The order a status call reads: Hummingbot finds it by the client id of line
\* 74, which a hedge that buys shares with the first buy.
Read == IF Hummingbot /\ leg = "hedge" /\ Full("buy") THEN {"buy", "hedge"} ELSE {leg}

\* Line 18: a Hummingbot answer without a fill counts as 0.
Reported(l) ==
  {n \in {0, filled[l]} : n = 0 => Hummingbot \/ filled[l] = 0}

\* The loop of 79 and 97 compares the clock, and a late leg is cancelled.
First == IF Direct THEN "status" ELSE "sleep"
Loops ==
  IF late
    THEN Waits("cancel") /\ Sends("cancel") /\ given' = given \cup {leg}
    ELSE Waits(First) /\ UNCHANGED <<wire, given>>

\* createOrder of an exchange answers with the id of an order that exists; the
\* Hummingbot API accepts one before the venue has it.
Created ==
  /\ call = "create"
  /\ Direct => order[leg] \notin {"none", "refused"}
  /\ Loops
  /\ UNCHANGED <<clock, venue>>
\* Line 77: Hummingbot may answer with a final state.
CreatedFinal ==
  /\ call = "create"
  /\ Hummingbot
  /\ \E l \in Read, n \in 0..Qty :
       /\ order[l] \in Ended
       /\ n \in Reported(l)
       /\ Settles(StatusOf(l), n)
  /\ UNCHANGED <<clock, wire, given, venue>>

\* Lines 82 and 97: a final status is the result.
\* Mutant of Poll: a partly filled order is taken for a final one.
PollTakesPartial ==
  /\ call = "status"
  /\ \E l \in Read, n \in 0..Qty :
       /\ n \in Reported(l)
       /\ IF order[l] \in Ended
            THEN Settles(StatusOf(l), n) /\ UNCHANGED <<wire, given>>
            ELSE IF n > 0 THEN Settles("PARTIAL_FILL", n) /\ UNCHANGED <<wire, given>>
                 ELSE IF Direct THEN Waits("sleep") /\ UNCHANGED <<wire, given>> ELSE Loops
  /\ UNCHANGED <<clock, venue>>
Poll ==
  /\ call = "status"
  /\ \E l \in Read, n \in 0..Qty :
       /\ n \in Reported(l)
       /\ IF order[l] \in Ended
            THEN Settles(StatusOf(l), n) /\ UNCHANGED <<wire, given>>
            ELSE IF Direct THEN Waits("sleep") /\ UNCHANGED <<wire, given>> ELSE Loops
  /\ UNCHANGED <<clock, venue>>

\* Mutant of Wake: the loop of the direct connector never looks at the clock.
WakeForever ==
  /\ call = "sleep"
  /\ Waits("status")
  /\ UNCHANGED <<clock, wire, given, venue>>
\* 250 ms later.  The direct loop then looks at the clock, the other one polls.
Wake ==
  /\ call = "sleep"
  /\ IF Direct THEN Loops ELSE Waits("status") /\ UNCHANGED <<wire, given>>
  /\ UNCHANGED <<clock, venue>>

\* Lines 84 and 98 swallow the error of the cancel.
CancelSettled ==
  /\ call = "cancel"
  /\ Waits("final")
  /\ UNCHANGED <<clock, wire, given, venue>>

\* Mutant of FinalRead: whatever has been filled counts as a full fill.
FinalReadFull ==
  /\ call = "final"
  /\ \E l \in Read, n \in 0..Qty :
       n \in Reported(l) /\ Settles(IF n > 0 THEN "FULL_FILL" ELSE "TIMEOUT", n)
  /\ UNCHANGED <<clock, wire, given, venue>>
\* Lines 86 and 99: also an order that was filled in full is PARTIAL_FILL.
FinalRead ==
  /\ call = "final"
  /\ \E l \in Read, n \in 0..Qty :
       n \in Reported(l) /\ Settles(IF n > 0 THEN "PARTIAL_FILL" ELSE "TIMEOUT", n)
  /\ UNCHANGED <<clock, wire, given, venue>>

CallFails ==
  /\ call \in {"create", "status", "final"}
  /\ Returns("THROW")
  /\ UNCHANGED <<clock, wire, given, venue>>

TimeOut ==
  /\ ~late /\ call \in {"status", "sleep"}
  /\ late' = TRUE
  /\ UNCHANGED <<code, exposed, wire, given, venue>>
TooLong ==
  /\ ~exposed /\ leg = "sell" /\ verdict = "none"
  /\ exposed' = TRUE
  /\ UNCHANGED <<code, late, wire, given, venue>>

-----------------------------------------------------------------------------
\* The venues of the orders.

Arrives(l, request) ==
  /\ request \in wire[l]
  /\ wire' = [wire EXCEPT ![l] = @ \ {request}]
Opens(l) ==
  /\ Arrives(l, "create")
  /\ \E state \in {"open", "refused"} : order' = [order EXCEPT ![l] = state]
  /\ UNCHANGED <<amount, filled>>
Cancels(l) ==
  /\ Arrives(l, "cancel")
  /\ order' = [order EXCEPT ![l] = IF @ = "open" THEN "canceled" ELSE @]
  /\ UNCHANGED <<amount, filled>>
Loses(l) == \E request \in Requests : Arrives(l, request) /\ UNCHANGED venue
Fills(l) ==
  /\ order[l] = "open"
  /\ \E n \in (filled[l] + 1)..amount[l] :
       /\ filled' = [filled EXCEPT ![l] = n]
       /\ order' = [order EXCEPT ![l] = IF n = amount[l] THEN "closed" ELSE "open"]
  /\ UNCHANGED <<wire, amount>>
Expires(l) ==
  /\ order[l] = "open"
  /\ order' = [order EXCEPT ![l] = "canceled"]
  /\ UNCHANGED <<wire, amount, filled>>

VenueStep ==
  /\ \E l \in Legs : Opens(l) \/ Cancels(l) \/ Loses(l) \/ Fills(l) \/ Expires(l)
  /\ UNCHANGED <<code, clock, given>>

Code == Start \/ LiveRejects \/ BuyIsFull \/ BuyFallsShort \/ SellIsFull
          \/ SellFallsShort \/ HedgeReturns \/ DryFill \/ Submit \/ CheckFails
          \/ Created \/ CreatedFinal \/ Poll \/ Wake \/ CancelSettled \/ FinalRead
          \/ CallFails

Next == Code \/ TimeOut \/ TooLong \/ VenueStep

Spec == Init /\ [][Next]_vars

\* Every call settles and the clock advances; the venues promise nothing.
LiveSpec == Spec /\ WF_vars(Code) /\ WF_vars(TimeOut)
-----------------------------------------------------------------------------
\* What is on the venues: the hedge buys after a full buy, else it sells.
Bought == filled["buy"] + (IF Full("buy") THEN filled["hedge"] ELSE 0)
Sold == filled["sell"] + (IF Full("buy") THEN 0 ELSE filled["hedge"])

\* executePair never sells more than it has bought, whatever is late or lost:
\* the second leg waits for a full buy, the hedge for what was seen filled.
NeverShort == Sold <= Bought

\* COMPLETED is given only when both orders are filled in full (117).
CompletedIsHedged ==
  verdict = "COMPLETED" /\ connector # "dry" =>
    filled["buy"] = Qty /\ filled["sell"] = Qty

\* An order that may still fill after an answer was asked to be cancelled (84,
\* 98).  The exception: the Hummingbot hedge that buys, whose status may be
\* that of the first buy.
AbandonedIsCancelled ==
  verdict \notin {"none", "THROW"} =>
    \A l \in Legs : (order[l] = "open" \/ "create" \in wire[l]) =>
      l \in given \/ (Hummingbot /\ l = "hedge" /\ Full("buy"))

\* An order that stays open does not keep executePair from answering.
Answers == <>(verdict # "none")
=============================================================================
