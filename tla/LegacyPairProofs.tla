-------------------------- MODULE LegacyPairProofs --------------------------
(***************************************************************************)
(* What LegacyPair guarantees for every Qty: no short position, COMPLETED  *)
(* only when both legs are full, and no order left without a cancel.       *)
(***************************************************************************)
EXTENDS LegacyPair, TLAPS

\* The venues: an order holds at most its amount, a closed one all of it, and
\* a create on the way belongs to a leg without an order.
VenueSound ==
  \A l \in Legs :
    /\ filled[l] <= amount[l]
    /\ order[l] = "closed" => filled[l] = amount[l]
    /\ order[l] = "none" => filled[l] = 0
    /\ "create" \in wire[l] => order[l] = "none"

\* Where executePair is: a call is awaited only before the answer, and a leg
\* without a call has its result.
Progress ==
  /\ call # "idle" => verdict = "none" /\ leg # "none"
  /\ call = "idle" /\ leg # "none" /\ verdict # "THROW" => result[leg].status # "none"
  /\ call \in {"cancel", "final"} => leg \in given
  /\ verdict = "COMPLETED" => Full("buy") /\ Full("sell")
  /\ leg = "none" => verdict \in {"none", "THROW"}
  /\ call \notin {"idle", "check"} => connector # "dry"

\* How far the legs have come and how much each was sent for.
Plan ==
  /\ leg \in {"none", "buy"} => result["sell"].status = "none"
  /\ leg \in {"none", "buy", "sell"} => result["hedge"].status = "none"
  /\ leg = "none" => result["buy"] = Unknown
  /\ leg = "none" => amount["buy"] = 0
  /\ leg # "none" => amount["buy"] = Qty
  /\ leg \in {"none", "buy"} => amount["sell"] = 0 /\ amount["hedge"] = 0
  /\ leg = "sell" => Full("buy") /\ amount["sell"] = Qty /\ amount["hedge"] = 0
  /\ leg = "hedge" =>
       \/ Full("buy") /\ amount["sell"] = Qty
       \/ ~Full("buy") /\ amount["sell"] = 0 /\ amount["hedge"] = result["buy"].filled

\* What a result says of the order behind it.
Seen ==
  IF connector = "dry"
    THEN \A l \in Legs : wire[l] = {} /\ order[l] = "none"
    ELSE /\ result["buy"].filled <= filled["buy"]
         /\ \A l \in {"buy", "sell"} : Full(l) => filled[l] = Qty

\* A leg that has not begun has no order, and one that was left behind has
\* ended or was asked to be cancelled.
BuysAgain(l) == Hummingbot /\ l = "hedge" /\ Full("buy")
Left ==
  \A l \in Legs :
    /\ leg # l /\ result[l].status = "none" => wire[l] = {} /\ order[l] = "none"
    /\ leg = l /\ call = "check" => wire[l] = {} /\ order[l] = "none"
    /\ result[l].status # "none" =>
         \/ l \in given
         \/ order[l] \in Ended
         \/ connector = "dry"
         \/ BuysAgain(l)

Inv == TypeOK /\ VenueSound /\ Progress /\ Plan /\ Seen /\ Left

USE DEF Legs, Statuses, Calls, Verdicts, OrderStates, Requests

-----------------------------------------------------------------------------
LEMMA InitInv == ASSUME Init PROVE Inv
<1> USE QtyAssumption DEF Init, Unknown
<1>1. TypeOK
  <2>1. Unknown \in [status: Statuses, filled: 0..Qty]
    OBVIOUS
  <2>2. result \in [Legs -> [status: Statuses, filled: 0..Qty]]
    BY <2>1
  <2> QED BY <2>2 DEF TypeOK
<1>2. VenueSound /\ Progress /\ Plan
  BY DEF VenueSound, Progress, Plan, Full
<1>3. Seen /\ Left
  BY DEF Seen, Left, Full
<1> QED BY <1>1, <1>2, <1>3 DEF Inv

\* The invariant is strong enough.
LEMMA InvImplies ==
  ASSUME Inv
  PROVE  NeverShort /\ CompletedIsHedged /\ AbandonedIsCancelled
<1> USE QtyAssumption DEF Inv
<1>1. NeverShort
  BY DEF TypeOK, VenueSound, Plan, Seen, NeverShort, Bought, Sold, Full
<1>2. CompletedIsHedged
  BY DEF TypeOK, Progress, Seen, CompletedIsHedged, Full
<1>3. AbandonedIsCancelled
  BY DEF TypeOK, VenueSound, Progress, Seen, Left, AbandonedIsCancelled, BuysAgain, Ended
<1> QED BY <1>1, <1>2, <1>3

-----------------------------------------------------------------------------
\* A step of the venues leaves amounts alone, adds fills only, and ends orders
\* for good.
LEMMA VenueKeeps ==
  ASSUME TypeOK, VenueSound, \E l \in Legs : Opens(l) \/ Cancels(l) \/ Loses(l) \/ Fills(l) \/ Expires(l)
  PROVE  /\ wire' \in [Legs -> SUBSET Requests] /\ order' \in [Legs -> OrderStates]
         /\ filled' \in [Legs -> 0..Qty] /\ amount' = amount
         /\ VenueSound'
         /\ \A k \in Legs :
              /\ filled[k] <= filled'[k]
              /\ wire'[k] \subseteq wire[k]
              /\ order[k] \in Ended => order'[k] = order[k]
              /\ wire[k] = {} /\ order[k] = "none" => order'[k] = "none"
<1> USE QtyAssumption DEF TypeOK, VenueSound, Ended
<1>1. PICK l \in Legs : Opens(l) \/ Cancels(l) \/ Loses(l) \/ Fills(l) \/ Expires(l)
  OBVIOUS
<1>2. CASE Opens(l)
  BY <1>2 DEF Opens, Arrives
<1>3. CASE Cancels(l)
  BY <1>3 DEF Cancels, Arrives
<1>4. CASE Loses(l)
  BY <1>4 DEF Loses, Arrives, venue
<1>5. CASE Fills(l)
  BY <1>5 DEF Fills
<1>6. CASE Expires(l)
  BY <1>6 DEF Expires
<1> QED BY <1>1, <1>2, <1>3, <1>4, <1>5, <1>6

\* A venue step preserves the invariant: the code is not told.
LEMMA VenueStepInv == ASSUME Inv, VenueStep PROVE Inv'
<1> USE QtyAssumption DEF Inv, VenueStep, code, clock
<1>1. /\ wire' \in [Legs -> SUBSET Requests] /\ order' \in [Legs -> OrderStates]
      /\ filled' \in [Legs -> 0..Qty] /\ amount' = amount
      /\ VenueSound'
      /\ \A k \in Legs :
           /\ filled[k] <= filled'[k]
           /\ wire'[k] \subseteq wire[k]
           /\ order[k] \in Ended => order'[k] = order[k]
           /\ wire[k] = {} /\ order[k] = "none" => order'[k] = "none"
  BY VenueKeeps
<1>2. TypeOK'
  BY <1>1 DEF TypeOK
<1>3. Progress' /\ Plan'
  BY <1>1 DEF Progress, Plan, Full
<1>4. Seen'
  <2>1. CASE connector = "dry"
    BY <1>1, <2>1 DEF Seen
  <2>2. CASE connector # "dry"
    BY <1>1, <2>2 DEF TypeOK, VenueSound, Seen, Full, Plan
  <2> QED BY <2>1, <2>2
<1>5. Left'
  BY <1>1 DEF TypeOK, Left, Full, BuysAgain, Hummingbot, Ended
<1> QED BY <1>1, <1>2, <1>3, <1>4, <1>5

-----------------------------------------------------------------------------
\* The code moves in four ways: it returns, begins a leg, waits, or settles.
Still == UNCHANGED <<clock, wire, given, venue>>

LEMMA ReturnsInv ==
  ASSUME Inv, NEW v \in Verdicts, Returns(v), Still,
         v = "COMPLETED" => Full("buy") /\ Full("sell"),
         v = "THROW" \/ (leg # "none" /\ call = "idle" /\ verdict = "none")
  PROVE  Inv'
<1> USE DEF Inv, Returns, Still, clock, venue
<1>1. TypeOK' /\ VenueSound'
  BY DEF TypeOK, VenueSound
<1>2. Progress'
  BY DEF Progress, Full
<1>3. Plan' /\ Seen'
  BY DEF Plan, Seen, Full
<1>4. Left'
  BY DEF Left, Full, BuysAgain, Hummingbot
<1> QED BY <1>1, <1>2, <1>3, <1>4

\* A leg that has not begun begins.
LEMMA BeginsInv ==
  ASSUME Inv, NEW l \in Legs, NEW n \in 0..Qty, Begins(l, n),
         call = "idle", verdict = "none", leg # l,
         connector' = connector \/ (leg = "none" /\ connector' = "hummingbot"),
         amount[l] = 0, result[l].status = "none",
         l = "buy" => leg = "none" /\ n = Qty,
         l = "sell" => leg = "buy" /\ Full("buy") /\ n = Qty,
         l = "hedge" => \/ leg = "buy" /\ ~Full("buy") /\ n = result["buy"].filled
                        \/ leg = "sell"
  PROVE  Inv'
<1> USE QtyAssumption DEF Inv, Begins
<1>1. TypeOK'
  BY DEF TypeOK
<1>2. VenueSound'
  BY DEF TypeOK, VenueSound, Left
<1>3. Progress'
  BY DEF Progress, Full
<1>4. Plan'
  BY DEF TypeOK, Plan, Full
<1>5. Seen'
  <2>1. CASE leg = "none"
    BY <2>1 DEF TypeOK, Plan, Seen, Left, Full, Unknown
  <2>2. CASE leg # "none"
    BY <2>2 DEF Seen, Full
  <2> QED BY <2>1, <2>2
<1>6. Left'
  BY DEF TypeOK, Progress, Plan, Left, Full, BuysAgain, Hummingbot, Unknown
<1> QED BY <1>1, <1>2, <1>3, <1>4, <1>5, <1>6

\* The leg at work sends, or waits for another call.
LEMMA WaitsInv ==
  ASSUME Inv, NEW c \in Calls \ {"idle", "check"}, Waits(c), call # "idle",
         connector # "dry", UNCHANGED <<clock, venue>>,
         \/ /\ wire' = wire /\ given' = given
            /\ c \in {"cancel", "final"} => leg \in given
         \/ /\ call = "check" /\ c = "create" /\ Sends("create") /\ given' = given
         \/ /\ call # "check" /\ Sends("cancel") /\ given' = given \cup {leg}
  PROVE  Inv'
<1> USE DEF Inv, Waits, clock, venue
<1>1. leg \in Legs
  BY DEF TypeOK, Progress
<1>2. wire' = wire \/ Sends("create") \/ Sends("cancel")
  OBVIOUS
<1>3. TypeOK' /\ given \subseteq given'
  <2>1. wire' \in [Legs -> SUBSET Requests]
    BY <1>1, <1>2 DEF TypeOK, Sends
  <2>2. given' \in SUBSET Legs /\ given \subseteq given'
    BY <1>1 DEF TypeOK
  <2> QED BY <2>1, <2>2 DEF TypeOK
<1>4. VenueSound'
  BY <1>1 DEF TypeOK, VenueSound, Left, Sends
<1>5. Progress'
  BY <1>1 DEF Progress, Full
<1>6. Plan'
  BY DEF Plan, Full
<1>7. Seen'
  BY DEF Seen, Full
<1>8. Left'
  BY <1>1, <1>3 DEF TypeOK, Left, Full, BuysAgain, Hummingbot, Sends
<1> QED BY <1>3, <1>4, <1>5, <1>6, <1>7, <1>8

\* The leg at work has its result.
LEMMA SettlesInv ==
  ASSUME Inv, NEW status \in Statuses \ {"none"}, NEW n \in 0..Qty,
         Settles(status, n), call # "idle", Still,
         \/ connector = "dry"
         \/ /\ leg # "hedge" => n <= filled[leg]
            /\ leg # "hedge" /\ status = "FULL_FILL" => order[leg] = "closed"
            /\ leg \in given \/ order[leg] \in Ended \/ BuysAgain(leg)
  PROVE  Inv'
<1> USE DEF Inv, Settles, Still, clock, venue
<1>1. leg \in Legs
  BY DEF TypeOK, Progress
<1>2. TypeOK'
  BY <1>1 DEF TypeOK
<1>3. /\ result'[leg] = [status |-> status, filled |-> n]
      /\ \A l \in Legs \ {leg} : result'[l] = result[l]
  BY <1>1 DEF TypeOK
<1>4. VenueSound'
  BY DEF VenueSound
<1>5. Progress'
  BY <1>1, <1>3 DEF Progress
<1>6. Plan'
  BY <1>1, <1>3 DEF Plan, Full
<1>7. Seen'
  <2>1. CASE connector = "dry"
    BY <2>1 DEF Seen
  <2>2. CASE connector # "dry"
    BY <1>1, <1>3, <2>2 DEF TypeOK, VenueSound, Plan, Seen, Full
  <2> QED BY <2>1, <2>2
<1>8. Left'
  BY <1>1, <1>3 DEF TypeOK, Plan, Left, Full, BuysAgain, Hummingbot
<1> QED BY <1>2, <1>4, <1>5, <1>6, <1>7, <1>8

-----------------------------------------------------------------------------
\* executePair itself: returns and new legs.
LEMMA PairInv ==
  ASSUME Inv, Start \/ LiveRejects \/ BuyIsFull \/ BuyFallsShort \/ SellIsFull
                \/ SellFallsShort \/ HedgeReturns
  PROVE  Inv'
<1> USE QtyAssumption DEF Inv, At
<1> DEFINE Short == Returns("HEDGE_OR_EXIT") /\ Still
<1>1. CASE Start
  <2>1. Begins("buy", Qty) /\ (connector' = connector \/ connector' = "hummingbot")
    BY <1>1 DEF Start
  <2> QED BY <1>1, <2>1, BeginsInv DEF Start, Plan, Unknown
<1>2. CASE LiveRejects
  BY <1>2, ReturnsInv DEF LiveRejects, Still
<1>3. CASE BuyIsFull
  <2>1. amount["sell"] = 0 /\ result["sell"].status = "none"
    BY <1>3 DEF BuyIsFull, Plan
  <2> QED BY <1>3, <2>1, BeginsInv DEF BuyIsFull
<1>4. CASE BuyFallsShort
  <2>1. CASE Begins("hedge", result["buy"].filled) /\ connector' = connector
    <3>1. amount["hedge"] = 0 /\ result["hedge"].status = "none"
      BY <1>4 DEF BuyFallsShort, Plan
    <3>2. result["buy"].filled \in 0..Qty
      BY DEF TypeOK
    <3> QED BY <1>4, <2>1, <3>1, <3>2, BeginsInv DEF BuyFallsShort
  <2>2. CASE Short
    BY <1>4, <2>2, ReturnsInv DEF BuyFallsShort
  <2> QED BY <1>4, <2>1, <2>2 DEF BuyFallsShort, Still
<1>5. CASE SellIsFull
  BY <1>5, ReturnsInv DEF SellIsFull, Still, Plan
<1>6. CASE SellFallsShort
  <2>1. CASE Begins("hedge", Residual) /\ connector' = connector /\ Residual > 0
    <3>1. amount["hedge"] = 0 /\ result["hedge"].status = "none"
      BY <1>6 DEF SellFallsShort, Plan
    <3>2. Residual \in 0..Qty
      BY <2>1 DEF TypeOK, Residual
    <3> QED BY <1>6, <2>1, <3>1, <3>2, BeginsInv DEF SellFallsShort
  <2>2. CASE \E v \in {"HEDGE_OR_EXIT", "PARTIAL"} : Returns(v) /\ Still
    BY <1>6, <2>2, ReturnsInv DEF SellFallsShort
  <2> QED BY <1>6, <2>1, <2>2 DEF SellFallsShort, Still
<1>7. CASE HedgeReturns
  BY <1>7, ReturnsInv DEF HedgeReturns, Still
<1> QED BY <1>1, <1>2, <1>3, <1>4, <1>5, <1>6, <1>7

\* The loop of a leg goes on or gives up.
LEMMA LoopsInv ==
  ASSUME Inv, Loops, call \notin {"idle", "check"}, UNCHANGED <<clock, venue>>
  PROVE  Inv'
<1>1. connector # "dry"
  BY DEF Inv, Progress
<1>2. CASE late
  BY <1>1, <1>2, WaitsInv DEF Loops
<1>3. CASE ~late
  BY <1>1, <1>3, WaitsInv DEF Loops, First
<1> QED BY <1>2, <1>3

\* A final status that was read is the result.
LEMMA FinalInv ==
  ASSUME Inv, NEW l \in Read, NEW n \in 0..Qty, n \in Reported(l), order[l] \in Ended,
         Settles(StatusOf(l), n), Still, call \notin {"idle", "check"}
  PROVE  Inv'
<1> USE DEF Inv
<1>1. leg \in Legs
  BY DEF TypeOK, Progress
<1>2. l = leg \/ BuysAgain(leg)
  BY DEF Read, BuysAgain
<1>3. StatusOf(l) \in Statuses \ {"none"}
  BY DEF StatusOf, Ended
<1>4. leg # "hedge" => l = leg
  BY <1>2 DEF BuysAgain
<1>5. leg # "hedge" => n <= filled[leg]
  BY <1>1, <1>4 DEF Reported, TypeOK
<1>6. StatusOf(l) = "FULL_FILL" => order[l] = "closed"
  BY DEF StatusOf, Ended
<1> QED BY <1>1, <1>2, <1>3, <1>4, <1>5, <1>6, SettlesInv

\* One leg: its checks, its calls and its result.
LEMMA LegInv ==
  ASSUME Inv, DryFill \/ Submit \/ CheckFails \/ Created \/ CreatedFinal \/ Poll
                \/ Wake \/ CancelSettled \/ FinalRead \/ CallFails
  PROVE  Inv'
<1> USE DEF Inv
<1>1. CASE DryFill
  BY <1>1, QtyAssumption, SettlesInv DEF DryFill, Still
<1>2. CASE Submit
  BY <1>2, WaitsInv DEF Submit, clock, venue
<1>3. CASE CheckFails
  BY <1>3, ReturnsInv DEF CheckFails, Still
<1>4. CASE Created
  BY <1>4, LoopsInv DEF Created
<1>5. CASE CreatedFinal
  BY <1>5, FinalInv DEF CreatedFinal, Still
<1>6. CASE Poll
  <2>1. PICK l \in Read, n \in 0..Qty :
          /\ n \in Reported(l)
          /\ IF order[l] \in Ended
               THEN Settles(StatusOf(l), n) /\ UNCHANGED <<wire, given>>
               ELSE IF Direct THEN Waits("sleep") /\ UNCHANGED <<wire, given>> ELSE Loops
    BY <1>6 DEF Poll
  <2>2. CASE order[l] \in Ended
    BY <1>6, <2>1, <2>2, FinalInv DEF Poll, Still
  <2>3. CASE Waits("sleep") /\ UNCHANGED <<wire, given>>
    BY <1>6, <2>3, WaitsInv DEF Poll, Progress
  <2>4. CASE Loops
    BY <1>6, <2>4, LoopsInv DEF Poll
  <2> QED BY <2>1, <2>2, <2>3, <2>4
<1>7. CASE Wake
  <2>1. CASE Loops
    BY <1>7, <2>1, LoopsInv DEF Wake
  <2>2. CASE Waits("status") /\ UNCHANGED <<wire, given>>
    BY <1>7, <2>2, WaitsInv DEF Wake, Progress
  <2> QED BY <1>7, <2>1, <2>2 DEF Wake
<1>8. CASE CancelSettled
  BY <1>8, WaitsInv DEF CancelSettled, Progress
<1>9. CASE FinalRead
  <2>1. PICK l \in Read, n \in 0..Qty :
          n \in Reported(l) /\ Settles(IF n > 0 THEN "PARTIAL_FILL" ELSE "TIMEOUT", n)
    BY <1>9 DEF FinalRead
  <2>2. leg \in Legs /\ leg \in given
    BY <1>9 DEF FinalRead, TypeOK, Progress
  <2>3. leg # "hedge" => n <= filled[leg]
    BY <2>1, <2>2 DEF Read, Reported, TypeOK
  <2>4. CASE n > 0
    BY <1>9, <2>1, <2>2, <2>3, <2>4, SettlesInv DEF FinalRead, Still
  <2>5. CASE ~(n > 0)
    BY <1>9, <2>1, <2>2, <2>3, <2>5, SettlesInv DEF FinalRead, Still
  <2> QED BY <2>4, <2>5
<1>10. CASE CallFails
  BY <1>10, ReturnsInv DEF CallFails, Still
<1> QED BY <1>1, <1>2, <1>3, <1>4, <1>5, <1>6, <1>7, <1>8, <1>9, <1>10

-----------------------------------------------------------------------------
LEMMA NextInv == Inv /\ [Next]_vars => Inv'
<1> SUFFICES ASSUME Inv, [Next]_vars PROVE Inv'
  OBVIOUS
<1> USE DEF Inv
<1>1. CASE Code
  BY <1>1, PairInv, LegInv DEF Code
<1>2. CASE TimeOut \/ TooLong \/ UNCHANGED vars
  <2>1. UNCHANGED <<code, wire, given, venue>> /\ late' \in BOOLEAN /\ exposed' \in BOOLEAN
    BY <1>2 DEF TimeOut, TooLong, vars, clock, TypeOK
  <2>2. TypeOK' /\ VenueSound' /\ Progress'
    BY <2>1 DEF TypeOK, VenueSound, Progress, Full, code, venue
  <2>3. Plan' /\ Seen' /\ Left'
    BY <2>1 DEF Plan, Seen, Left, Full, BuysAgain, Hummingbot, code, venue
  <2> QED BY <2>2, <2>3
<1>3. CASE VenueStep
  BY <1>3, VenueStepInv
<1> QED BY <1>1, <1>2, <1>3 DEF Next

THEOREM Invariant == Spec => []Inv
BY InitInv, NextInv, PTL DEF Spec

\* Every value stays in its set.
THEOREM Typing == Spec => []TypeOK
<1>1. Inv => TypeOK
  BY DEF Inv
<1> QED BY <1>1, Invariant, PTL

\* executePair never sells more than it has bought: what 116 hedges is what
\* was seen filled, and 117 sells only after a full buy.
THEOREM NoShort == Spec => []NeverShort
BY InvImplies, Invariant, PTL

\* COMPLETED means that both orders are full, late requests included (117).
THEOREM Hedged == Spec => []CompletedIsHedged
BY InvImplies, Invariant, PTL

\* Whatever may still fill after an answer was asked to be cancelled (84, 98).
THEOREM Abandoned == Spec => []AbandonedIsCancelled
BY InvImplies, Invariant, PTL
=============================================================================
