-------------------------------- MODULE Venue --------------------------------
(***************************************************************************)
(* The two exchange accounts a trade uses, seen from ABn: one order per    *)
(* leg, and the requests still travelling to them.  External: what an      *)
(* exchange may do follows from how packages/execution calls it and reads  *)
(* its order statuses ("closed" is an order filled in full).  A request    *)
(* whose caller gave up (a connection timeout) may still arrive.           *)
(***************************************************************************)
EXTENDS Naturals

CONSTANT Qty     \* the quantity of an order, in lots

ASSUME QtyAssumption == Qty \in Nat \ {0}

VARIABLES
  wire,     \* requests on the way to the venue of a leg
  order,    \* state of the order of a leg at its venue
  filled    \* lots of that order that have been filled

venue == <<wire, order, filled>>

Legs == {"buy", "sell"}
Requests == {"create", "cancel"}
OrderStates == {"none", "open", "closed", "canceled", "refused"}

VenueTypeOK ==
  /\ wire \in [Legs -> SUBSET Requests]
  /\ order \in [Legs -> OrderStates]
  /\ filled \in [Legs -> 0..Qty]

VenueInit ==
  /\ wire = [l \in Legs |-> {}]
  /\ order = [l \in Legs |-> "none"]
  /\ filled = [l \in Legs |-> 0]

Sends(request, legs) ==
  wire' = [l \in Legs |-> IF l \in legs THEN wire[l] \cup {request} ELSE wire[l]]

Arrives(l, request) ==
  /\ request \in wire[l]
  /\ wire' = [wire EXCEPT ![l] = @ \ {request}]

Becomes(l, state) == order' = [order EXCEPT ![l] = state]

Opens(l) == Arrives(l, "create") /\ Becomes(l, "open") /\ UNCHANGED filled
Refuses(l) == Arrives(l, "create") /\ Becomes(l, "refused") /\ UNCHANGED filled

\* A cancel has an effect on a working order only.
Cancels(l) ==
  /\ Arrives(l, "cancel")
  /\ Becomes(l, IF order[l] = "open" THEN "canceled" ELSE order[l])
  /\ UNCHANGED filled

\* A request is lost, or the venue turns down a cancel.
Loses(l) == \E request \in Requests : Arrives(l, request) /\ UNCHANGED <<order, filled>>

Fills(l) ==
  /\ order[l] = "open"
  /\ \E n \in (filled[l] + 1)..Qty :
       /\ filled' = [filled EXCEPT ![l] = n]
       /\ Becomes(l, IF n = Qty THEN "closed" ELSE "open")
  /\ UNCHANGED wire

\* The venue drops the remainder of a working order by itself.
Expires(l) == order[l] = "open" /\ Becomes(l, "canceled") /\ UNCHANGED <<wire, filled>>

VenueNext ==
  \E l \in Legs :
    Opens(l) \/ Refuses(l) \/ Cancels(l) \/ Loses(l) \/ Fills(l) \/ Expires(l)
=============================================================================
