------------------------------ MODULE PairTrade ------------------------------
(***************************************************************************)
(* What a caller may rely on when it trades a pair of legs, whichever      *)
(* connector carries the orders: nothing is placed for an opportunity that *)
(* fails a gate, one verdict is given and never revised, COMPLETED means   *)
(* that both legs are filled in full, and only after the verdicts in       *)
(* Overtaken can an order still appear.                                    *)
(***************************************************************************)
EXTENDS Naturals

CONSTANTS
  Qty,        \* the quantity of an order, in lots
  Overtaken   \* verdicts that a request on the way may arrive after

VARIABLES
  admitted,   \* the opportunity passes the gates
  order,      \* state of the order of each leg
  filled,     \* lots filled of each leg
  verdict     \* what the caller was told

vars == <<admitted, order, filled, verdict>>

Legs == {"buy", "sell"}
Verdicts == {"COMPLETED", "FAILED", "TIMEOUT", "THROW"}

Init ==
  /\ admitted \in BOOLEAN
  /\ order = [l \in Legs |-> "none"]
  /\ filled = [l \in Legs |-> 0]
  /\ verdict = "none"

Become(l, state) == order' = [order EXCEPT ![l] = state]

Place(l) ==
  /\ admitted
  /\ order[l] = "none"
  /\ verdict \in {"none"} \cup Overtaken
  /\ \E state \in {"open", "refused"} : Become(l, state)
  /\ UNCHANGED <<admitted, filled, verdict>>

Fill(l) ==
  /\ order[l] = "open"
  /\ \E n \in (filled[l] + 1)..Qty :
       /\ filled' = [filled EXCEPT ![l] = n]
       /\ Become(l, IF n = Qty THEN "closed" ELSE "open")
  /\ UNCHANGED <<admitted, verdict>>

Drop(l) ==
  /\ order[l] = "open"
  /\ Become(l, "canceled")
  /\ UNCHANGED <<admitted, filled, verdict>>

Conclude(v) ==
  /\ verdict = "none"
  /\ ~admitted => v = "THROW"
  /\ v = "COMPLETED" => \A l \in Legs : filled[l] = Qty
  /\ verdict' = v
  /\ UNCHANGED <<admitted, order, filled>>

Next ==
  \/ \E l \in Legs : Place(l) \/ Fill(l) \/ Drop(l)
  \/ \E v \in Verdicts : Conclude(v)

Spec == Init /\ [][Next]_vars
=============================================================================
