------------------------------- MODULE CexPair -------------------------------
(***************************************************************************)
(* executePair of packages/execution/src/cex-pair.ts: the gates, two       *)
(* concurrent createOrder calls, two status calls, and cancels of the legs *)
(* that are not filled.  Promise.all throws as soon as one call fails and  *)
(* leaves the other one running.                                           *)
(***************************************************************************)
EXTENDS Venue

VARIABLES
  bad,       \* the gates this opportunity fails
  stage,     \* the await executePair has reached
  call,      \* the call of each leg in that await
  seen,      \* legs whose status was read as filled
  verdict    \* what the caller got

pair == <<bad, stage, call, seen, verdict>>
vars == <<venue, pair>>

\* The throws of lines 56 to 62, in order.
Gates == {"netProfit", "capitalRequired", "expired", "source", "funds",
          "correlation", "timeout"}
Stages == {"gates", "create", "status", "cancel", "done"}
Verdicts == {"COMPLETED", "FAILED", "TIMEOUT", "THROW"}

TypeOK ==
  /\ VenueTypeOK
  /\ bad \in SUBSET Gates
  /\ stage \in Stages
  /\ call \in [Legs -> {"idle", "waiting", "ok", "failed"}]
  /\ seen \in SUBSET Legs
  /\ verdict \in {"none"} \cup Verdicts

Init ==
  /\ VenueInit
  /\ bad \in SUBSET Gates
  /\ stage = "gates"
  /\ call = [l \in Legs |-> "idle"]
  /\ seen = {}
  /\ verdict = "none"

AllAre(answer) == \A l \in Legs : call[l] = answer
Calls(legs) == call' = [l \in Legs |-> IF l \in legs THEN "waiting" ELSE "idle"]
Answered(l, answer) == call[l] = "waiting" /\ call' = [call EXCEPT ![l] = answer]
Returns(v) == stage' = "done" /\ verdict' = v

Reject ==
  /\ stage = "gates"
  /\ bad # {}
  /\ Returns("THROW")
  /\ UNCHANGED <<venue, bad, call, seen>>

\* Mutant of Submit: the gates are not looked at.
SubmitUngated ==
  /\ stage = "gates"
  /\ stage' = "create"
  /\ Sends("create", Legs)
  /\ Calls(Legs)
  /\ UNCHANGED <<order, filled, bad, seen, verdict>>
Submit ==
  /\ stage = "gates"
  /\ bad = {}
  /\ stage' = "create"
  /\ Sends("create", Legs)
  /\ Calls(Legs)
  /\ UNCHANGED <<order, filled, bad, seen, verdict>>

\* createOrder resolves with the id of an order that exists.
Created(l) ==
  /\ stage = "create"
  /\ order[l] \notin {"none", "refused"}
  /\ Answered(l, "ok")
  /\ UNCHANGED <<venue, bad, stage, seen, verdict>>

\* One rejection rejects Promise.all: executePair throws, nothing is undone.
CallFails(l) ==
  /\ stage \in {"create", "status"}
  /\ Answered(l, "failed")
  /\ Returns("THROW")
  /\ UNCHANGED <<venue, bad, seen>>

\* Line 70: too late, both ids are returned and nothing is cancelled.
\* Mutant of CreatedLate: the verdict is kept but the function goes on.
CreatedLateGoesOn ==
  /\ stage = "create"
  /\ AllAre("ok")
  /\ verdict' = "TIMEOUT"
  /\ stage' = "status"
  /\ Calls(Legs)
  /\ UNCHANGED <<venue, bad, seen>>
CreatedLate ==
  /\ stage = "create"
  /\ AllAre("ok")
  /\ Returns("TIMEOUT")
  /\ UNCHANGED <<venue, bad, call, seen>>

CreatedInTime ==
  /\ stage = "create"
  /\ AllAre("ok")
  /\ stage' = "status"
  /\ Calls(Legs)
  /\ UNCHANGED <<venue, bad, seen, verdict>>

IsFilled(l) == order[l] = "closed"

StatusRead(l) ==
  /\ stage = "status"
  /\ Answered(l, "ok")
  /\ seen' = IF IsFilled(l) THEN seen \cup {l} ELSE seen
  /\ UNCHANGED <<venue, bad, stage, verdict>>

Complete ==
  /\ stage = "status"
  /\ AllAre("ok")
  /\ seen = Legs
  /\ Returns("COMPLETED")
  /\ UNCHANGED <<venue, bad, call, seen>>

\* Mutant of CancelUnfilled: the filled legs are cancelled instead.
CancelFilled ==
  /\ stage = "status"
  /\ AllAre("ok")
  /\ seen # Legs
  /\ stage' = "cancel"
  /\ Sends("cancel", seen)
  /\ Calls(seen)
  /\ UNCHANGED <<order, filled, bad, seen, verdict>>
\* Lines 79 to 83: the legs whose status was not "closed" are cancelled.
CancelUnfilled ==
  /\ stage = "status"
  /\ AllAre("ok")
  /\ seen # Legs
  /\ stage' = "cancel"
  /\ Sends("cancel", Legs \ seen)
  /\ Calls(Legs \ seen)
  /\ UNCHANGED <<order, filled, bad, seen, verdict>>

\* cancelOrder resolves.  An exchange may acknowledge a cancel before it acts
\* on it, or drop it later, and lines 80 to 83 do not read the order again.
Canceled(l) ==
  /\ stage = "cancel"
  /\ Answered(l, "ok")
  /\ UNCHANGED <<venue, bad, stage, seen, verdict>>

CancelFails(l) ==
  /\ stage = "cancel"
  /\ Answered(l, "failed")
  /\ UNCHANGED <<venue, bad, stage, seen, verdict>>

CancelSettled ==
  /\ stage = "cancel"
  /\ \A l \in Legs : call[l] # "waiting"
  /\ Returns("FAILED")
  /\ UNCHANGED <<venue, bad, call, seen>>

Settles(l) == Created(l) \/ StatusRead(l) \/ Canceled(l) \/ CallFails(l) \/ CancelFails(l)
Continues == Reject \/ Submit \/ CreatedLate \/ CreatedInTime \/ Complete
               \/ CancelUnfilled \/ CancelSettled

VenueStep == VenueNext /\ UNCHANGED pair

Next == VenueStep \/ Continues \/ \E l \in Legs : Settles(l)

Spec == Init /\ [][Next]_vars
-----------------------------------------------------------------------------
\* COMPLETED is given only when both orders are filled in full, although the
\* two statuses are read at different moments (lines 72 to 87).
CompletedIsHedged == verdict = "COMPLETED" => \A l \in Legs : filled[l] = Qty

\* A FAILED pair has each of its legs filled in full or asked to be cancelled,
\* with that call settled (lines 79 to 84).  The leg may be working all the same.
FailedIsAsked ==
  verdict = "FAILED" =>
    \A l \in Legs : filled[l] = Qty \/ call[l] \in {"ok", "failed"}

\* Once executePair has answered, it sends nothing more, and except after a
\* throw no order of this pair appears any more: the caller may count.
QuietAfterVerdict ==
  [][verdict # "none" =>
       /\ \A l \in Legs : wire'[l] \subseteq wire[l]
       /\ verdict # "THROW" => \A l \in Legs : order[l] = "none" => order'[l] = "none"]_vars

\* executePair keeps the promise of PairTrade: a create may overtake a throw.
PT == INSTANCE PairTrade WITH admitted <- (bad = {}), Overtaken <- {"THROW"}
KeepsPromise == PT!Spec
=============================================================================
