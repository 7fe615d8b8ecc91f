--------------------------- MODULE HummingbotPair ---------------------------
(***************************************************************************)
(* executeHummingbotPair of packages/execution/src/hummingbot-pair.ts: the *)
(* gates, a health call, trading rules and books, two concurrent orders    *)
(* through the Hummingbot API, one waitForOrder loop per leg that polls    *)
(* until the deadline, and cancels of the legs that are not filled.        *)
(* The API accepts an order before the venue has it, so a create may still *)
(* be on the wire when execute() has resolved.                             *)
(***************************************************************************)
EXTENDS Venue

VARIABLES
  bad,        \* what is wrong with this opportunity or its markets
  expired,    \* opportunity.expiresAt has passed
  timedOut,   \* timeoutMs have passed since line 140
  stage,      \* the await executeHummingbotPair has reached
  call,       \* the call of each leg in that await
  seen,       \* the status each waitForOrder returned
  verdict     \* what the caller got

clock == <<expired, timedOut>>
pair == <<bad, stage, call, seen, verdict>>
vars == <<venue, clock, pair>>

\* "input" stands for the throws of lines 118, 119 and 121 to 123; the others
\* are what health, trading rules and books answer (124, 133, 134).
Defects == {"input", "health", "rules", "depth"}
Stages == {"gates", "health", "markets", "create", "wait", "cancel", "done"}
Verdicts == {"COMPLETED", "FAILED", "TIMEOUT", "THROW"}

TypeOK ==
  /\ VenueTypeOK
  /\ bad \in SUBSET Defects
  /\ expired \in BOOLEAN /\ timedOut \in BOOLEAN
  /\ stage \in Stages
  /\ call \in [Legs -> {"idle", "waiting", "asleep", "ok", "failed"}]
  /\ seen \in [Legs -> {"none", "filled", "failed"}]
  /\ verdict \in {"none"} \cup Verdicts

Init ==
  /\ VenueInit
  /\ bad \in SUBSET Defects
  /\ expired \in BOOLEAN
  /\ timedOut = FALSE
  /\ stage = "gates"
  /\ call = [l \in Legs |-> "idle"]
  /\ seen = [l \in Legs |-> "none"]
  /\ verdict = "none"

\* deadline = min(expiresAt, now + timeoutMs), line 140.
Late == expired \/ timedOut
AllAre(answer) == \A l \in Legs : call[l] = answer
Calls(legs) == call' = [l \in Legs |-> IF l \in legs THEN "waiting" ELSE "ok"]
Moves(l, from, to) == call[l] = from /\ call' = [call EXCEPT ![l] = to]
Returns(v) == stage' = "done" /\ verdict' = v
Reaches(from, to) == stage = from /\ stage' = to

\* A gate fails: nothing has been sent yet.
ThrowsAt(s) ==
  /\ stage = s
  /\ Returns("THROW")
  /\ UNCHANGED <<venue, clock, bad, call, seen>>

Gate ==
  /\ bad \cap {"input"} = {} /\ ~expired
  /\ Reaches("gates", "health")
  /\ UNCHANGED <<venue, clock, bad, call, seen, verdict>>
GateRejects == ("input" \in bad \/ expired) /\ ThrowsAt("gates")

Healthy ==
  /\ "health" \notin bad
  /\ Reaches("health", "markets")
  /\ UNCHANGED <<venue, clock, bad, call, seen, verdict>>
\* health() answers false when its call fails.
Unhealthy == ThrowsAt("health")

\* Lines 133 to 145: the markets are checked, the clock starts, both orders go.
\* Mutant of Submit: the depth check is dropped.
SubmitThin ==
  /\ bad \cap {"rules"} = {}
  /\ Reaches("markets", "create")
  /\ Sends("create", Legs)
  /\ Calls(Legs)
  /\ UNCHANGED <<order, filled, clock, bad, seen, verdict>>
Submit ==
  /\ bad \cap {"rules", "depth"} = {}
  /\ Reaches("markets", "create")
  /\ Sends("create", Legs)
  /\ Calls(Legs)
  /\ UNCHANGED <<order, filled, clock, bad, seen, verdict>>
\* One of the four calls fails, rules are empty or the books too thin.
MarketsReject == ThrowsAt("markets")

Created(l) ==
  /\ stage = "create"
  /\ Moves(l, "waiting", "ok")
  /\ UNCHANGED <<venue, clock, bad, stage, seen, verdict>>

\* A call of Promise.all fails, in 142 or in a waitForOrder: throw, no cancel.
\* The waitForOrder of the other leg goes on, but it only reads.
CallFails(l) ==
  /\ stage \in {"create", "wait"}
  /\ Moves(l, "waiting", "failed")
  /\ Returns("THROW")
  /\ UNCHANGED <<venue, clock, bad, seen>>

\* Both loops start; past the deadline they end without a single status call.
\* Mutant of AllCreated: the late verdict is given and the function goes on.
AllCreatedGoesOn ==
  /\ AllAre("ok")
  /\ Reaches("create", "wait")
  /\ Calls(IF Late THEN {} ELSE Legs)
  /\ verdict' = IF Late THEN "TIMEOUT" ELSE verdict
  /\ UNCHANGED <<venue, clock, bad, seen>>
AllCreated ==
  /\ AllAre("ok")
  /\ Reaches("create", "wait")
  /\ Calls(IF Late THEN {} ELSE Legs)
  /\ UNCHANGED <<venue, clock, bad, seen, verdict>>

StatusOf(l) == CASE order[l] = "closed" -> "filled"
                 [] order[l] \in {"canceled", "refused"} -> "failed"
                 [] OTHER -> "none"

\* waitForOrder, lines 104 to 106: a final status ends the loop.
Poll(l) ==
  /\ stage = "wait"
  /\ seen' = [seen EXCEPT ![l] = StatusOf(l)]
  /\ Moves(l, "waiting", IF StatusOf(l) = "none" THEN "asleep" ELSE "ok")
  /\ UNCHANGED <<venue, clock, bad, stage, verdict>>

\* Mutant of Wake: the deadline is not looked at after the first poll.
WakeForever(l) ==
  /\ stage = "wait"
  /\ Moves(l, "asleep", "waiting")
  /\ UNCHANGED <<venue, clock, bad, stage, seen, verdict>>
Wake(l) ==
  /\ stage = "wait"
  /\ Moves(l, "asleep", IF Late THEN "ok" ELSE "waiting")
  /\ UNCHANGED <<venue, clock, bad, stage, seen, verdict>>

FilledLegs == {l \in Legs : seen[l] = "filled"}

Complete ==
  /\ stage = "wait"
  /\ AllAre("ok")
  /\ FilledLegs = Legs
  /\ Returns("COMPLETED")
  /\ UNCHANGED <<venue, clock, bad, call, seen>>

CancelUnfilled ==
  /\ AllAre("ok")
  /\ FilledLegs # Legs
  /\ Reaches("wait", "cancel")
  /\ Sends("cancel", Legs \ FilledLegs)
  /\ Calls(Legs \ FilledLegs)
  /\ UNCHANGED <<order, filled, clock, bad, seen, verdict>>

\* The answer of the API says nothing about the venue.
CancelAnswered(l) ==
  /\ stage = "cancel"
  /\ \E answer \in {"ok", "failed"} : Moves(l, "waiting", answer)
  /\ UNCHANGED <<venue, clock, bad, stage, seen, verdict>>

CancelSettled ==
  /\ stage = "cancel"
  /\ \A l \in Legs : call[l] # "waiting"
  /\ Returns(IF Late THEN "TIMEOUT" ELSE "FAILED")
  /\ UNCHANGED <<venue, clock, bad, call, seen>>

Expire == ~expired /\ expired' = TRUE /\ UNCHANGED <<venue, timedOut, pair>>
TimeOut ==
  /\ ~timedOut /\ stage \in {"create", "wait", "cancel"}
  /\ timedOut' = TRUE
  /\ UNCHANGED <<venue, expired, pair>>

Settles(l) == Created(l) \/ CallFails(l) \/ Poll(l) \/ Wake(l) \/ CancelAnswered(l)
Continues == Gate \/ GateRejects \/ Healthy \/ Unhealthy \/ Submit \/ MarketsReject
               \/ AllCreated \/ Complete \/ CancelUnfilled \/ CancelSettled
Tick == Expire \/ TimeOut
VenueStep == VenueNext /\ UNCHANGED <<clock, pair>>

Next == VenueStep \/ Tick \/ Continues \/ \E l \in Legs : Settles(l)

Spec == Init /\ [][Next]_vars

\* Calls and timers settle and the clock advances; the venue promises nothing.
Fairness ==
  WF_vars(Continues) /\ WF_vars(TimeOut) /\ \A l \in Legs : WF_vars(Settles(l))
LiveSpec == Spec /\ Fairness
-----------------------------------------------------------------------------
\* COMPLETED is given only when both orders are filled in full, although the
\* two loops end at different moments (lines 149 to 154).
CompletedIsHedged == verdict = "COMPLETED" => \A l \in Legs : filled[l] = Qty

\* Once the caller has its answer nothing more is sent (155 awaits the cancels).
QuietAfterVerdict ==
  [][verdict # "none" => \A l \in Legs : wire'[l] \subseteq wire[l]]_vars

\* An order that never fills does not keep executeHummingbotPair waiting.
Answers == <>(verdict # "none")

\* executeHummingbotPair keeps the promise of PairTrade, with an order that may
\* still appear after every answer but COMPLETED.
PT == INSTANCE PairTrade
        WITH admitted <- (bad = {}), Overtaken <- {"THROW", "FAILED", "TIMEOUT"}
KeepsPromise == PT!Spec
=============================================================================
