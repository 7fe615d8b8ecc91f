------------------------------- MODULE DexSwap -------------------------------
(***************************************************************************)
(* executeDexOpportunity of packages/execution/src/dex-execution.ts with   *)
(* the client of dex-gateway.ts: the gates, a quote, the swap, and a loop  *)
(* that polls the transaction until a deadline.  The gateway and the chain *)
(* are external: a swap request may arrive after the client gave up on it, *)
(* and a transaction ends at any later time, or never.                     *)
(***************************************************************************)
EXTENDS Integers

CONSTANTS
  Profits,    \* net profits an opportunity or a quote may show
  MinProfit   \* request.minNetProfit

ASSUME ProfitAssumption == Profits \subseteq Int /\ MinProfit \in Int

VARIABLES
  bad,       \* the parameters that lines 30 to 38 refuse
  profit,    \* the newest net profit shown: the opportunity's, then the quote's
  stage,     \* the await executeDexOpportunity has reached
  late,      \* the deadline of line 65 has passed
  wire,      \* the swap request is on its way to the gateway
  tx,        \* the gateway's word for the transaction of this swap
  verdict    \* what the caller got

request == <<bad, profit>>
chain == <<wire, tx>>
vars == <<request, stage, late, chain, verdict>>

Parameters == {"quantity", "slippage", "confirm"}
Stages == {"gates", "quote", "swap", "poll", "asleep", "done"}

\* Transactions whose tokens changed hands, those that were undone, and the
\* word of a gateway that gives a transaction up.
Landed == {"CONFIRMED", "SUCCESS", "COMPLETED"}
Undone == {"FAILED", "ERROR", "REVERTED"}
Ended == Landed \cup Undone \cup {"DROPPED"}

TypeOK ==
  /\ bad \in SUBSET Parameters
  /\ profit \in Profits
  /\ stage \in Stages
  /\ late \in BOOLEAN /\ wire \in BOOLEAN
  /\ tx \in {"none", "SUBMITTED"} \cup Ended
  /\ verdict \in {"none", "COMPLETED", "FAILED", "TIMEOUT", "THROW"}

Init ==
  /\ bad \in SUBSET Parameters
  /\ profit \in Profits
  /\ stage = "gates"
  /\ late = FALSE
  /\ wire = FALSE
  /\ tx = "none"
  /\ verdict = "none"

Returns(v) == stage' = "done" /\ verdict' = v
Admissible == profit > MinProfit /\ bad = {}

Reject ==
  /\ stage = "gates"
  /\ ~Admissible
  /\ Returns("THROW")
  /\ UNCHANGED <<request, late, chain>>

Admit ==
  /\ stage = "gates"
  /\ Admissible
  /\ stage' = "quote"
  /\ UNCHANGED <<request, late, chain, verdict>>

\* An HTTP error, the 8 s timeout, or a quote that lacks an amount.
QuoteThrows ==
  /\ stage = "quote"
  /\ Returns("THROW")
  /\ UNCHANGED <<request, late, chain>>

\* The quote is there and the swap goes out.  Its economics are not compared
\* with minNetProfit, and the client never sets the expiresAt of line 50.
Submit ==
  /\ stage = "quote"
  /\ profit' \in Profits
  /\ stage' = "swap"
  /\ wire' = TRUE
  /\ UNCHANGED <<bad, late, tx, verdict>>

\* Mutant of Submitted: an answer without a hash is taken.
SubmittedUnchecked ==
  /\ stage = "swap"
  /\ stage' = "poll"
  /\ UNCHANGED <<request, late, chain, verdict>>
Submitted ==
  /\ stage = "swap"
  /\ tx # "none"
  /\ stage' = "poll"
  /\ UNCHANGED <<request, late, chain, verdict>>

\* The answer is an error, is late or lacks a hash; the swap is not undone.
\* Mutant of SwapThrows: an error of the swap is answered with FAILED.
SwapThrowsFailed ==
  /\ stage = "swap"
  /\ Returns("FAILED")
  /\ UNCHANGED <<request, late, chain>>
SwapThrows ==
  /\ stage = "swap"
  /\ Returns("THROW")
  /\ UNCHANGED <<request, late, chain>>

\* transactionStatus: every word it does not know is PENDING.
\* Mutant of StatusOf: what is not known to have failed is confirmed.
StatusOfOptimist(word) ==
  CASE word \in Undone -> "FAILED"
    [] word = "SUBMITTED" -> "PENDING"
    [] OTHER -> "CONFIRMED"
StatusOf(word) ==
  CASE word \in Landed -> "CONFIRMED"
    [] word \in Undone -> "FAILED"
    [] OTHER -> "PENDING"

\* Line 66 holds; the status is read.
\* Mutant of Poll: the result carries the status itself.
PollRaw ==
  /\ stage = "poll" /\ ~late
  /\ Returns(StatusOf(tx))
  /\ UNCHANGED <<request, late, chain>>
Poll ==
  /\ stage = "poll" /\ ~late
  /\ \/ StatusOf(tx) = "CONFIRMED" /\ Returns("COMPLETED")
     \/ StatusOf(tx) = "FAILED" /\ Returns("FAILED")
     \/ StatusOf(tx) = "PENDING" /\ stage' = "asleep" /\ UNCHANGED verdict
  /\ UNCHANGED <<request, late, chain>>

\* A status call that fails ends the whole function: the hash is lost.
PollThrows ==
  /\ stage = "poll" /\ ~late
  /\ Returns("THROW")
  /\ UNCHANGED <<request, late, chain>>

\* Mutant of Wake: the deadline is renewed at every turn of the loop.
WakeRenewed ==
  /\ stage = "asleep"
  /\ stage' = "poll"
  /\ late' = FALSE
  /\ UNCHANGED <<request, chain, verdict>>
Wake ==
  /\ stage = "asleep"
  /\ stage' = "poll"
  /\ UNCHANGED <<request, late, chain, verdict>>

GiveUp ==
  /\ stage = "poll" /\ late
  /\ Returns("TIMEOUT")
  /\ UNCHANGED <<request, late, chain>>

\* Date.now() reaches the deadline, which is set once the swap is submitted.
Deadline ==
  /\ stage \in {"poll", "asleep"} /\ ~late
  /\ late' = TRUE
  /\ UNCHANGED <<request, stage, chain, verdict>>

\* The request reaches the gateway, or is refused or lost.
Arrives ==
  /\ wire
  /\ wire' = FALSE
  /\ tx' \in {"none", "SUBMITTED"}
  /\ UNCHANGED <<request, stage, late, verdict>>

\* The transaction ends.
Ends ==
  /\ tx = "SUBMITTED"
  /\ tx' \in Ended
  /\ UNCHANGED <<request, stage, late, wire, verdict>>

Executor ==
  \/ Reject \/ Admit \/ QuoteThrows \/ Submit \/ Submitted \/ SwapThrows
  \/ Poll \/ PollThrows \/ Wake \/ GiveUp
Next == Executor \/ Deadline \/ Arrives \/ Ends

\* Calls settle (each fetch has a timeout), timers fire and the clock runs;
\* nothing makes the chain end a transaction.
Fairness == WF_vars(Executor) /\ WF_vars(Deadline)
Spec == Init /\ [][Next]_vars /\ Fairness

\* After any answer but a throw no swap is on its way and none appears: the only
\* thing left to happen is that a submitted transaction ends, and only after a
\* TIMEOUT.  The caller may count (lines 57 to 77; the client aborts a slow swap
\* request without recalling it).
QuietUnlessThrown ==
  [][verdict \notin {"none", "THROW"} =>
       /\ UNCHANGED wire /\ ~wire
       /\ tx' # tx => verdict = "TIMEOUT" /\ tx = "SUBMITTED"]_vars

\* COMPLETED and FAILED are final truths about the transaction, whatever word
\* the gateway uses and whatever happens after the answer (lines 67 to 73).
VerdictIsTrue ==
  /\ verdict = "COMPLETED" => tx \in Landed
  /\ verdict = "FAILED" => tx \in Undone

\* A TIMEOUT names a transaction the chain has seen, so that the caller can
\* still follow it (line 77 returns the hash, line 148 refuses an empty one).
TimeoutIsTraceable == verdict = "TIMEOUT" => tx # "none"

\* The caller gets an answer even if the transaction never ends (line 66).
Answers == <>(stage = "done")
=============================================================================
