------------------------ MODULE HummingbotPairProofs ------------------------
(***************************************************************************)
(* What HummingbotPair guarantees for every Qty: COMPLETED means that both *)
(* legs are filled, and executeHummingbotPair implements PairTrade.        *)
(***************************************************************************)
EXTENDS HummingbotPair, VenueProofs

\* A leg whose loop ended as filled stays filled; a verdict ends the function.
Bookkeeping ==
  /\ \A l \in Legs : seen[l] = "filled" => order[l] = "closed"
  /\ verdict = "none" <=> stage # "done"
  /\ verdict = "COMPLETED" => FilledLegs = Legs

Checking == {"gates", "health", "markets"}

\* Nothing is sent before every check has passed.
Gated ==
  (stage \in Checking \/ bad # {}) =>
    /\ \A l \in Legs : wire[l] = {} /\ order[l] = "none"
    /\ stage \in Checking \cup {"done"} /\ verdict \in {"none", "THROW"}

\* Each check that has been passed found nothing wrong.
Checked ==
  /\ stage \in {"health", "markets"} => "input" \notin bad
  /\ stage = "markets" => "health" \notin bad

Inv == TypeOK /\ VenueSound /\ Bookkeeping /\ Gated /\ Checked

USE DEF Stages, Verdicts, Legs, Checking

-----------------------------------------------------------------------------
(* Inv is inductive                                                        *)

LEMMA InitInv == Init => Inv
<1> SUFFICES ASSUME Init PROVE Inv
  OBVIOUS
<1> USE DEF Init, VenueInit
<1>1. VenueTypeOK
  BY QtyAssumption DEF VenueTypeOK, Requests, OrderStates
<1>2. TypeOK
  BY <1>1 DEF TypeOK
<1>3. VenueSound /\ Bookkeeping /\ Gated /\ Checked
  BY DEF VenueSound, Bookkeeping, Gated, Checked
<1> QED
  BY <1>2, <1>3 DEF Inv

\* A step of the venues keeps Inv: they only answer what was sent.
LEMMA VenueStepInv ==
  ASSUME Inv, VenueStep
  PROVE  Inv'
<1> USE DEF Inv, VenueStep, clock, pair
<1>1. TypeOK'
  BY VenueType DEF TypeOK
<1>2. VenueSound'
  BY VenueKeeps DEF TypeOK
<1>3. Bookkeeping'
  BY VenueKeeps DEF TypeOK, Bookkeeping, FilledLegs
<1>4. Gated'
  <2> SUFFICES ASSUME stage \in Checking \/ bad # {}
               PROVE  \A l \in Legs : wire'[l] = {} /\ order'[l] = "none"
    BY DEF Gated
  <2>1. \A l \in Legs : wire[l] = {} /\ order[l] = "none"
    BY DEF Gated
  <2>2. \A l \in Legs : wire'[l] \subseteq wire[l]
    BY VenueSteps DEF TypeOK
  <2>3. \A l \in Legs : order[l] = "none" /\ order'[l] # "none" => "create" \in wire[l]
    BY VenueKeeps DEF TypeOK
  <2> QED
    BY <2>1, <2>2, <2>3
<1>5. Checked'
  BY DEF Checked
<1> QED
  BY <1>1, <1>2, <1>3, <1>4, <1>5

\* A call or a timer that settles keeps Inv.
LEMMA SettlesInv ==
  ASSUME Inv, NEW l \in Legs, Settles(l)
  PROVE  Inv'
<1> USE DEF Inv, TypeOK, VenueTypeOK, VenueSound, Bookkeeping, Gated, Checked, FilledLegs, Moves,
            Returns, venue, clock
<1>1. CASE Created(l)
  BY <1>1 DEF Created
<1>2. CASE CallFails(l)
  BY <1>2 DEF CallFails
<1>3. CASE Poll(l)
  BY <1>3 DEF Poll, StatusOf
<1>4. CASE Wake(l)
  BY <1>4 DEF Wake
<1>5. CASE CancelAnswered(l)
  BY <1>5 DEF CancelAnswered
<1> QED
  BY <1>1, <1>2, <1>3, <1>4, <1>5 DEF Settles

\* The code between two awaits keeps Inv.
LEMMA ContinuesInv ==
  ASSUME Inv, Continues
  PROVE  Inv'
<1> USE DEF Inv, TypeOK, VenueTypeOK, VenueSound, Bookkeeping, Gated, Checked, FilledLegs, AllAre,
            Calls, Sends, Returns, Reaches, ThrowsAt, Requests, Defects, venue, clock
<1>1. CASE Gate
  BY <1>1 DEF Gate
<1>2. CASE GateRejects
  BY <1>2 DEF GateRejects
<1>3. CASE Healthy
  BY <1>3 DEF Healthy
<1>4. CASE Unhealthy
  BY <1>4 DEF Unhealthy
<1>5. CASE Submit
  <2>1. bad = {}
    BY <1>5 DEF Submit
  <2> QED
    BY <1>5, <2>1 DEF Submit
<1>6. CASE MarketsReject
  BY <1>6 DEF MarketsReject
<1>7. CASE AllCreated
  BY <1>7 DEF AllCreated
<1>8. CASE Complete
  BY <1>8 DEF Complete
<1>9. CASE CancelUnfilled
  <2> USE <1>9 DEF CancelUnfilled
  <2>1. TypeOK'
    OBVIOUS
  <2>2. VenueSound' /\ Bookkeeping'
    OBVIOUS
  <2>3. bad = {} /\ bad' = bad /\ stage' = "cancel"
    OBVIOUS
  <2>4. Gated' /\ Checked'
    BY ONLY <2>3 DEF Gated, Checked, Checking
  <2> QED
    BY <2>1, <2>2, <2>4
<1>10. CASE CancelSettled
  BY <1>10 DEF CancelSettled
<1> QED
  BY <1>1, <1>2, <1>3, <1>4, <1>5, <1>6, <1>7, <1>8, <1>9, <1>10 DEF Continues

LEMMA TickInv ==
  ASSUME Inv, Tick
  PROVE  Inv'
<1> USE DEF Inv, TypeOK, VenueTypeOK, VenueSound, Bookkeeping, Gated, Checked, FilledLegs, venue, pair
<1> QED
  BY DEF Tick, Expire, TimeOut

LEMMA NextInv == Inv /\ [Next]_vars => Inv'
<1> SUFFICES ASSUME Inv, [Next]_vars PROVE Inv'
  OBVIOUS
<1>1. CASE Next
  BY <1>1, VenueStepInv, SettlesInv, ContinuesInv, TickInv DEF Next
<1>2. CASE UNCHANGED vars
  BY <1>2 DEF vars, venue, clock, pair, Inv, TypeOK, VenueTypeOK, VenueSound, Bookkeeping,
              Gated, Checked, FilledLegs
<1> QED
  BY <1>1, <1>2

-----------------------------------------------------------------------------
(* What follows from Inv                                                   *)

\* Inv holds in every state.
LEMMA Invariance == Spec => []Inv
<1> QED
  BY InitInv, NextInv, PTL DEF Spec

\* The variables keep their types.
THEOREM Typing == Spec => []TypeOK
<1>1. Inv => TypeOK
  BY DEF Inv
<1> QED
  BY <1>1, Invariance, PTL

\* COMPLETED is given only when both legs are filled in full, although the two
\* polling loops end at different moments.
THEOREM Hedged == Spec => []CompletedIsHedged
<1>1. Inv => CompletedIsHedged
  BY DEF Inv, Bookkeeping, FilledLegs, VenueSound, CompletedIsHedged
<1> QED
  BY <1>1, Invariance, PTL

-----------------------------------------------------------------------------
(* What a step may not do after the answer                                 *)

\* Once executeHummingbotPair has answered it sends nothing more, and what was
\* on the way can only arrive.
THEOREM Quiet == Spec => QuietAfterVerdict
<1>1. Inv /\ [Next]_vars =>
        [verdict # "none" => \A l \in Legs : wire'[l] \subseteq wire[l]]_vars
  <2> SUFFICES ASSUME Inv, Next, verdict # "none"
               PROVE  \A l \in Legs : wire'[l] \subseteq wire[l]
    OBVIOUS
  <2>1. stage = "done"
    BY DEF Inv, TypeOK, Bookkeeping
  <2>2. CASE VenueNext
    BY <2>2, VenueSteps DEF Inv, TypeOK
  <2>3. CASE Tick
    BY <2>3 DEF Tick, Expire, TimeOut, venue
  <2>4. CASE \E l \in Legs : Settles(l)
    BY <2>1, <2>4 DEF Settles, Created, CallFails, Poll, Wake, CancelAnswered, venue
  <2>5. CASE Continues
    BY <2>1, <2>5 DEF Continues, Gate, GateRejects, Healthy, Unhealthy, Submit, MarketsReject,
                      AllCreated, Complete, CancelUnfilled, CancelSettled, ThrowsAt, Reaches
  <2> QED
    BY <2>2, <2>3, <2>4, <2>5 DEF Next, VenueStep
<1> QED
  BY Invariance, <1>1, PTL DEF Spec, QuietAfterVerdict

-----------------------------------------------------------------------------
(* executeHummingbotPair implements PairTrade                              *)

\* The initial states map to initial states of PairTrade.
LEMMA InitRefines == Init => PT!Init
<1> QED
  BY DEF Init, VenueInit, PT!Init, PT!Legs

\* A step of the venues is a step of PairTrade or changes nothing it sees; a
\* late order needs an unfilled leg, so COMPLETED has not been given.
LEMMA VenueStepRefines ==
  ASSUME Inv, VenueStep
  PROVE  [PT!Next]_PT!vars
<1> USE DEF Inv, TypeOK, VenueStep, clock, pair, PT!Legs
<1>1. CASE UNCHANGED <<order, filled>>
  BY <1>1 DEF PT!vars
<1>2. ASSUME NEW l \in Legs, Places(l) PROVE PT!Next
  <2>1. order[l] = "none" /\ bad = {}
    BY <1>2 DEF Places, VenueSound, Gated
  <2>2. verdict # "COMPLETED"
    BY <2>1 DEF Bookkeeping, FilledLegs
  <2>3. PT!Place(l)
    BY <1>2, <2>1, <2>2 DEF Places, PT!Place, PT!Become
  <2> QED
    BY <2>3 DEF PT!Next
<1>3. ASSUME NEW l \in Legs, Fills(l) PROVE PT!Next
  BY <1>3 DEF Fills, Becomes, PT!Next, PT!Fill, PT!Become
<1>4. ASSUME NEW l \in Legs, Drops(l) PROVE PT!Next
  BY <1>4 DEF Drops, PT!Next, PT!Drop, PT!Become
<1> QED
  BY VenueSteps, <1>1, <1>2, <1>3, <1>4

\* A step that answers is a Conclude of PairTrade; the others change nothing.
LEMMA PairStepRefines ==
  ASSUME Inv, Tick \/ Continues \/ \E l \in Legs : Settles(l)
  PROVE  [PT!Next]_PT!vars
<1> USE DEF Inv, venue, PT!Legs, PT!Verdicts, PT!vars, Returns, ThrowsAt
<1>1. ASSUME NEW v \in Verdicts, verdict = "none", Returns(v),
             UNCHANGED <<bad, order, filled>>,
             v = "COMPLETED" => \A l \in Legs : filled[l] = Qty,
             bad # {} => v = "THROW"
      PROVE  PT!Next
  BY <1>1 DEF PT!Next, PT!Conclude
<1>2. CASE GateRejects \/ Unhealthy \/ MarketsReject
  BY <1>1, <1>2 DEF GateRejects, Unhealthy, MarketsReject, Bookkeeping
<1>3. CASE Complete
  BY <1>1, <1>3 DEF Complete, FilledLegs, Bookkeeping, Gated, VenueSound
<1>4. CASE CancelSettled
  BY <1>1, <1>4 DEF CancelSettled, Bookkeeping, Gated
<1>5. CASE Gate \/ Healthy \/ Submit \/ AllCreated \/ CancelUnfilled
  BY <1>5 DEF Gate, Healthy, Submit, AllCreated, CancelUnfilled
<1>6. CASE Tick
  BY <1>6 DEF Tick, Expire, TimeOut, pair
<1>7. ASSUME NEW l \in Legs, CallFails(l) PROVE PT!Next
  BY <1>1, <1>7 DEF CallFails, Bookkeeping
<1>8. ASSUME NEW l \in Legs, Created(l) \/ Poll(l) \/ Wake(l) \/ CancelAnswered(l)
      PROVE  UNCHANGED PT!vars
  BY <1>8 DEF Created, Poll, Wake, CancelAnswered
<1> QED
  BY <1>2, <1>3, <1>4, <1>5, <1>6, <1>7, <1>8 DEF Continues, Settles

\* executeHummingbotPair, the API and the exchanges together implement PairTrade.
THEOREM Implements == Spec => KeepsPromise
<1>1. Inv /\ [Next]_vars => [PT!Next]_PT!vars
  <2> SUFFICES ASSUME Inv, [Next]_vars PROVE [PT!Next]_PT!vars
    OBVIOUS
  <2>1. CASE Next
    BY <2>1, VenueStepRefines, PairStepRefines DEF Next
  <2>2. CASE UNCHANGED vars
    BY <2>2 DEF vars, venue, pair, PT!vars
  <2> QED
    BY <2>1, <2>2
<1> QED
  BY InitRefines, Invariance, <1>1, PTL DEF Spec, KeepsPromise, PT!Spec
=============================================================================
