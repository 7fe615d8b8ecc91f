---------------------------- MODULE CexPairProofs ----------------------------
(***************************************************************************)
(* What CexPair guarantees for every Qty: COMPLETED means that both legs   *)
(* are filled, and executePair implements PairTrade.  Inv is the inductive *)
(* invariant behind both.                                                  *)
(***************************************************************************)
EXTENDS CexPair, VenueProofs

\* The heart of Inv: a leg without an order means that its createOrder has not
\* resolved yet, or that executePair threw.
Overtaking ==
  \A l \in Legs :
    order[l] = "none" =>
      stage = "gates" \/ (stage = "create" /\ call[l] # "ok") \/ verdict = "THROW"

\* A leg read as filled stays filled; a verdict ends the function.
Bookkeeping ==
  /\ \A l \in seen : order[l] = "closed"
  /\ verdict = "none" <=> stage # "done"
  /\ verdict = "COMPLETED" => seen = Legs

\* Before the gates, and after they fail, nothing has been sent.
Gated ==
  (stage = "gates" \/ bad # {}) =>
    /\ \A l \in Legs : wire[l] = {} /\ order[l] = "none"
    /\ stage \in {"gates", "done"} /\ verdict \in {"none", "THROW"}

\* While the cancels run, only a leg read as filled has no call to settle.
Cleaning ==
  (stage = "cancel" \/ verdict = "FAILED") =>
    \A l \in Legs :
      /\ call[l] = "idle" => l \in seen
      /\ verdict = "FAILED" => call[l] # "waiting"

Inv == TypeOK /\ VenueSound /\ Overtaking /\ Bookkeeping /\ Gated /\ Cleaning

USE DEF Stages, Verdicts, Legs

-----------------------------------------------------------------------------
(* Inv is inductive                                                        *)

LEMMA InitInv == Init => Inv
<1> USE QtyAssumption
<1> QED
  BY DEF Init, VenueInit, Inv, TypeOK, VenueTypeOK, VenueSound, Overtaking, Bookkeeping,
         Gated, Cleaning, Requests, OrderStates

\* A step of the venues keeps Inv: they only answer what was sent.
LEMMA VenueStepInv ==
  ASSUME Inv, VenueStep
  PROVE  Inv'
<1> USE DEF Inv, VenueStep, pair
<1>1. TypeOK'
  BY VenueType DEF TypeOK
<1>2. VenueSound'
  BY VenueKeeps DEF TypeOK
<1>3. Overtaking'
  BY VenueKeeps DEF TypeOK, Overtaking
<1>4. Bookkeeping'
  <2>1. seen \subseteq Legs
    BY DEF TypeOK
  <2> QED
    BY VenueKeeps, <2>1 DEF TypeOK, Bookkeeping
<1>5. Gated'
  <2> SUFFICES ASSUME stage = "gates" \/ bad # {}
               PROVE  \A l \in Legs : wire'[l] = {} /\ order'[l] = "none"
    BY DEF Gated
  <2>1. \A l \in Legs : wire[l] = {} /\ order[l] = "none"
    BY DEF Gated
  <2>2. \A l \in Legs : wire'[l] \subseteq wire[l]
    BY VenueSteps DEF TypeOK
  <2>3. \A l \in Legs : order[l] = "none" /\ order'[l] # "none" => "create" \in wire[l]
    BY VenueKeeps DEF TypeOK
  <2> QED
    BY <2>1, <2>2, <2>3
<1>6. Cleaning'
  BY VenueKeeps DEF TypeOK, Overtaking, Bookkeeping, Cleaning
<1> QED
  BY <1>1, <1>2, <1>3, <1>4, <1>5, <1>6

\* A call that settles keeps Inv.
LEMMA SettlesInv ==
  ASSUME Inv, NEW l \in Legs, Settles(l)
  PROVE  Inv'
<1> USE DEF Inv, TypeOK, VenueTypeOK, VenueSound, Overtaking, Bookkeeping, Gated,
            Cleaning, Answered, Returns, venue, IsFilled
<1>1. CASE Created(l)
  BY <1>1 DEF Created
<1>2. CASE StatusRead(l)
  BY <1>2 DEF StatusRead
<1>3. CASE Canceled(l)
  BY <1>3 DEF Canceled
<1>4. CASE CallFails(l)
  BY <1>4 DEF CallFails
<1>5. CASE CancelFails(l)
  BY <1>5 DEF CancelFails
<1> QED
  BY <1>1, <1>2, <1>3, <1>4, <1>5 DEF Settles

\* The code between two awaits keeps Inv.
LEMMA ContinuesInv ==
  ASSUME Inv, Continues
  PROVE  Inv'
<1> USE DEF Inv, TypeOK, VenueTypeOK, VenueSound, Overtaking, Bookkeeping, Gated,
            Cleaning, AllAre, Calls, Sends, Returns, Requests, venue
<1>1. CASE Reject
  BY <1>1 DEF Reject
<1>2. CASE Submit
  BY <1>2 DEF Submit
<1>3. CASE CreatedLate
  BY <1>3 DEF CreatedLate
<1>4. CASE CreatedInTime
  BY <1>4 DEF CreatedInTime
<1>5. CASE Complete
  BY <1>5 DEF Complete
<1>6. CASE CancelUnfilled
  BY <1>6 DEF CancelUnfilled
<1>7. CASE CancelSettled
  BY <1>7 DEF CancelSettled
<1> QED
  BY <1>1, <1>2, <1>3, <1>4, <1>5, <1>6, <1>7 DEF Continues

LEMMA NextInv == Inv /\ [Next]_vars => Inv'
<1> SUFFICES ASSUME Inv, [Next]_vars PROVE Inv'
  OBVIOUS
<1>1. CASE Next
  BY <1>1, VenueStepInv, SettlesInv, ContinuesInv DEF Next
<1>2. CASE UNCHANGED vars
  BY <1>2 DEF vars, venue, pair, Inv, TypeOK, VenueTypeOK, VenueSound, Overtaking,
              Bookkeeping, Gated, Cleaning
<1> QED
  BY <1>1, <1>2

-----------------------------------------------------------------------------
(* What follows from Inv                                                   *)

\* Inv holds in every state.
LEMMA Invariance == Spec => []Inv
<1> QED
  BY InitInv, NextInv, PTL DEF Spec

\* The variables keep their types.
THEOREM Typing == Spec => []TypeOK
<1>1. Inv => TypeOK
  BY DEF Inv
<1> QED
  BY <1>1, Invariance, PTL

\* COMPLETED is given only when both legs are filled in full, although their
\* statuses are read at different moments.
THEOREM Hedged == Spec => []CompletedIsHedged
<1>1. Inv => CompletedIsHedged
  BY DEF Inv, Bookkeeping, VenueSound, CompletedIsHedged
<1> QED
  BY <1>1, Invariance, PTL

\* A FAILED pair has asked for the cancel of every leg that is not filled in
\* full, and that call has settled; what the exchange did with it is its own.
THEOREM FailureAsked == Spec => []FailedIsAsked
<1>1. Inv => FailedIsAsked
  BY DEF Inv, TypeOK, VenueSound, Bookkeeping, Cleaning, FailedIsAsked
<1> QED
  BY <1>1, Invariance, PTL

-----------------------------------------------------------------------------
(* What a step may not do after the answer                                 *)

\* Once executePair has answered it sends nothing more, and except after a
\* throw every leg has its order already, so none appears behind the caller.
THEOREM Quiet == Spec => QuietAfterVerdict
<1>1. Inv /\ [Next]_vars =>
        [verdict # "none" =>
           /\ \A l \in Legs : wire'[l] \subseteq wire[l]
           /\ verdict # "THROW" =>
                \A l \in Legs : order[l] = "none" => order'[l] = "none"]_vars
  <2> SUFFICES ASSUME Inv, Next, verdict # "none"
               PROVE  /\ \A l \in Legs : wire'[l] \subseteq wire[l]
                      /\ verdict # "THROW" =>
                           \A l \in Legs : order[l] = "none" => order'[l] = "none"
    OBVIOUS
  <2>1. stage = "done"
    BY DEF Inv, TypeOK, Bookkeeping
  <2>2. verdict # "THROW" => \A l \in Legs : order[l] # "none"
    BY <2>1 DEF Inv, Overtaking
  <2>3. CASE VenueNext
    BY <2>2, <2>3, VenueSteps DEF Inv, TypeOK
  <2>4. CASE \E l \in Legs : Settles(l)
    BY <2>1, <2>4 DEF Settles, Created, StatusRead, Canceled, CallFails, CancelFails
  <2>5. CASE Continues
    BY <2>1, <2>5 DEF Continues, Reject, Submit, CreatedLate, CreatedInTime, Complete,
                      CancelUnfilled, CancelSettled
  <2> QED
    BY <2>3, <2>4, <2>5 DEF Next, VenueStep
<1> QED
  BY Invariance, <1>1, PTL DEF Spec, QuietAfterVerdict

-----------------------------------------------------------------------------
(* executePair implements PairTrade                                        *)

\* The initial states map to initial states of PairTrade.
LEMMA InitRefines == Init => PT!Init
<1> QED
  BY DEF Init, VenueInit, PT!Init, PT!Legs

\* A step of the venues is a step of PairTrade or changes nothing it sees.
LEMMA VenueStepRefines ==
  ASSUME Inv, VenueStep
  PROVE  [PT!Next]_PT!vars
<1> USE DEF Inv, TypeOK, VenueStep, pair, PT!Legs
<1>1. CASE UNCHANGED <<order, filled>>
  BY <1>1 DEF PT!vars
<1>2. ASSUME NEW l \in Legs, Places(l) PROVE PT!Next
  <2>1. order[l] = "none" /\ bad = {} /\ verdict \in {"none", "THROW"}
    BY <1>2 DEF Places, VenueSound, Gated, Overtaking, Bookkeeping
  <2>2. PT!Place(l)
    BY <1>2, <2>1 DEF Places, PT!Place, PT!Become
  <2> QED
    BY <2>2 DEF PT!Next
<1>3. ASSUME NEW l \in Legs, Fills(l) PROVE PT!Next
  BY <1>3 DEF Fills, Becomes, PT!Next, PT!Fill, PT!Become
<1>4. ASSUME NEW l \in Legs, Drops(l) PROVE PT!Next
  BY <1>4 DEF Drops, PT!Next, PT!Drop, PT!Become
<1> QED
  BY VenueSteps, <1>1, <1>2, <1>3, <1>4

\* A step that answers is a Conclude of PairTrade; the others change nothing.
LEMMA PairStepRefines ==
  ASSUME Inv, Continues \/ \E l \in Legs : Settles(l)
  PROVE  [PT!Next]_PT!vars
<1> USE DEF Inv, venue, PT!Legs, PT!Verdicts, PT!vars, Returns
<1>1. ASSUME NEW v \in Verdicts, verdict = "none", Returns(v),
             UNCHANGED <<bad, order, filled>>,
             v = "COMPLETED" => \A l \in Legs : filled[l] = Qty,
             bad # {} => v = "THROW"
      PROVE  PT!Next
  BY <1>1 DEF PT!Next, PT!Conclude
<1>2. CASE Reject
  BY <1>1, <1>2 DEF Reject, Bookkeeping
<1>3. CASE CreatedLate
  BY <1>1, <1>3 DEF CreatedLate, Bookkeeping, Gated
<1>4. CASE Complete
  BY <1>1, <1>4 DEF Complete, Bookkeeping, Gated, VenueSound
<1>5. CASE CancelSettled
  BY <1>1, <1>5 DEF CancelSettled, Bookkeeping, Gated
<1>6. CASE Submit \/ CreatedInTime \/ CancelUnfilled
  BY <1>6 DEF Submit, CreatedInTime, CancelUnfilled
<1>7. ASSUME NEW l \in Legs, CallFails(l) PROVE PT!Next
  BY <1>1, <1>7 DEF CallFails, Bookkeeping
<1>8. ASSUME NEW l \in Legs, Created(l) \/ StatusRead(l) \/ Canceled(l) \/ CancelFails(l)
      PROVE  UNCHANGED PT!vars
  BY <1>8 DEF Created, StatusRead, Canceled, CancelFails
<1> QED
  BY <1>2, <1>3, <1>4, <1>5, <1>6, <1>7, <1>8 DEF Continues, Settles

\* executePair, the wire and the exchanges together implement PairTrade.
THEOREM Implements == Spec => KeepsPromise
<1>1. Inv /\ [Next]_vars => [PT!Next]_PT!vars
  <2> SUFFICES ASSUME Inv, [Next]_vars PROVE [PT!Next]_PT!vars
    OBVIOUS
  <2>1. CASE Next
    BY <2>1, VenueStepRefines, PairStepRefines DEF Next
  <2>2. CASE UNCHANGED vars
    BY <2>2 DEF vars, venue, pair, PT!vars
  <2> QED
    BY <2>1, <2>2
<1> QED
  BY InitRefines, Invariance, <1>1, PTL DEF Spec, KeepsPromise, PT!Spec
=============================================================================
