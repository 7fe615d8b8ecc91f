----------------------------- MODULE VenueProofs -----------------------------
(***************************************************************************)
(* What every step of the venues keeps, for every Qty: the lemmas the      *)
(* proofs about the two pair executors cite.                               *)
(***************************************************************************)
EXTENDS Venue, TLAPS

\* What the executors rely on: a closed order is filled in full, and a create
\* on the way belongs to a leg that has no order yet.
VenueSound ==
  /\ \A l \in Legs : order[l] = "closed" => filled[l] = Qty
  /\ \A l \in Legs : "create" \in wire[l] => order[l] = "none"

\* How an order can change in one step, request by request.
Places(l) ==
  /\ "create" \in wire[l]
  /\ \E state \in {"open", "refused"} : order' = [order EXCEPT ![l] = state]
  /\ filled' = filled
Drops(l) ==
  /\ order[l] = "open"
  /\ order' = [order EXCEPT ![l] = "canceled"]
  /\ filled' = filled

\* The venues keep their types.
LEMMA VenueType ==
  ASSUME VenueTypeOK, VenueNext
  PROVE  VenueTypeOK'
<1> USE QtyAssumption DEF VenueTypeOK, Arrives, Becomes, Requests, OrderStates
<1>1. PICK l \in Legs :
        Opens(l) \/ Refuses(l) \/ Cancels(l) \/ Loses(l) \/ Fills(l) \/ Expires(l)
  BY DEF VenueNext
<1>2. CASE Opens(l)
  BY <1>2 DEF Opens
<1>3. CASE Refuses(l)
  BY <1>3 DEF Refuses
<1>4. CASE Cancels(l)
  BY <1>4 DEF Cancels
<1>5. CASE Loses(l)
  BY <1>5 DEF Loses
<1>6. CASE Fills(l)
  BY <1>6 DEF Fills
<1>7. CASE Expires(l)
  BY <1>7 DEF Expires, venue
<1> QED
  BY <1>1, <1>2, <1>3, <1>4, <1>5, <1>6, <1>7

\* Every venue step places, fills or drops one order, or changes none; and it
\* only takes requests off the wire.
LEMMA VenueSteps ==
  ASSUME VenueTypeOK, VenueNext
  PROVE  /\ \/ UNCHANGED <<order, filled>>
            \/ \E l \in Legs : Places(l) /\ "create" \notin wire'[l]
            \/ \E l \in Legs : Fills(l)
            \/ \E l \in Legs : Drops(l)
         /\ \A l \in Legs : wire'[l] \subseteq wire[l]
<1> USE DEF VenueTypeOK, Arrives, Becomes, Requests, OrderStates
<1>1. PICK l \in Legs :
        Opens(l) \/ Refuses(l) \/ Cancels(l) \/ Loses(l) \/ Fills(l) \/ Expires(l)
  BY DEF VenueNext
<1>2. CASE Opens(l)
  BY <1>2 DEF Opens, Places
<1>3. CASE Refuses(l)
  BY <1>3 DEF Refuses, Places
<1>4. CASE Cancels(l)
  <2>1. \A m \in Legs : wire'[m] \subseteq wire[m]
    BY <1>4 DEF Cancels
  <2>2. CASE order[l] = "open"
    BY <1>4, <2>1, <2>2 DEF Cancels, Drops
  <2>3. CASE order[l] # "open"
    <3>1. order' = order
      BY <1>4, <2>3 DEF Cancels
    <3> QED
      BY <1>4, <2>1, <3>1 DEF Cancels
  <2> QED
    BY <2>2, <2>3
<1>5. CASE Loses(l)
  BY <1>5 DEF Loses
<1>6. CASE Fills(l)
  BY <1>6 DEF Fills
<1>7. CASE Expires(l)
  BY <1>7 DEF Expires, Drops
<1> QED
  BY <1>1, <1>2, <1>3, <1>4, <1>5, <1>6, <1>7

\* An order that has ended stays as it is, and an order never disappears; a
\* leg gets an order only from a create that was on the way.
LEMMA VenueKeeps ==
  ASSUME VenueTypeOK, VenueSound, VenueNext
  PROVE  /\ VenueSound'
         /\ \A l \in Legs : order[l] \notin {"none", "open"} => order'[l] = order[l]
         /\ \A l \in Legs : order'[l] = "none" => order[l] = "none"
         /\ \A l \in Legs : order[l] = "none" /\ order'[l] # "none"
                              => "create" \in wire[l]
<1> USE DEF VenueTypeOK
<1>1. \A l \in Legs : wire'[l] \subseteq wire[l]
  BY VenueSteps
<1>2. CASE UNCHANGED <<order, filled>>
  BY <1>1, <1>2 DEF VenueSound
<1>3. ASSUME NEW l \in Legs, Places(l), "create" \notin wire'[l]
      PROVE  /\ VenueSound'
             /\ \A m \in Legs : order[m] \notin {"none", "open"} => order'[m] = order[m]
             /\ \A m \in Legs : order'[m] = "none" => order[m] = "none"
             /\ \A m \in Legs : order[m] = "none" /\ order'[m] # "none"
                                  => "create" \in wire[m]
  <2>1. order[l] = "none"
    BY <1>3 DEF Places, VenueSound
  <2> QED
    BY <1>1, <1>3, <2>1 DEF Places, VenueSound
<1>4. ASSUME NEW l \in Legs, Fills(l)
      PROVE  /\ VenueSound'
             /\ \A m \in Legs : order[m] \notin {"none", "open"} => order'[m] = order[m]
             /\ \A m \in Legs : order'[m] = "none" => order[m] = "none"
             /\ \A m \in Legs : order[m] = "none" /\ order'[m] # "none"
                                  => "create" \in wire[m]
  BY <1>1, <1>4 DEF Fills, Becomes, VenueSound
<1>5. ASSUME NEW l \in Legs, Drops(l)
      PROVE  /\ VenueSound'
             /\ \A m \in Legs : order[m] \notin {"none", "open"} => order'[m] = order[m]
             /\ \A m \in Legs : order'[m] = "none" => order[m] = "none"
             /\ \A m \in Legs : order[m] = "none" /\ order'[m] # "none"
                                  => "create" \in wire[m]
  BY <1>1, <1>5 DEF Drops, VenueSound
<1> QED
  BY VenueSteps, <1>2, <1>3, <1>4, <1>5
=============================================================================
