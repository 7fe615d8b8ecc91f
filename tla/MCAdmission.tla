---------------------------- MODULE MCAdmission ----------------------------
(***************************************************************************)
(* Instance of Admission for TLC: books of up to three levels at four      *)
(* prices, with invalid ones among them, and two capital sources.          *)
(***************************************************************************)
EXTENDS Admission

L(price, quantity) == [price |-> price, quantity |-> quantity]
MCLevels == {L(0, 1), L(1, 1), L(2, 1), L(5, 1), L(6, 2)}

O(amount_, cost, usable) == [amount |-> amount_, cost |-> cost, usable |-> usable]
MCOffers == {O(9, 1, FALSE), O(2, 1, TRUE), O(1, 1, TRUE), O(4, 2, TRUE), O(0, 1, TRUE)}
=============================================================================
