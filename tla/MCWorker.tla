------------------------------ MODULE MCWorker ------------------------------
(***************************************************************************)
(* Instances of Worker for TLC: a table whose best row by ratio, whose     *)
(* source and whose venues exercise every gate of the worker.              *)
(***************************************************************************)
EXTENDS Worker, TLC

CONSTANTS hot, cold, swap, huge

Cex == "CEX_ACCOUNT_BALANCES"
MCSources == {Funded, Cex}

Row(source, cexPair, sized, ratio) ==
  [source |-> source, cexPair |-> cexPair, sized |-> sized,
   profitable |-> TRUE, ratio |-> ratio]

\* hot and cold are pairs of exchanges paid from exchange balances or from
\* funded inventory, swap has a DEX leg, huge exceeds maxWorkingUsd.
MCAttr == hot  :> Row(Cex, TRUE, TRUE, 3) @@ cold :> Row(Funded, TRUE, TRUE, 2)
       @@ swap :> Row(Funded, FALSE, TRUE, 1) @@ huge :> Row(Cex, TRUE, FALSE, 0)

\* Two rows, for the runs in which heartbeats overlap.
MCAttr2 == hot :> Row(Cex, TRUE, TRUE, 1) @@ cold :> Row(Funded, TRUE, TRUE, 0)

\* One row, for the runs about what happens to it.
MCAttr1 == hot :> Row(Cex, TRUE, TRUE, 0)
=============================================================================
