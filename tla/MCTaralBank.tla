---------------------------- MODULE MCTaralBank ----------------------------
(***************************************************************************)
(* Instances of TaralBank for TLC.                                         *)
(***************************************************************************)
EXTENDS TaralBankSafety

CONSTANTS importer1, importer2, exporter, lender, owner, bank

(* Heights around the default of a loan accepted at height 1: with the     *)
(* settings the contract starts with it is due, grace included, at         *)
(* 1 + 144 * 90 + 144 * 5.                                                 *)
MCHeights == {1, 13681, 13682}
MCTwoHeights == {1, 13682}

(* What wallets move between themselves: what a seller is paid.  It puts   *)
(* an order or a loan out of reach, and leaves the bank with tokens that   *)
(* belong to no order.                                                     *)
MCTransfers == {3000000}

(* An order of 3 with 1 down, worth 2 to its lender; wallets have enough   *)
(* for one order each way, importers also for the interest.                *)
MCQuotes == {<<3, 1>>}

MCBalances ==
  [w \in Wallets |->
     CASE w = importer1 -> 2060000
       [] w = importer2 -> 4060000
       [] w = lender    -> 4000000
       [] OTHER         -> 0]

(* The importer has exactly a downpayment, a loan and its interest. *)
MCExactBalances ==
  [w \in Wallets |->
     CASE w = importer1 -> 3060000
       [] w = lender    -> 4000000
       [] OTHER         -> 0]
=============================================================================
