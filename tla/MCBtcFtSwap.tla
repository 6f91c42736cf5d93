---------------------------- MODULE MCBtcFtSwap ----------------------------
(***************************************************************************)
(* An instance of BtcFtSwap for TLC.                                       *)
(***************************************************************************)
EXTENDS BtcFtSwapSafety, Sequences

CONSTANTS alice, bob, tal, usda, script, change

MCFirstBalance ==
  [ft \in Tokens |-> [w \in Wallets |->
     IF w = bob THEN 0 ELSE IF ft = tal THEN 2 ELSE 1]]

Out(to, value) == [scriptPubKey |-> to, value |-> value]

(* Of the first the last output counts, the one before it overflows the    *)
(* word; the second pays too little, and the rest goes elsewhere.          *)
MCBtcTxs == {<<Out(script, 4), Out(script, 2)>>, <<Out(script, 1), Out(change, 2)>>}
=============================================================================
