--------------------------- MODULE SwapAgreement ---------------------------
(***************************************************************************)
(* What a swap promises its two parties: its terms never change, but that  *)
(* an open place for the receiver is taken once; and it is settled once,   *)
(* when somebody has paid on Bitcoin what was asked, or after the expiry.  *)
(***************************************************************************)
EXTENDS Naturals

CONSTANTS
  Swaps,    \* identities of swaps
  Offers,   \* terms a swap may be opened with
  Nobody,   \* the receiver of a swap that is open to all
  Term      \* blocks until a swap expires

VARIABLES
  stage,      \* swap -> "none", "open" or "over"
  terms,      \* swap -> what was agreed
  payments,   \* outputs on Bitcoin: to whom, and how much
  height

Opening(s) ==
  /\ stage[s] = "none"
  /\ terms'[s] \in Offers /\ terms'[s].when = height
  /\ stage' = [stage EXCEPT ![s] = "open"]
  /\ terms' = [terms EXCEPT ![s] = terms'[s]]

Taking(s) ==
  /\ stage[s] # "none" /\ terms[s].ftReceiver = Nobody
  /\ terms'[s].ftReceiver # Nobody
  /\ terms' = [terms EXCEPT ![s].ftReceiver = terms'[s].ftReceiver]
  /\ UNCHANGED stage

Paid(t) ==
  \E p \in payments : p.scriptPubKey = t.btcReceiver /\ p.value >= t.sats

Settling(s) ==
  /\ stage[s] = "open"
  /\ \/ terms[s].ftReceiver # Nobody /\ Paid(terms[s])
     \/ height > terms[s].when + Term
  /\ stage' = [stage EXCEPT ![s] = "over"]
  /\ UNCHANGED terms

Passing == payments \subseteq payments' /\ height' >= height /\ UNCHANGED <<stage, terms>>

AgreementInit == \A s \in Swaps : stage[s] = "none"

AgreementNext ==
  \/ /\ \E s \in Swaps : Opening(s) \/ Taking(s) \/ Settling(s)
     /\ UNCHANGED <<payments, height>>
  \/ Passing

AgreementSpec == AgreementInit /\ [][AgreementNext]_<<stage, terms, payments, height>>
=============================================================================
