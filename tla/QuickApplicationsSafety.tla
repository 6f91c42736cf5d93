----------------------- MODULE QuickApplicationsSafety -----------------------
(***************************************************************************)
(* What QuickApplications is checked for.  Requests that overlap can undo  *)
(* each other's work, since nothing orders them: the properties say that   *)
(* only those do, for which another request held the field in question at  *)
(* the moment it was written, or a request failed that held it.            *)
(***************************************************************************)
EXTENDS QuickApplications

(* Two requests hold the field at the same time. *)
Contended(a, f) ==
  \E q, r \in Requests : q # r /\ Holds(q, a, f) /\ Holds(r, a, f)

(* A single invoice is sent for an application, whoever submits it how     *)
(* often, unless the submission was written while another request held the *)
(* status it was submitted with, or will be.                               *)
OneInvoice ==
  \A a \in Applications :
    invoices[a] > 1 => <<a, "status">> \in exposed \/ Contended(a, "status")

(* An application in review has all the parts of its form. *)
SubmittedIsComplete ==
  \A a \in created :
    IsSubmitted(rows[a]) =>
      Complete(rows[a]) \/ \E p \in PartNames : <<a, p>> \in exposed

(* A part that was filled in stays the one that was filled in; only the    *)
(* collateral may be replaced.                                             *)
PartsStay ==
  [][\A a \in created, p \in PartNames \ {"security"} :
       rows[a][p] # 0 => rows'[a][p] = rows[a][p] \/ <<a, p>> \in exposed']_vars

Updating(a) ==
  \E r \in Requests : requests[r].app = a /\ requests[r].op = "updateSupplier"

(* A supplier that was chosen for an application stays its supplier, other *)
(* applications of the supplier notwithstanding, unless it is updated:     *)
(* updateSupplierInformation saves the application, and then the supplier  *)
(* with the list it loaded before, without the application if it was not   *)
(* in it.                                                                  *)
SupplierStays ==
  [][\A a \in created :
       rows[a].supplier =>
         rows'[a].supplier \/ Updating(a) \/ <<a, "supplier">> \in exposed']_vars

(* What was submitted is not opened again. *)
SubmittedStays ==
  [][\A a \in created :
       IsSubmitted(rows[a]) =>
         IsSubmitted(rows'[a]) \/ <<a, "status">> \in exposed']_vars

(* A company has one active application at a time. *)
OneActive ==
  \A a, b \in ListOf("company") :
    rows[a].status = "ACTIVE" /\ rows[b].status = "ACTIVE" =>
      \/ a = b
      \/ \E x \in {a, b}, f \in {"status", "company"} : <<x, f>> \in exposed

Creating(a) == \E r \in Requests : requests[r].op = "create" /\ requests[r].app = a

(* Every application that was created is listed by its company. *)
CreatedIsListed ==
  \A a \in created :
    rows[a].company \/ Creating(a) \/ <<a, "company">> \in exposed

Submitting(a) ==
  \E r \in Requests :
    /\ requests[r].app = a /\ requests[r].op \in {"submit", "card"}
    /\ At(r, "saveApplication")

(* The answer to a submission is sent before the application is saved: it  *)
(* is in review at some later time, unless something fails.                *)
SubmissionTakesEffect ==
  \A a \in Applications :
    Submitting(a) ~> (IsSubmitted(rows[a]) \/ faults > 0)
=============================================================================
