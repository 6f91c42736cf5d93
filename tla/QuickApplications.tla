-------------------------- MODULE QuickApplications --------------------------
(***************************************************************************)
(* The portal's requests about the applications of a company, as they      *)
(* share the rows of the applications, of the company and of a supplier.   *)
(*                                                                         *)
(* A handler loads entities, does other things and saves the copies it     *)
(* loaded, with what it changed in them.  The repositories are injected by *)
(* entity, so that none of this joins the transaction @Transactional       *)
(* opens: every statement is committed by itself, and any number of        *)
(* requests take their steps in any order.                                 *)
(*                                                                         *)
(* Saving takes two statements: the rows are read, and what differs in the *)
(* copies is written.  A relation that was not loaded is left alone; a     *)
(* column always was.  A company or a supplier that was loaded with the    *)
(* list of its applications is saved with it: an application that is not   *)
(* in the list loses its company or its supplier.                          *)
(*                                                                         *)
(* An operator named X_Op is a faulty variant of Op, kept beside it.       *)
(***************************************************************************)
EXTENDS Naturals, FiniteSets, Sequences

CONSTANTS
  Applications,   \* applications that can be created
  NoApplication,
  Requests,       \* bound: the requests that are served at a time
  Operations,     \* what is asked, see OperationNames
  Fillings,       \* what may be filled in of the first application
  MaxRequests,    \* bound: how many requests are ever made
  MaxFaults       \* bound: how often something fails

PartNames == {"buyerInformation", "paymentTerms", "orderDetails", "security"}

(* The name of a part, or of the supplier's information, stands for the    *)
(* request that creates it.                                                *)
OperationNames ==
  PartNames \cup {"supplierInformation", "updateSupplier", "updateTerms",
                  "transaction", "submit", "card",
                  "create", "company", "supplier"}

(* The requests that are not about an application. *)
CompanyOperations == {"create", "company", "supplier"}

ASSUME ApplicationsAssumption ==
  /\ NoApplication \notin Applications /\ Applications # {}
  /\ Operations \subseteq OperationNames
  /\ Fillings \subseteq SUBSET (PartNames \cup {"supplier"})
  /\ {MaxRequests, MaxFaults} \subseteq Nat

VARIABLES
  created,    \* the applications that have a row
  rows,       \* application -> field -> value
  addressed,  \* the company has information with an address
  lastPart,   \* the last row created for a part
  invoices,   \* application -> how many invoices were sent for it
  requests,   \* the requests served: what is asked, what is left to do, what
              \* is held of the application, the company and the supplier
  received,   \* how many requests were made
  faults,     \* how often something failed
  exposed     \* history: <<a, f>> if field f of application a was written
              \* while another request held a copy of it, or a request
              \* failed that held one

tables == <<created, rows, addressed, lastPart, invoices>>
bounds == <<received, faults>>
vars == <<tables, requests, bounds, exposed>>

-----------------------------------------------------------------------------
(* Rows *)

(* The fields that are the other side of a list of applications.  There is *)
(* one company and one supplier.                                           *)
Lists == {"company", "supplier"}

Columns == {"status", "purchaseOrderId", "company"}
Fields == Columns \cup PartNames \cup {"supplier"}

(* The row of a new application, before the company lists it. *)
NewRow ==
  [f \in Fields |-> CASE f = "status"          -> "ACTIVE"
                      [] f = "purchaseOrderId" -> "none"
                      [] f \in Lists           -> FALSE
                      [] OTHER                 -> 0]

(* checkIfApplicationIsComplete *)
Complete(row) == \A p \in PartNames : row[p] # 0

(* The applications that the company, or the supplier, lists. *)
ListOf(f) == {a \in created : rows[a][f]}

(* The relations a handler loads with the application. *)
Loaded(op) ==
  CASE op \in {"submit", "card", "transaction", "buyerInformation"} -> PartNames
    [] op = "security" -> PartNames \ {"buyerInformation"}
    [] op = "supplierInformation" ->
         (PartNames \ {"buyerInformation"}) \cup {"supplier"}
    [] op = "updateSupplier" -> {"supplier"}
    [] op \in {"paymentTerms", "updateTerms"} -> {"paymentTerms"}
    [] op = "orderDetails" -> {"orderDetails"}

-----------------------------------------------------------------------------
(* Handlers: the statements of each, in order, and what they have in hand. *)

Again(step) == {<<step>>, <<step, step, step>>}

(* updateSupplierEntity: a supplier is saved three times if its taxes of a *)
(* new year come with it, but for the last time if there are employees to  *)
(* count.                                                                  *)
SupplierPrograms ==
  {<<"loadSupplier">> \o saves :
     saves \in Again("saveSupplier") \cup {<<"saveSupplier", "saveSupplier">>}}

(* updateSupplierInformation fails after the application is saved if the   *)
(* company has no relationship yet.  A company is saved three times if its *)
(* taxes of a new year come with it.                                       *)
Programs(op) ==
  CASE op = "create" -> {<<"loadCompany", "check", "insert", "saveCompany">>}
    [] op = "security" -> {<<"createPart", "load", "saveApplication">>}
    [] op \in {"paymentTerms", "orderDetails"} ->
         {<<"load", "createPart", "saveApplication">>}
    [] op = "buyerInformation" ->
         {<<"load", "loadCompany", "createPart", "saveApplication">>}
    [] op = "supplierInformation" ->
         {<<"load", "loadSupplier", "loadCompany", "saveRelationship",
            "saveCompany", "saveSupplier", "saveApplication">>}
    [] op = "updateSupplier" ->
         {<<"load", "loadSupplier", "saveApplication">>,
          <<"load", "loadSupplier", "saveApplication",
            "loadCompany", "saveRelationship">>}
    [] op = "card" -> {<<"load", "invoice", "saveApplication">>}
    [] op = "company" ->
         {<<"loadCompany">> \o saves : saves \in Again("saveCompany")}
    [] op = "supplier" -> SupplierPrograms
    [] OTHER -> {<<"load", "saveApplication">>}

(* A relationship is saved with the company and the supplier it is between. *)
SavedLists(step) ==
  CASE step = "saveCompany"      -> {"company"}
    [] step = "saveSupplier"     -> {"supplier"}
    [] step = "saveRelationship" -> Lists
    [] OTHER                     -> {}

NoRequest ==
  [op |-> "none", app |-> NoApplication,
   rest |-> <<>>,       \* what is left to do
   copy |-> NewRow,     \* the application as it was loaded
   held |-> {},         \* the fields of the copy that were loaded
   part |-> 0,          \* the row it created for a part
   lists |-> {},        \* the lists it loaded
   listed |-> [f \in Lists |-> {}],   \* what they hold
   read |-> FALSE,      \* a save has read the rows
   changes |-> {}]      \* the fields of rows it found to differ

At(r, step) == requests[r].rest # <<>> /\ Head(requests[r].rest) = step
Idle(r) == requests[r].rest = <<>>
Update(r, q) == requests' = [requests EXCEPT ![r] = q]
Finish(r) == Update(r, NoRequest)

(* What is not saved any more is forgotten. *)
Remembered(q) ==
  LET ahead == {q.rest[i] : i \in DOMAIN q.rest}
      lists == q.lists \cap UNION {SavedLists(step) : step \in ahead}
      saved == "saveApplication" \in ahead
  IN [q EXCEPT !.copy = IF saved THEN @ ELSE NewRow,
               !.held = IF saved THEN @ ELSE {},
               !.lists = lists,
               !.listed = [f \in Lists |-> IF f \in lists THEN @[f] ELSE {}]]

Continue(r, q, rest) ==
  IF rest = <<>> THEN Finish(r)
                 ELSE Update(r, Remembered([q EXCEPT !.rest = rest]))

Proceed(r, q) == Continue(r, q, Tail(q.rest))

(* The request holds what it loaded of the field, and may write it. *)
Holds(r, a, f) ==
  \/ requests[r].app = a /\ f \in requests[r].held
  \/ f \in requests[r].lists

(* No property is about the purchase order. *)
HeldBy(R) ==
  {w \in Applications \X (Fields \ {"purchaseOrderId"}) :
     \E r \in R : Holds(r, w[1], w[2])}

-----------------------------------------------------------------------------
(* Which application is created next makes no difference. *)
NextOf(A) == CHOOSE a \in A : TRUE

(* An application in which some parts of the form are filled in. *)
FirstRow(filling) ==
  LET parts == CHOOSE number \in [PartNames -> 1 .. Cardinality(PartNames)] :
                 \A p, q \in PartNames : number[p] = number[q] => p = q
  IN [f \in Fields |-> CASE f = "company"              -> TRUE
                         [] f = "supplier"             -> f \in filling
                         [] f \in PartNames \cap filling -> parts[f]
                         [] OTHER                      -> NewRow[f]]

(* The company has no application yet, or one. *)
Init ==
  /\ \/ created = {} /\ rows = [a \in Applications |-> NewRow]
     \/ \E a \in {NextOf(Applications)}, filling \in Fillings :
          /\ created = {a}
          /\ rows = [b \in Applications |-> IF b = a THEN FirstRow(filling)
                                                     ELSE NewRow]
  /\ addressed = FALSE
  /\ lastPart = Cardinality(PartNames)
  /\ invoices = [a \in Applications |-> 0]
  /\ requests = [r \in Requests |-> NoRequest]
  /\ received = 0
  /\ faults = 0
  /\ exposed = {}

Serve(r, op, a) ==
  /\ Idle(r) /\ received < MaxRequests
  /\ \E program \in Programs(op) :
       Update(r, [NoRequest EXCEPT !.op = op, !.app = a, !.rest = program])
  /\ received' = received + 1
  /\ UNCHANGED <<tables, faults, exposed>>

(* A request about an application. *)
Receive(r) ==
  \E op \in Operations \ CompanyOperations, a \in created : Serve(r, op, a)

(* A request to create one, or about the company or the supplier. *)
ReceiveForCompany(r) ==
  \E op \in Operations \cap CompanyOperations :
    /\ op = "create" => created # Applications
    /\ Serve(r, op, NoApplication)

-----------------------------------------------------------------------------
(* Loading *)

(* What the handlers throw for: a part that is there, and what they read   *)
(* of the application and find missing.                                    *)
Twice_RefusesPart(op, row) ==
  \/ op = "supplierInformation" /\ row.supplier
  \/ op \in {"buyerInformation", "supplierInformation", "updateSupplier"} /\ ~ row.company
  \/ op = "updateTerms" /\ row.paymentTerms = 0

RefusesPart(op, row) ==
  \/ op \in PartNames \ {"security"} /\ row[op] # 0
  \/ op = "supplierInformation" /\ row.supplier
  \/ op \in {"buyerInformation", "supplierInformation", "updateSupplier"} /\ ~ row.company
  \/ op = "updateTerms" /\ row.paymentTerms = 0

IsSubmitted(row) == row.status = "IN_REVIEW"

Again_RefusesSubmission(op, row) ==
  op \in {"submit", "card", "transaction"} /\ ~ Complete(row)

Unchecked_RefusesSubmission(op, row) ==
  op \in {"submit", "card"} /\ IsSubmitted(row)

RefusesSubmission(op, row) ==
  \/ op \in {"submit", "card", "transaction"} /\ ~ Complete(row)
  \/ op \in {"submit", "card"} /\ IsSubmitted(row)

(* What they do with the copy. *)
Reopened_Changed(q, row) ==
  CASE q.op = "submit"       -> [row EXCEPT !.status = "IN_REVIEW"]
    [] q.op = "transaction"  -> [row EXCEPT !.purchaseOrderId = "transaction"]
    [] q.op = "security"     -> [row EXCEPT !.security = q.part]
    [] q.op \in {"supplierInformation", "updateSupplier"} ->
         [row EXCEPT !.supplier = TRUE]
    [] OTHER                 -> [row EXCEPT !.status = "ACTIVE"]

Changed(q, row) ==
  CASE q.op = "submit"       -> [row EXCEPT !.status = "IN_REVIEW"]
    [] q.op = "transaction"  -> [row EXCEPT !.purchaseOrderId = "transaction"]
    [] q.op = "security"     -> [row EXCEPT !.security = q.part]
    [] q.op \in {"supplierInformation", "updateSupplier"} ->
         [row EXCEPT !.supplier = TRUE]
    [] OTHER                 -> row

Load(r) ==
  LET q == requests[r]
      row == rows[q.app]
  IN /\ At(r, "load")
     /\ IF RefusesPart(q.op, row) \/ RefusesSubmission(q.op, row)
          THEN Finish(r)
          ELSE Proceed(r, [q EXCEPT !.copy = Changed(q, row),
                                    !.held = Columns \cup Loaded(q.op)])
     /\ UNCHANGED <<tables, bounds, exposed>>

WithList(q, f) ==
  [q EXCEPT !.lists = @ \cup {f}, !.listed[f] = ListOf(f)]

(* The first information of an application is that of the company too,     *)
(* which is saved with it before and after the application.                *)
LoadCompany(r) ==
  LET q == WithList(requests[r], "company")
  IN /\ At(r, "loadCompany")
     /\ IF q.op = "buyerInformation" /\ ~ addressed
          THEN Continue(r, q, <<"saveCompany", "createPart", "saveApplication",
                                "saveCompany">>)
          ELSE Proceed(r, q)
     /\ UNCHANGED <<tables, bounds, exposed>>

LoadSupplier(r) ==
  /\ At(r, "loadSupplier")
  /\ Proceed(r, WithList(requests[r], "supplier"))
  /\ UNCHANGED <<tables, bounds, exposed>>

Submitted_HasActive == \E a \in ListOf("company") : rows[a].status = "IN_REVIEW"

(* checkActiveApplicationExists *)
HasActive == \E a \in ListOf("company") : rows[a].status = "ACTIVE"

CheckActive(r) ==
  /\ At(r, "check")
  /\ IF HasActive THEN Finish(r) ELSE Proceed(r, requests[r])
  /\ UNCHANGED <<tables, bounds, exposed>>

-----------------------------------------------------------------------------
(* Creating *)

Insert(r) ==
  /\ At(r, "insert")
  /\ created # Applications
  /\ LET a == NextOf(Applications \ created)
     IN created' = created \cup {a} /\ Proceed(r, [requests[r] EXCEPT !.app = a])
  /\ UNCHANGED <<rows, addressed, lastPart, invoices, bounds, exposed>>

Zero_NewPart == lastPart

NewPart == lastPart + 1

(* The row of a collateral is created before the application is loaded. *)
CreatePart(r) ==
  LET q == [requests[r] EXCEPT !.part = NewPart]
  IN /\ At(r, "createPart")
     /\ lastPart' = NewPart
     /\ Proceed(r, IF q.op = "security" THEN q ELSE [q EXCEPT !.copy[q.op] = NewPart])
     /\ UNCHANGED <<created, rows, addressed, invoices, bounds, exposed>>

(* markAsCompleteForCreditCard: Stripe has sent the invoice. *)
SendInvoice(r) ==
  LET q == requests[r]
  IN /\ At(r, "invoice")
     /\ invoices' = [invoices EXCEPT ![q.app] = @ + 1]
     /\ Proceed(r, [q EXCEPT !.copy.purchaseOrderId = "invoice",
                             !.copy.status = "IN_REVIEW"])
     /\ UNCHANGED <<created, rows, addressed, lastPart, bounds, exposed>>

-----------------------------------------------------------------------------
(* Saving *)

Only_WithApplication(listed, a) == {a}

WithApplication(listed, a) == listed \cup {a}

(* What the list is to hold: create adds the application to the company's, *)
(* createSupplierInformation to the supplier's once the relationship is    *)
(* saved.                                                                  *)
ToList(q, f) ==
  IF <<q.op, Head(q.rest)>> \in {<<"create", "saveCompany">>,
                                 <<"supplierInformation", "saveSupplier">>}
    THEN WithApplication(q.listed[f], q.app)
    ELSE q.listed[f]

(* What a field is to hold after the save the request is at. *)
Value(q, a, f) ==
  IF f \in SavedLists(Head(q.rest)) THEN a \in ToList(q, f) ELSE q.copy[f]

Relations_Saved(q) ==
  IF Head(q.rest) = "saveApplication"
    THEN {q.app} \X (q.held \ Columns)
    ELSE created \X SavedLists(Head(q.rest))

(* The fields the save compares. *)
Saved(q) ==
  IF Head(q.rest) = "saveApplication" THEN {q.app} \X q.held
                                      ELSE created \X SavedLists(Head(q.rest))

AtSave(r) == \E step \in {"saveApplication", "saveCompany", "saveSupplier",
                          "saveRelationship"} : At(r, step)

(* The company's first address is a change of its own. *)
SavesAddress(r) == At(r, "saveCompany") /\ requests[r].op = "buyerInformation"

(* Nothing is written if nothing differs. *)
ReadRows(r) ==
  LET q == requests[r]
      changes == {w \in Saved(q) : Value(q, w[1], w[2]) # rows[w[1]][w[2]]}
  IN /\ AtSave(r) /\ ~ q.read
     /\ IF changes = {} /\ (SavesAddress(r) => addressed)
          THEN Proceed(r, q)
          ELSE Update(r, [q EXCEPT !.read = TRUE, !.changes = changes])
     /\ UNCHANGED <<tables, bounds, exposed>>

WriteRows(r) ==
  LET q == requests[r]
  IN /\ AtSave(r) /\ q.read
     /\ rows' = [a \in Applications |-> [f \in Fields |->
                   IF <<a, f>> \in q.changes THEN Value(q, a, f) ELSE rows[a][f]]]
     /\ addressed' = (addressed \/ SavesAddress(r))
     /\ exposed' = exposed \cup (q.changes \cap HeldBy(Requests \ {r}))
     /\ Proceed(r, [q EXCEPT !.read = FALSE, !.changes = {}])
     /\ UNCHANGED <<created, lastPart, invoices, bounds>>

-----------------------------------------------------------------------------
(* What fails *)

(* Stripe refuses the price or the invoice, and nothing is sent. *)
StripeFails(r) ==
  /\ At(r, "invoice")
  /\ Finish(r)
  /\ UNCHANGED <<tables, exposed>>

(* The handlers that wait for the application to be saved. *)
Waits(op) == op \in {"buyerInformation", "supplierInformation", "updateSupplier"}

(* A statement that is waited for fails: what was committed stays. *)
StatementFails(r) ==
  /\ ~ Idle(r) /\ ~ At(r, "invoice")
  /\ At(r, "saveApplication") => Waits(requests[r].op)
  /\ exposed' = exposed \cup HeldBy({r})
  /\ Finish(r)
  /\ UNCHANGED tables

(* The process ends, as it also does when a save nobody waits for fails.   *)
Crash ==
  /\ exposed' = exposed \cup HeldBy(Requests)
  /\ requests' = [r \in Requests |-> NoRequest]
  /\ UNCHANGED tables

Fault ==
  /\ faults < MaxFaults /\ faults' = faults + 1
  /\ Crash \/ \E r \in Requests : StripeFails(r) \/ StatementFails(r)
  /\ UNCHANGED received

-----------------------------------------------------------------------------
Step(r) ==
  \/ Load(r) \/ LoadCompany(r) \/ LoadSupplier(r) \/ CheckActive(r)
  \/ Insert(r) \/ CreatePart(r) \/ SendInvoice(r)
  \/ ReadRows(r) \/ WriteRows(r)

Next ==
  \/ \E r \in Requests : Receive(r) \/ ReceiveForCompany(r) \/ Step(r)
  \/ Fault

Spec == Init /\ [][Next]_vars

(* A statement that was sent is answered, and the handler goes on. *)
FairSpec == Spec /\ \A r \in Requests : WF_vars(Step(r))

-----------------------------------------------------------------------------
IsRow(row) ==
  /\ DOMAIN row = Fields
  /\ row.status \in {"ACTIVE", "IN_REVIEW"}
  /\ row.purchaseOrderId \in {"none", "transaction", "invoice"}
  /\ row.company \in BOOLEAN /\ row.supplier \in BOOLEAN
  /\ \A p \in PartNames : row[p] \in 0 .. lastPart

(* Every row refers to parts that exist, none of which is another          *)
(* application's, and a request is about an application that exists and    *)
(* saves nothing it has not loaded.                                        *)
TypeOK ==
  /\ created \subseteq Applications
  /\ \A a \in Applications : IsRow(rows[a]) /\ (a \notin created => rows[a] = NewRow)
  /\ \A a, b \in created, p, q \in PartNames :
       rows[a][p] = rows[b][q] => rows[a][p] = 0 \/ <<a, p>> = <<b, q>>
  /\ \A r \in Requests :
       LET q == requests[r]
       IN /\ IsRow(q.copy) /\ q.part \in 0 .. lastPart
          /\ q.app \in created \cup {NoApplication}
          /\ \A f \in Lists : q.listed[f] \subseteq created
          /\ q.held # {} => q.held = Columns \cup Loaded(q.op)
          /\ At(r, "saveApplication") =>
               q.held # {} /\ (q.op \in PartNames => q.copy[q.op] # 0)
          /\ AtSave(r) => SavedLists(Head(q.rest)) \subseteq q.lists
          /\ q.changes \subseteq created \X Fields
  /\ received \in 0 .. MaxRequests /\ faults \in 0 .. MaxFaults
  /\ exposed \subseteq Applications \X Fields
=============================================================================
