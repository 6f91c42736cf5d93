------------------------ MODULE QuickApplicationsProofs ------------------------
(***************************************************************************)
(* What holds of the requests about applications for any number of         *)
(* applications, requests and failures.                                    *)
(*                                                                         *)
(* A request is at some statement of its handler's program, and what it    *)
(* has in hand follows from what it has left to do (TypedOK).  On that     *)
(* rests what it holds: a field of a copy or of a list is as it is in the  *)
(* table, but for what the handler changed in it, unless the field is      *)
(* exposed (FreshOK).  So a save changes nothing but what its handler is   *)
(* to change, and each of the properties follows from that.                *)
(***************************************************************************)
EXTENDS QuickApplicationsSafety, TLAPS, FiniteSetTheorems, SequenceTheorems

Steps == {"load", "loadCompany", "loadSupplier", "check", "insert", "createPart",
          "invoice", "saveApplication", "saveCompany", "saveSupplier",
          "saveRelationship"}

Saves == {"saveApplication", "saveCompany", "saveSupplier", "saveRelationship"}

(* What a handler may go through: its programs, and the one of the first   *)
(* information of an application if the company has no address yet.        *)
WithAddress == <<"load", "loadCompany", "saveCompany", "createPart",
                 "saveApplication", "saveCompany">>

Plans(op) == Programs(op) \cup IF op = "buyerInformation" THEN {WithAddress} ELSE {}

(* What is left of a program from its k-th statement on. *)
From(p, k) == SubSeq(p, k, Len(p))

StepsOf(rest) == {rest[i] : i \in DOMAIN rest}

ListsOf(rest) == UNION {SavedLists(step) : step \in StepsOf(rest)}

LoadOf(f) == IF f = "company" THEN "loadCompany" ELSE "loadSupplier"

Values == {"ACTIVE", "IN_REVIEW", "none", "transaction", "invoice"} \cup BOOLEAN \cup Nat

Rows == {row \in [Fields -> Values] :
           /\ row["status"] \in {"ACTIVE", "IN_REVIEW"}
           /\ row["purchaseOrderId"] \in {"none", "transaction", "invoice"}
           /\ row["company"] \in BOOLEAN /\ row["supplier"] \in BOOLEAN
           /\ \A p \in PartNames : row[p] \in Nat}

RequestType ==
  [op : OperationNames \cup {"none"}, app : Applications \cup {NoApplication},
   rest : Seq(Steps), copy : Rows, held : SUBSET Fields, part : Nat,
   lists : SUBSET Lists, listed : [Lists -> SUBSET Applications],
   read : BOOLEAN, changes : SUBSET (Applications \X Fields)]

TablesOK ==
  /\ created \subseteq Applications
  /\ rows \in [Applications -> Rows]
  /\ \A a \in Applications \ created : rows[a] = NewRow
  /\ addressed \in BOOLEAN
  /\ lastPart \in Nat
  /\ invoices \in [Applications -> Nat]
  /\ requests \in [Requests -> RequestType]
  /\ received \in 0 .. MaxRequests /\ faults \in 0 .. MaxFaults
  /\ exposed \subseteq Applications \X Fields

Planned(q) ==
  \/ q = NoRequest
  \/ /\ q.op \in OperationNames
     /\ \E p \in Plans(q.op) : \E k \in 1 .. Len(p) : q.rest = From(p, k)

(* What a request has in hand follows from what it has left to do. *)
HasLoaded(op, rest) == "load" \notin StepsOf(rest) /\ "saveApplication" \in StepsOf(rest)

InHand(q) ==
  /\ q.held = IF HasLoaded(q.op, q.rest) THEN Columns \cup Loaded(q.op) ELSE {}
  /\ q.lists = {f \in ListsOf(q.rest) : LoadOf(f) \notin StepsOf(q.rest)}
  /\ q.part # 0 <=> q.op \in PartNames /\ "createPart" \notin StepsOf(q.rest)
  /\ q.op \in PartNames /\ HasLoaded(q.op, q.rest) /\ "createPart" \notin StepsOf(q.rest) => q.copy[q.op] = q.part
  /\ q.op = "submit" /\ HasLoaded(q.op, q.rest) => q.copy["status"] = "IN_REVIEW"
  /\ q.op = "card" /\ HasLoaded(q.op, q.rest) /\ "invoice" \notin StepsOf(q.rest) => q.copy["status"] = "IN_REVIEW"
  /\ "supplier" \in q.held => q.copy["supplier"]
  /\ q.read => Head(q.rest) \in Saves
  /\ ~ q.read => q.changes = {}

IsAbout(q, C) ==
  /\ q.app \in C \cup {NoApplication}
  /\ q.op \in OperationNames \ CompanyOperations => q.app \in C
  /\ q.op = "create" /\ "insert" \notin StepsOf(q.rest) => q.app \in C
  /\ \A f \in Lists : q.listed[f] \subseteq C

(* What is compared with the rows, and what is to be in them. *)
Compared(q, C) ==
  IF Head(q.rest) = "saveApplication" THEN {q.app} \X q.held
                                      ELSE C \X SavedLists(Head(q.rest))

Known(q, C, R, E) ==
  q.read =>
    /\ q.changes \subseteq Compared(q, C)
    /\ \A w \in Compared(q, C) \ (q.changes \cup E) :
         w[2] # "purchaseOrderId" => Value(q, w[1], w[2]) = R[w[1]][w[2]]

CopyFresh(q, R, E) ==
  \A f \in q.held \ {"purchaseOrderId"} :
    <<q.app, f>> \notin E =>
      IF f = "status" /\ q.op \in {"submit", "card"} THEN R[q.app]["status"] = "ACTIVE"
      ELSE IF f = q.op THEN f # "security" => R[q.app][f] = 0
      ELSE f # "supplier" => q.copy[f] = R[q.app][f]

ListFresh(q, R, E) ==
  \A f \in q.lists, a \in Applications :
    <<a, f>> \notin E /\ ~ (f = "supplier" /\ q.op = "updateSupplier" /\ a = q.app) =>
      (a \in q.listed[f] <=> R[a][f] = TRUE)

Fresh(q, C, R, E) == Known(q, C, R, E) /\ CopyFresh(q, R, E) /\ ListFresh(q, R, E)

FreshOK == \A r \in Requests : Fresh(requests[r], created, rows, exposed)

(* To whom the rows of parts belong. *)
Belong(row, a, owner) == \A p \in PartNames : row[p] # 0 => row[p] \in DOMAIN owner /\ owner[row[p]] = <<a, p>>

(* What a request holds of its parts, if it has loaded them.                *)
Mine(q, owner) ==
  /\ q.held = {} => q.copy = NewRow
  /\ Belong(q.copy, q.app, owner)
  /\ q.part # 0 => q.part \in DOMAIN owner /\ owner[q.part] = <<q.app, q.op>>

Owned(owner) ==
  /\ \A a \in Applications : Belong(rows[a], a, owner)
  /\ \A r \in Requests : Mine(requests[r], owner)

PartsOwned == \E owner \in [1 .. lastPart -> Applications \X PartNames] : Owned(owner)

(* A new application is created only while no other is active.             *)
CreateOK(q, R, E) ==
  q.op = "create" =>
    /\ "insert" \in StepsOf(q.rest) => q.app = NoApplication
    /\ "check" \notin StepsOf(q.rest) =>
         \A a \in Applications :
           R[a]["company"] = TRUE /\ R[a]["status"] = "ACTIVE" /\ a # q.app =>
             \E f \in {"status", "company"} : <<a, f>> \in E

CreateAlone == \A r \in Requests : CreateOK(requests[r], rows, exposed)

Apart ==
  \A a, b \in Applications :
    /\ rows[a]["company"] = TRUE /\ rows[a]["status"] = "ACTIVE"
    /\ rows[b]["company"] = TRUE /\ rows[b]["status"] = "ACTIVE"
    => a = b \/ \E x \in {a, b}, f \in {"status", "company"} : <<x, f>> \in exposed

Listing ==
  \A a \in created :
    rows[a]["company"] = TRUE \/ Creating(a) \/ <<a, "company">> \in exposed

-----------------------------------------------------------------------------
(* The programs of the handlers *)

Comes(p, s, t) == \A j, k \in 1 .. Len(p) : p[j] = s /\ p[k] = t => j < k

Once(p, s) == \A j, k \in 1 .. Len(p) : p[j] = s /\ p[k] = s => j = k

(* The order in which a program goes through its statements. *)
Orderly(op, p) ==
  /\ p \in Seq(Steps) /\ p # <<>>
  /\ \A s \in Steps \ {"saveCompany", "saveSupplier"} : Once(p, s)
  /\ op = "create" => Once(p, "saveCompany")
  /\ op = "supplierInformation" => Once(p, "saveSupplier")
  /\ Comes(p, "load", "invoice") /\ Comes(p, "load", "saveApplication")
  /\ Comes(p, "createPart", "saveApplication") /\ Comes(p, "invoice", "saveApplication")
  /\ IF op = "security" THEN Comes(p, "createPart", "load") ELSE Comes(p, "load", "createPart")
  /\ \A s \in {"saveCompany", "saveRelationship", "check", "insert"} :
       Comes(p, "loadCompany", s)
  /\ \A s \in {"saveSupplier", "saveRelationship"} : Comes(p, "loadSupplier", s)
  /\ Comes(p, "check", "insert") /\ Comes(p, "insert", "saveCompany")
  /\ Comes(p, "saveRelationship", "saveSupplier")
  /\ op = "supplierInformation" =>
       \A s \in {"saveSupplier", "saveRelationship"} : Comes(p, s, "saveApplication")

Occurs(p, s) == \E j \in 1 .. Len(p) : p[j] = s

(* The statements it consists of. *)
Composed(op, p) ==
  /\ Occurs(p, "load") <=> op \notin CompanyOperations
  /\ Occurs(p, "saveApplication") <=> op \notin CompanyOperations
  /\ Occurs(p, "createPart") <=> op \in PartNames
  /\ Occurs(p, "invoice") <=> op = "card"
  /\ op = "card" => \A j \in 1 .. Len(p) : p[j] \in {"load", "invoice", "saveApplication"}
  /\ Occurs(p, "check") <=> op = "create"
  /\ Occurs(p, "insert") <=> op = "create"
  /\ Occurs(p, "saveCompany") \/ Occurs(p, "saveRelationship") => Occurs(p, "loadCompany")
  /\ Occurs(p, "saveSupplier") \/ Occurs(p, "saveRelationship") => Occurs(p, "loadSupplier")
  /\ op = "create" => p[Len(p)] = "saveCompany" /\ ~ Occurs(p, "saveRelationship")

ThenOnly(p, s) == \A i \in 2 .. Len(p) : p[i] = s

(* A list is loaded, and saved a number of times.                          *)
LEMMA LoadThenSaves ==
  ASSUME NEW x \in Steps, NEW y \in Steps,
         NEW saves \in Again(y) \cup {<<y, y>>}, NEW p, p = <<x>> \o saves
  PROVE     /\ p \in Seq(Steps) /\ p[1] = x /\ Len(p) > 1
            /\ ThenOnly(p, y)
<1>0. saves \in {<<y>>, <<y, y>>, <<y, y, y>>}
  BY DEF Again
<1>1. <<x>> \in Seq(Steps) /\ saves \in Seq(Steps) /\ Len(<<x>>) = 1
  BY <1>0
<1>2. /\ p \in Seq(Steps) /\ Len(p) = 1 + Len(saves)
      /\ \A i \in 1 .. 1 + Len(saves) : p[i] = IF i <= 1 THEN <<x>>[i] ELSE saves[i - 1]
  BY <1>1, ConcatProperties
<1>3. Len(saves) \in Nat /\ Len(saves) > 0 /\ \A i \in 1 .. Len(saves) : saves[i] = y
  <2>1. CASE saves = <<y>>
    BY <2>1
  <2>2. CASE saves = <<y, y>>
    BY <2>2
  <2>3. CASE saves = <<y, y, y>>
    BY <2>3
  <2>4. QED  BY <1>0, <2>1, <2>2, <2>3
<1>4. p[1] = x /\ Len(p) > 1
  BY <1>2, <1>3
<1>5. ASSUME NEW i \in 2 .. Len(p) PROVE p[i] = y
  BY <1>2, <1>3
<1>6. QED  BY <1>2, <1>4, <1>5 DEF ThenOnly

(* Every program goes through its statements in that order. *)
LEMMA PlansAreOrderly ==
  ASSUME NEW op \in OperationNames, NEW p \in Plans(op)
  PROVE  Orderly(op, p) /\ Composed(op, p)
<1>0. /\ "loadCompany" \in Steps /\ "loadSupplier" \in Steps
      /\ "saveCompany" \in Steps /\ "saveSupplier" \in Steps
  BY DEF Steps
<1> USE DEF Orderly, Composed, Comes, Once, Occurs, PartNames, CompanyOperations
<1>1. CASE op = "create"
  <2>1. p = <<"loadCompany", "check", "insert", "saveCompany">>
    BY <1>1, Zenon DEF Plans, Programs
  <2>2. QED  BY <1>1, <2>1 DEF Steps
<1>2. CASE op = "security"
  <2>1. p = <<"createPart", "load", "saveApplication">>
    BY <1>2, Zenon DEF Plans, Programs
  <2>2. QED  BY <1>2, <2>1 DEF Steps
<1>3. CASE op \in {"paymentTerms", "orderDetails"}
  <2>1. p = <<"load", "createPart", "saveApplication">>
    BY <1>3, Zenon DEF Plans, Programs
  <2>2. QED  BY <1>3, <2>1 DEF Steps
<1>4. CASE op = "buyerInformation"
  <2>1. p \in {<<"load", "loadCompany", "createPart", "saveApplication">>, WithAddress}
    BY <1>4, Zenon DEF Plans, Programs
  <2>2. CASE p = <<"load", "loadCompany", "createPart", "saveApplication">>
    BY <1>4, <2>2 DEF Steps
  <2>3. CASE p = WithAddress
    BY <1>4, <2>3 DEF WithAddress, Steps
  <2>4. QED  BY <2>1, <2>2, <2>3
<1>5. CASE op = "supplierInformation"
  <2>1. p = <<"load", "loadSupplier", "loadCompany", "saveRelationship",
              "saveCompany", "saveSupplier", "saveApplication">>
    BY <1>5, Zenon DEF Plans, Programs
  <2>2. QED  BY <1>5, <2>1 DEF Steps
<1>6. CASE op = "updateSupplier"
  <2>1. p \in {<<"load", "loadSupplier", "saveApplication">>,
               <<"load", "loadSupplier", "saveApplication",
                 "loadCompany", "saveRelationship">>}
    BY <1>6, Zenon DEF Plans, Programs
  <2>2. CASE p = <<"load", "loadSupplier", "saveApplication">>
    BY <1>6, <2>2 DEF Steps
  <2>3. CASE p = <<"load", "loadSupplier", "saveApplication",
                   "loadCompany", "saveRelationship">>
    BY <1>6, <2>3 DEF Steps
  <2>4. QED  BY <2>1, <2>2, <2>3
<1>7. CASE op = "card"
  <2>1. p = <<"load", "invoice", "saveApplication">>
    BY <1>7, Zenon DEF Plans, Programs
  <2>2. QED  BY <1>7, <2>1 DEF Steps
<1>8. CASE op = "company"
  <2>1. p \in {<<"loadCompany">> \o saves : saves \in Again("saveCompany")}
    BY <1>8, Zenon DEF Plans, Programs
  <2>2. PICK saves \in Again("saveCompany") : p = <<"loadCompany">> \o saves
    BY <2>1
  <2>3. p \in Seq(Steps) /\ p[1] = "loadCompany" /\ Len(p) > 1 /\ ThenOnly(p, "saveCompany")
    BY <1>0, <2>2, LoadThenSaves
  <2>4. Len(p) \in Nat /\ \A i \in 1 .. Len(p) : i = 1 \/ i \in 2 .. Len(p)
    BY <2>3
  <2>5. Orderly(op, p)
    <3>1. \A j \in 1 .. Len(p) :
            p[j] = IF j = 1 THEN "loadCompany" ELSE "saveCompany"
      BY <2>3, <2>4 DEF ThenOnly
    <3>2. \A s \in Steps \ {"saveCompany", "saveSupplier"} : Once(p, s)
      BY <3>1
    <3>3. \A j, k \in 1 .. Len(p) : p[j] = "loadCompany" /\ p[k] = "saveCompany" => j < k
      BY <2>4, <3>1
    <3>4. QED  BY <1>8, <2>3, <3>1, <3>2, <3>3
  <2>6. QED  BY <1>8, <2>3, <2>4, <2>5 DEF ThenOnly
<1>9. CASE op = "supplier"
  <2>1. p \in {<<"loadSupplier">> \o saves :
                 saves \in Again("saveSupplier") \cup {<<"saveSupplier", "saveSupplier">>}}
    BY <1>9, Zenon DEF Plans, Programs, SupplierPrograms
  <2>2. PICK saves \in Again("saveSupplier") \cup {<<"saveSupplier", "saveSupplier">>} :
          p = <<"loadSupplier">> \o saves
    BY <2>1
  <2>3. p \in Seq(Steps) /\ p[1] = "loadSupplier" /\ Len(p) > 1 /\ ThenOnly(p, "saveSupplier")
    BY <1>0, <2>2, LoadThenSaves
  <2>4. Len(p) \in Nat /\ \A i \in 1 .. Len(p) : i = 1 \/ i \in 2 .. Len(p)
    BY <2>3
  <2>5. Orderly(op, p)
    BY <1>9, <2>3, <2>4 DEF Steps, ThenOnly
  <2>6. QED  BY <1>9, <2>3, <2>4, <2>5 DEF ThenOnly
<1>10. CASE op \in {"submit", "transaction", "updateTerms"}
  <2>1. p = <<"load", "saveApplication">>
    BY <1>10, Zenon DEF Plans, Programs
  <2>2. QED  BY <1>10, <2>1 DEF Steps
<1>11. QED
  BY <1>1, <1>2, <1>3, <1>4, <1>5, <1>6, <1>7, <1>8, <1>9, <1>10 DEF OperationNames

(* What is left of a program from its k-th statement on.                   *)
LEMMA FromIs ==
  ASSUME NEW p \in Seq(Steps), NEW k \in 1 .. Len(p)
  PROVE  /\ From(p, k) \in Seq(Steps) /\ Len(From(p, k)) = Len(p) - k + 1
         /\ \A i \in 1 .. Len(p) - k + 1 : From(p, k)[i] = p[k + i - 1]
  BY DEF From

(* Where a request is in its program.                                      *)
LEMMA TakesOneStep ==
  ASSUME NEW op \in OperationNames, NEW p \in Plans(op), NEW k \in 1 .. Len(p),
         NEW rest, rest = From(p, k)
  PROVE  /\ rest \in Seq(Steps) /\ rest # <<>>
         /\ Head(rest) = p[k] /\ Tail(rest) = From(p, k + 1)
         /\ StepsOf(rest) = {p[j] : j \in k .. Len(p)}
         /\ StepsOf(Tail(rest)) = {p[j] : j \in k + 1 .. Len(p)}
         /\ k = Len(p) => Tail(rest) = <<>>
<1>1. p \in Seq(Steps)
  BY PlansAreOrderly DEF Orderly
<1>2. Len(p) \in Nat /\ k \in Nat /\ k >= 1 /\ k <= Len(p)
  BY <1>1
<1>3. /\ rest \in Seq(Steps) /\ Len(rest) = Len(p) - k + 1
      /\ \A i \in 1 .. Len(rest) : rest[i] = p[k + i - 1]
  BY <1>1, <1>2 DEF From
<1>4. rest # <<>> /\ Head(rest) = p[k]
  BY <1>2, <1>3
<1>5. /\ Tail(rest) \in Seq(Steps) /\ Len(Tail(rest)) = Len(p) - k
      /\ \A i \in 1 .. Len(Tail(rest)) : Tail(rest)[i] = p[k + i]
  BY <1>2, <1>3, <1>4
<1>6. Tail(rest) = From(p, k + 1)
  <2>1. /\ From(p, k + 1) \in Seq(Steps) /\ Len(From(p, k + 1)) = Len(p) - k
        /\ \A i \in 1 .. Len(p) - k : From(p, k + 1)[i] = p[k + i]
    BY <1>1, <1>2 DEF From
  <2>2. \A i \in 1 .. Len(Tail(rest)) : Tail(rest)[i] = From(p, k + 1)[i]
    BY <1>5, <2>1
  <2>3. QED  BY <1>5, <2>1, <2>2, SeqEqual
<1>7. StepsOf(rest) = {p[j] : j \in k .. Len(p)}
  <2>1. DOMAIN rest = 1 .. Len(rest)
    BY <1>3
  <2>2. ASSUME NEW i \in DOMAIN rest PROVE \E j \in k .. Len(p) : rest[i] = p[j]
    <3>1. k + i - 1 \in k .. Len(p) /\ rest[i] = p[k + i - 1]
      BY <1>2, <1>3, <2>1
    <3>2. QED  BY <3>1
  <2>3. ASSUME NEW j \in k .. Len(p) PROVE \E i \in DOMAIN rest : rest[i] = p[j]
    <3>1. j - k + 1 \in DOMAIN rest /\ k + (j - k + 1) - 1 = j
      BY <1>2, <1>3, <2>1
    <3>2. rest[j - k + 1] = p[j]
      BY <1>3, <2>1, <3>1
    <3>3. QED  BY <3>1, <3>2
  <2>4. StepsOf(rest) \subseteq {p[j] : j \in k .. Len(p)}
    BY <2>2 DEF StepsOf
  <2>5. {p[j] : j \in k .. Len(p)} \subseteq StepsOf(rest)
    BY <2>3 DEF StepsOf
  <2>6. QED  BY <2>4, <2>5
<1>8. StepsOf(Tail(rest)) = {p[j] : j \in k + 1 .. Len(p)}
  <2> DEFINE t == Tail(rest)
  <2>1. DOMAIN t = 1 .. Len(t)
    BY <1>5
  <2>2. ASSUME NEW i \in DOMAIN t PROVE \E j \in k + 1 .. Len(p) : t[i] = p[j]
    <3>1. k + i \in k + 1 .. Len(p) /\ t[i] = p[k + i]
      BY <1>2, <1>5, <2>1
    <3>2. QED  BY <3>1
  <2>3. ASSUME NEW j \in k + 1 .. Len(p) PROVE \E i \in DOMAIN t : t[i] = p[j]
    <3>1. j - k \in DOMAIN t /\ k + (j - k) = j
      BY <1>2, <1>5, <2>1
    <3>2. t[j - k] = p[j]
      BY <1>5, <2>1, <3>1
    <3>3. QED  BY <3>1, <3>2
  <2>4. StepsOf(t) \subseteq {p[j] : j \in k + 1 .. Len(p)}
    BY <2>2 DEF StepsOf
  <2>5. {p[j] : j \in k + 1 .. Len(p)} \subseteq StepsOf(t)
    BY <2>3 DEF StepsOf
  <2>6. QED  BY <2>4, <2>5
<1>9. QED
  BY <1>2, <1>3, <1>4, <1>5, <1>6, <1>7, <1>8

(* What the order of a program says of what is left of it.                 *)
LEMMA Relations ==
  ASSUME NEW p \in Seq(Steps), NEW k \in 1 .. Len(p), NEW s
  PROVE  /\ Comes(p, s, p[k]) => s \notin {p[j] : j \in k .. Len(p)}
         /\ Once(p, p[k]) => p[k] \notin {p[j] : j \in k + 1 .. Len(p)}
         /\ Occurs(p, s) /\ Comes(p, p[k], s) => s \in {p[j] : j \in k + 1 .. Len(p)}
         /\ s \in {p[j] : j \in k .. Len(p)} => Occurs(p, s)
<1>1. Len(p) \in Nat /\ k \in Nat /\ k >= 1 /\ k <= Len(p)
  OBVIOUS
<1>2. \A j \in k .. Len(p) : j \in 1 .. Len(p) /\ ~ (j < k)
  BY <1>1
<1>3. \A j \in k + 1 .. Len(p) : j \in 1 .. Len(p) /\ j # k
  BY <1>1
<1>4. \A j \in 1 .. Len(p) : k < j => j \in k + 1 .. Len(p)
  BY <1>1
<1>5. QED  BY <1>1, <1>2, <1>3, <1>4 DEF Comes, Once, Occurs

(* What the statement a request is at says of those before and after it.   *)
Situation(op, step, left, after) ==
  /\ left = {step} \cup after /\ left \subseteq Steps
  /\ step \notin {"saveCompany", "saveSupplier"} => step \notin after
  /\ step = "load" =>
       /\ op \notin CompanyOperations /\ "saveApplication" \in after
       /\ op \in PartNames => ("createPart" \in after <=> op # "security")
       /\ op = "card" => "invoice" \in after
  /\ step = "createPart" =>
       /\ op \in PartNames /\ "saveApplication" \in after
       /\ "load" \in after <=> op = "security"
  /\ step = "invoice" => op = "card" /\ "load" \notin after /\ "saveApplication" \in after
  /\ op = "card" => left \subseteq {"load", "invoice", "saveApplication"}
  /\ step = "saveApplication" =>
       /\ op \notin CompanyOperations /\ {"load", "createPart", "invoice"} \cap left = {}
       /\ op = "supplierInformation" => {"saveSupplier", "saveRelationship"} \cap left = {}
  /\ step \in {"saveCompany", "saveRelationship"} => "loadCompany" \notin left
  /\ step \in {"saveSupplier", "saveRelationship"} => "loadSupplier" \notin left
  /\ step = "check" => op = "create" /\ {"loadCompany"} \cap left = {} /\ "insert" \in after
  /\ step = "insert" => op = "create" /\ {"loadCompany", "check"} \cap left = {}
  /\ op = "create" => "saveCompany" \in left /\ "saveRelationship" \notin left
  /\ op = "create" /\ step = "saveCompany" => after = {} /\ "check" \notin left
  /\ op = "supplierInformation" /\ step = "saveSupplier" =>
       {"saveSupplier", "saveRelationship"} \cap after = {}

(* What is left of a program when it is at a statement, and after it.      *)
LEMMA SituationHolds ==
  ASSUME NEW op \in OperationNames, NEW p \in Plans(op), NEW k \in 1 .. Len(p)
  PROVE  Situation(op, p[k], {p[j] : j \in k .. Len(p)}, {p[j] : j \in k + 1 .. Len(p)})
<1> DEFINE left == {p[j] : j \in k .. Len(p)}
           after == {p[j] : j \in k + 1 .. Len(p)}
           step == p[k]
<1>1. Orderly(op, p) /\ Composed(op, p) /\ p \in Seq(Steps)
  BY PlansAreOrderly DEF Orderly
<1>2. Len(p) \in Nat /\ k \in Nat /\ k >= 1 /\ k <= Len(p)
  BY <1>1
<1>3. left = {step} \cup after /\ left \subseteq Steps
  <2>1. \A j \in k .. Len(p) : p[j] \in Steps /\ (j = k \/ j \in k + 1 .. Len(p))
    BY <1>1, <1>2
  <2>2. k \in k .. Len(p) /\ \A j \in k + 1 .. Len(p) : j \in k .. Len(p)
    BY <1>2
  <2>3. QED  BY <2>1, <2>2
<1>4. /\ \A s : Comes(p, s, step) => s \notin left
      /\ Once(p, step) => step \notin after
      /\ \A s : Occurs(p, s) /\ Comes(p, step, s) => s \in after
      /\ \A s : s \in left => Occurs(p, s)
      /\ step \in left
  BY <1>1, <1>3, Relations
<1>5. ASSUME op = "create", step = "saveCompany" PROVE after = {}
  <2>1. Len(p) \in 1 .. Len(p) /\ p[Len(p)] = "saveCompany" /\ Once(p, "saveCompany")
    BY <1>1, <1>2, <1>5 DEF Orderly, Composed
  <2>2. k = Len(p)
    BY <1>5, <2>1 DEF Once
  <2>3. QED  BY <1>2, <2>2
<1>6. op = "create" => "saveCompany" \in left
  <2>1. Len(p) \in k .. Len(p)
    BY <1>2
  <2>2. QED  BY <1>1, <2>1 DEF Composed
<1>19. op = "card" => left \subseteq {"load", "invoice", "saveApplication"}
  <2>1. \A j \in k .. Len(p) : j \in 1 .. Len(p)
    BY <1>2
  <2>2. QED  BY <1>1, <2>1 DEF Composed
<1> HIDE DEF left, after, step
<1>7. step \notin {"saveCompany", "saveSupplier"} => step \notin after
  BY <1>1, <1>3, <1>4 DEF Orderly
<1>8. ASSUME step = "load"
      PROVE  /\ op \notin CompanyOperations /\ "saveApplication" \in after
             /\ op \in PartNames => ("createPart" \in after <=> op # "security")
             /\ op = "card" => "invoice" \in after
  <2>1. op \notin CompanyOperations
    BY <1>1, <1>4, <1>8 DEF Composed
  <2>2. "saveApplication" \in after
    BY <1>1, <1>4, <1>8, <2>1 DEF Orderly, Composed
  <2>3. op = "card" => "invoice" \in after
    BY <1>1, <1>4, <1>8 DEF Orderly, Composed
  <2>4. op \in PartNames /\ op # "security" => "createPart" \in after
    BY <1>1, <1>4, <1>8 DEF Orderly, Composed
  <2>5. op = "security" => "createPart" \notin after
    BY <1>1, <1>3, <1>4, <1>8 DEF Orderly
  <2>6. QED  BY <2>1, <2>2, <2>3, <2>4, <2>5
<1>9. ASSUME step = "createPart"
      PROVE  /\ op \in PartNames /\ "saveApplication" \in after
             /\ "load" \in after <=> op = "security"
  <2>1. op \in PartNames
    BY <1>1, <1>4, <1>9 DEF Composed
  <2>2. op \notin CompanyOperations
    BY <2>1 DEF PartNames, CompanyOperations
  <2>3. "saveApplication" \in after
    BY <1>1, <1>4, <1>9, <2>2 DEF Orderly, Composed
  <2>4. op = "security" => "load" \in after
    BY <1>1, <1>4, <1>9, <2>2 DEF Orderly, Composed
  <2>5. op # "security" => "load" \notin after
    BY <1>1, <1>3, <1>4, <1>9 DEF Orderly
  <2>6. QED  BY <2>1, <2>3, <2>4, <2>5
<1>10. ASSUME step = "invoice"
       PROVE  op = "card" /\ "load" \notin after /\ "saveApplication" \in after
  <2>1. op = "card" /\ op \notin CompanyOperations
    BY <1>1, <1>4, <1>10 DEF Composed, CompanyOperations
  <2>2. QED  BY <1>1, <1>3, <1>4, <1>10, <2>1 DEF Orderly, Composed
<1>11. ASSUME step = "saveApplication"
       PROVE  /\ op \notin CompanyOperations /\ {"load", "createPart", "invoice"} \cap left = {}
              /\ op = "supplierInformation" => {"saveSupplier", "saveRelationship"} \cap left = {}
  <2>1. op \notin CompanyOperations
    BY <1>1, <1>4, <1>11 DEF Composed
  <2>2. "load" \notin left /\ "createPart" \notin left /\ "invoice" \notin left
    BY <1>1, <1>4, <1>11 DEF Orderly
  <2>3. op = "supplierInformation" => "saveSupplier" \notin left /\ "saveRelationship" \notin left
    BY <1>1, <1>4, <1>11 DEF Orderly
  <2>4. QED  BY <2>1, <2>2, <2>3
<1>12. /\ step \in {"saveCompany", "saveRelationship"} => "loadCompany" \notin left
       /\ step \in {"saveSupplier", "saveRelationship"} => "loadSupplier" \notin left
  BY <1>1, <1>4 DEF Orderly
<1>13. step = "check" => op = "create" /\ {"loadCompany"} \cap left = {} /\ "insert" \in after
  BY <1>1, <1>4 DEF Orderly, Composed
<1>14. step = "insert" => op = "create" /\ {"loadCompany", "check"} \cap left = {}
  BY <1>1, <1>4 DEF Orderly, Composed
<1>15. op = "create" => "saveRelationship" \notin left
  BY <1>1, <1>4 DEF Composed
<1>16. op = "create" /\ step = "saveCompany" => "check" \notin left
  BY <1>3, <1>5
<1>17. op = "supplierInformation" /\ step = "saveSupplier" =>
         {"saveSupplier", "saveRelationship"} \cap after = {}
  BY <1>1, <1>3, <1>4 DEF Orderly
<1>18. QED
  BY <1>3, <1>5, <1>6, <1>7, <1>8, <1>9, <1>10, <1>11, <1>12, <1>13, <1>14, <1>15,
     <1>16, <1>17, <1>19 DEF Situation, left, after, step

-----------------------------------------------------------------------------
(* Rows and requests *)

(* What the operators of the handlers return. *)

(* The fields by name.                                                     *)
LEMMA FieldNames ==
  Fields = {"status", "purchaseOrderId", "company", "supplier",
            "buyerInformation", "paymentTerms", "orderDetails", "security"}
  BY DEF Fields, Columns, PartNames

(* The row of a new application.                                           *)
LEMMA NewRowIs ==
  /\ NewRow \in Rows
  /\ NewRow["status"] = "ACTIVE" /\ NewRow["company"] = FALSE /\ NewRow["supplier"] = FALSE
  /\ \A p \in PartNames : NewRow[p] = 0
<1> DEFINE value(f) == CASE f = "status"          -> "ACTIVE"
                         [] f = "purchaseOrderId" -> "none"
                         [] f \in Lists           -> FALSE
                         [] OTHER                 -> 0
<1>1. /\ value("status") = "ACTIVE" /\ value("purchaseOrderId") = "none"
      /\ value("company") = FALSE /\ value("supplier") = FALSE
  BY Zenon DEF Lists
<1>2. /\ value("buyerInformation") = 0 /\ value("paymentTerms") = 0
      /\ value("orderDetails") = 0 /\ value("security") = 0
  BY Zenon DEF Lists
<1>3. NewRow = [f \in Fields |-> value(f)]
  BY Zenon DEF NewRow
<1> HIDE DEF value
<1>4. \A f \in Fields : value(f) \in Values
  <2>1. "ACTIVE" \in Values /\ "none" \in Values /\ FALSE \in Values /\ 0 \in Values
    BY DEF Values
  <2>2. ASSUME NEW f \in Fields PROVE value(f) \in Values
    BY <1>1, <1>2, <2>1, FieldNames, Zenon
  <2>3. QED  BY <2>2
<1>5. NewRow \in [Fields -> Values] /\ \A f \in Fields : NewRow[f] = value(f)
  BY <1>3, <1>4
<1>6. QED
  <2>1. /\ NewRow["status"] = "ACTIVE" /\ NewRow["purchaseOrderId"] = "none"
        /\ NewRow["company"] = FALSE /\ NewRow["supplier"] = FALSE
    BY <1>1, <1>5, FieldNames, Zenon
  <2>2. \A p \in PartNames : NewRow[p] = 0
    BY <1>2, <1>5, FieldNames DEF PartNames
  <2>3. NewRow["company"] \in BOOLEAN /\ NewRow["supplier"] \in BOOLEAN
    BY <2>1, Zenon
  <2>4. /\ NewRow["status"] \in {"ACTIVE", "IN_REVIEW"}
        /\ NewRow["purchaseOrderId"] \in {"none", "transaction", "invoice"}
        /\ \A p \in PartNames : NewRow[p] \in Nat
    BY <2>1, <2>2
  <2>5. NewRow \in Rows
    BY <1>5, <2>3, <2>4, Zenon DEF Rows
  <2>6. QED  BY <2>1, <2>2, <2>5, Zenon

(* The lists each statement saves.                                         *)
LEMMA SavedListsAre ==
  /\ SavedLists("saveCompany") = {"company"}
  /\ SavedLists("saveSupplier") = {"supplier"}
  /\ SavedLists("saveRelationship") = {"company", "supplier"}
  /\ \A step \in Steps \ {"saveCompany", "saveSupplier", "saveRelationship"} :
       SavedLists(step) = {}
  /\ \A step \in Steps : SavedLists(step) \subseteq Lists
<1>1. /\ SavedLists("saveCompany") = {"company"}
      /\ SavedLists("saveSupplier") = {"supplier"}
      /\ SavedLists("saveRelationship") = {"company", "supplier"}
  BY Zenon DEF SavedLists, Lists
<1>2. ASSUME NEW step \in Steps \ {"saveCompany", "saveSupplier", "saveRelationship"}
      PROVE  SavedLists(step) = {}
  BY Zenon DEF SavedLists
<1>3. \A step \in Steps : SavedLists(step) \subseteq Lists
  BY <1>1, <1>2 DEF Lists
<1>4. QED  BY <1>1, <1>2, <1>3

(* A handler loads parts and, if it is to set it, the supplier.            *)
LEMMA LoadedIs ==
  ASSUME NEW op \in OperationNames \ CompanyOperations
  PROVE  /\ Loaded(op) \subseteq PartNames \cup {"supplier"}
         /\ "supplier" \in Loaded(op) <=> op \in {"supplierInformation", "updateSupplier"}
<1> USE DEF PartNames
<1>1. CASE op \in {"submit", "card", "transaction", "buyerInformation"}
  <2>1. Loaded(op) = PartNames
    BY <1>1, Zenon DEF Loaded
  <2>2. QED  BY <1>1, <2>1
<1>2. CASE op = "security"
  <2>1. Loaded(op) = PartNames \ {"buyerInformation"}
    BY <1>2, Zenon DEF Loaded
  <2>2. QED  BY <1>2, <2>1
<1>3. CASE op = "supplierInformation"
  <2>1. Loaded(op) = (PartNames \ {"buyerInformation"}) \cup {"supplier"}
    BY <1>3, Zenon DEF Loaded
  <2>2. QED  BY <1>3, <2>1
<1>4. CASE op = "updateSupplier"
  <2>1. Loaded(op) = {"supplier"}
    BY <1>4, Zenon DEF Loaded
  <2>2. QED  BY <1>4, <2>1
<1>5. CASE op \in {"paymentTerms", "updateTerms"}
  <2>1. Loaded(op) = {"paymentTerms"}
    BY <1>5, Zenon DEF Loaded
  <2>2. QED  BY <1>5, <2>1
<1>6. CASE op = "orderDetails"
  <2>1. Loaded(op) = {"orderDetails"}
    BY <1>6, Zenon DEF Loaded
  <2>2. QED  BY <1>6, <2>1
<1>7. QED
  BY <1>1, <1>2, <1>3, <1>4, <1>5, <1>6 DEF OperationNames, CompanyOperations

(* What a field of a row may hold. *)
Fits(f, v) ==
  /\ v \in Values
  /\ f = "status" => v \in {"ACTIVE", "IN_REVIEW"}
  /\ f = "purchaseOrderId" => v \in {"none", "transaction", "invoice"}
  /\ f \in Lists => v \in BOOLEAN
  /\ f \in PartNames => v \in Nat

Sets(m, row, f, v) == m = [row EXCEPT ![f] = v]

(* A row with another value in one of its fields. *)
LEMMA RowWith ==
  ASSUME NEW row \in Rows, NEW f \in Fields, NEW v, Fits(f, v),
         NEW m, Sets(m, row, f, v)
  PROVE  m \in Rows /\ m[f] = v /\ \A g \in Fields : g # f => m[g] = row[g]
<1>1. /\ row \in [Fields -> Values] /\ v \in Values
      /\ "status" \in Fields /\ "purchaseOrderId" \in Fields
      /\ "company" \in Fields /\ "supplier" \in Fields /\ PartNames \subseteq Fields
  BY DEF Rows, Fits, Fields, Columns
<1>2. /\ m \in [Fields -> Values] /\ m[f] = v
      /\ \A g \in Fields : g # f => m[g] = row[g]
  BY <1>1 DEF Sets
<1>3. m["status"] \in {"ACTIVE", "IN_REVIEW"}
  BY <1>1, <1>2 DEF Rows, Fits
<1>4. m["purchaseOrderId"] \in {"none", "transaction", "invoice"}
  BY <1>1, <1>2 DEF Rows, Fits
<1>5. m["company"] \in BOOLEAN /\ m["supplier"] \in BOOLEAN
  BY <1>1, <1>2 DEF Rows, Fits, Lists
<1>6. \A p \in PartNames : m[p] \in Nat
  BY <1>1, <1>2 DEF Rows, Fits
<1>7. QED  BY <1>2, <1>3, <1>4, <1>5, <1>6 DEF Rows

(* What the handlers make of the row they load. *)
LEMMA ChangedIs ==
  ASSUME NEW q, NEW row \in Rows, q.part \in Nat
  PROVE  /\ Changed(q, row) \in Rows
         /\ Changed(q, row)["status"] = IF q.op = "submit" THEN "IN_REVIEW" ELSE row["status"]
         /\ Changed(q, row)["company"] = row["company"]
         /\ Changed(q, row)["supplier"] =
              IF q.op \in {"supplierInformation", "updateSupplier"} THEN TRUE ELSE row["supplier"]
         /\ \A p \in PartNames : Changed(q, row)[p] =
              IF p = "security" /\ q.op = "security" THEN q.part ELSE row[p]
<1>0. /\ "status" \in Fields /\ "company" \in Fields /\ "supplier" \in Fields
      /\ "status" \notin PartNames /\ "supplier" \notin PartNames
      /\ "purchaseOrderId" \notin PartNames /\ PartNames \subseteq Fields
  BY DEF Fields, Columns, PartNames
<1>1. CASE q.op = "submit"
  <2>1. Sets(Changed(q, row), row, "status", "IN_REVIEW")
    BY <1>1, Zenon DEF Changed, Sets
  <2>2. Fits("status", "IN_REVIEW") /\ "status" \in Fields
    BY FieldNames DEF Fits, Values, Lists, PartNames
  <2>3. /\ Changed(q, row) \in Rows /\ Changed(q, row)["status"] = "IN_REVIEW"
        /\ \A g \in Fields : g # "status" => Changed(q, row)[g] = row[g]
    BY <2>1, <2>2, RowWith
  <2>4. QED  BY <1>1, <1>0, <2>3
<1>2. CASE q.op = "transaction"
  <2>1. Sets(Changed(q, row), row, "purchaseOrderId", "transaction")
    BY <1>2, Zenon DEF Changed, Sets
  <2>2. Fits("purchaseOrderId", "transaction") /\ "purchaseOrderId" \in Fields
    BY FieldNames DEF Fits, Values, Lists, PartNames
  <2>3. /\ Changed(q, row) \in Rows /\ Changed(q, row)["purchaseOrderId"] = "transaction"
        /\ \A g \in Fields : g # "purchaseOrderId" => Changed(q, row)[g] = row[g]
    BY <2>1, <2>2, RowWith
  <2>4. QED  BY <1>2, <1>0, <2>3
<1>3. CASE q.op = "security"
  <2>1. Sets(Changed(q, row), row, "security", q.part)
    BY <1>3, Zenon DEF Changed, Sets
  <2>2. Fits("security", q.part) /\ "security" \in Fields
    BY FieldNames DEF Fits, Values, Lists, PartNames
  <2>3. /\ Changed(q, row) \in Rows /\ Changed(q, row)["security"] = q.part
        /\ \A g \in Fields : g # "security" => Changed(q, row)[g] = row[g]
    BY <2>1, <2>2, RowWith
  <2>4. QED  BY <1>3, <1>0, <2>3
<1>4. CASE q.op \in {"supplierInformation", "updateSupplier"}
  <2>1. PICK v : v = TRUE
    OBVIOUS
  <2>2. Sets(Changed(q, row), row, "supplier", v)
    BY <1>4, <2>1, Zenon DEF Changed, Sets
  <2>3. Fits("supplier", v) /\ "supplier" \in Fields
    BY <2>1, FieldNames DEF Fits, Values, Lists, PartNames
  <2>4. /\ Changed(q, row) \in Rows /\ Changed(q, row)["supplier"] = v
        /\ \A g \in Fields : g # "supplier" => Changed(q, row)[g] = row[g]
    BY <2>2, <2>3, RowWith
  <2>5. Changed(q, row)["supplier"] = TRUE
    BY <2>1, <2>4
  <2>6. QED  BY <1>4, <1>0, <2>4, <2>5
<1>5. CASE q.op \notin {"submit", "transaction", "security",
                        "supplierInformation", "updateSupplier"}
  <2>1. Changed(q, row) = row
    BY <1>5, Zenon DEF Changed
  <2>2. QED  BY <1>5, <2>1
<1>6. QED  BY <1>1, <1>2, <1>3, <1>4, <1>5

(* A request that is not served.                                           *)
LEMMA NoRequestIs ==
  /\ NoRequest \in RequestType
  /\ NoRequest.op = "none" /\ NoRequest.app = NoApplication /\ NoRequest.rest = <<>>
  /\ NoRequest.copy = NewRow /\ NoRequest.held = {} /\ NoRequest.part = 0
  /\ NoRequest.lists = {} /\ NoRequest.listed = [f \in Lists |-> {}]
  /\ NoRequest.read = FALSE /\ NoRequest.changes = {}
<1>1. [f \in Lists |-> {}] \in [Lists -> SUBSET Applications]
  OBVIOUS
<1>2. <<>> \in Seq(Steps)
  OBVIOUS
<1>3. QED  BY <1>1, <1>2, NewRowIs DEF NoRequest, RequestType

(* What is not saved any more is forgotten, and nothing else. *)
LEMMA RememberedIs ==
  ASSUME NEW q \in RequestType
  PROVE  LET p == Remembered(q)
         IN /\ p \in RequestType
            /\ p.op = q.op /\ p.app = q.app /\ p.rest = q.rest /\ p.part = q.part
            /\ p.read = q.read /\ p.changes = q.changes
            /\ p.held = IF "saveApplication" \in StepsOf(q.rest) THEN q.held ELSE {}
            /\ p.copy = IF "saveApplication" \in StepsOf(q.rest) THEN q.copy ELSE NewRow
            /\ p.lists = q.lists \cap ListsOf(q.rest)
            /\ p.listed = [f \in Lists |-> IF f \in p.lists THEN q.listed[f] ELSE {}]
<1> DEFINE ahead == {q.rest[i] : i \in DOMAIN q.rest}
           lists == q.lists \cap UNION {SavedLists(step) : step \in ahead}
           listed == [f \in Lists |-> IF f \in lists THEN q.listed[f] ELSE {}]
           held == IF "saveApplication" \in ahead THEN q.held ELSE {}
           copy == IF "saveApplication" \in ahead THEN q.copy ELSE NewRow
<1>1. ahead = StepsOf(q.rest) /\ lists = q.lists \cap ListsOf(q.rest)
  BY DEF StepsOf, ListsOf
<1>2. listed \in [Lists -> SUBSET Applications] /\ lists \in SUBSET Lists
  BY DEF RequestType
<1>3. held \in SUBSET Fields /\ copy \in Rows
  BY NewRowIs DEF RequestType
<1>4. Remembered(q) = [q EXCEPT !.copy = copy, !.held = held, !.lists = lists, !.listed = listed]
  BY DEF Remembered
<1> HIDE DEF ahead, lists, listed, held, copy
<1>5. /\ Remembered(q) \in RequestType
      /\ Remembered(q).op = q.op /\ Remembered(q).app = q.app
      /\ Remembered(q).rest = q.rest /\ Remembered(q).part = q.part
      /\ Remembered(q).read = q.read /\ Remembered(q).changes = q.changes
      /\ Remembered(q).held = held /\ Remembered(q).copy = copy
      /\ Remembered(q).lists = lists /\ Remembered(q).listed = listed
  BY <1>2, <1>3, <1>4 DEF RequestType
<1>6. QED  BY <1>1, <1>5 DEF held, copy, listed

-----------------------------------------------------------------------------
(* What a request has in hand *)

(* A request goes through its program with what it has in hand. *)

HandsOK(q, C) == Planned(q) /\ InHand(q) /\ IsAbout(q, C)

(* The request after it has done what it was at. *)
After(q, rest) == IF rest = <<>> THEN NoRequest ELSE Remembered([q EXCEPT !.rest = rest])

Situated(q) == Situation(q.op, Head(q.rest), StepsOf(q.rest), StepsOf(Tail(q.rest)))

(* What is left of a request is what is left of one of its programs.       *)
LEMMA SituatedHolds ==
  ASSUME NEW q \in RequestType, Planned(q), q.rest # <<>>
  PROVE  /\ q.op \in OperationNames /\ Situated(q)
         /\ Head(q.rest) \in Steps /\ Tail(q.rest) \in Seq(Steps)
         /\ \/ Tail(q.rest) = <<>>
            \/ \E p \in Plans(q.op) : \E k \in 1 .. Len(p) : Tail(q.rest) = From(p, k)
         /\ \E p \in Plans(q.op) : \E k \in 1 .. Len(p) : q.rest = From(p, k)
<1>1. q # NoRequest
  BY NoRequestIs
<1>2. q.op \in OperationNames
  BY <1>1 DEF Planned
<1>3. PICK p \in Plans(q.op) : \E k \in 1 .. Len(p) : q.rest = From(p, k)
  BY <1>1 DEF Planned
<1>4. PICK k \in 1 .. Len(p) : q.rest = From(p, k)
  BY <1>3
<1>5. /\ Head(q.rest) = p[k] /\ Tail(q.rest) = From(p, k + 1)
      /\ StepsOf(q.rest) = {p[j] : j \in k .. Len(p)}
      /\ StepsOf(Tail(q.rest)) = {p[j] : j \in k + 1 .. Len(p)}
      /\ k = Len(p) => Tail(q.rest) = <<>>
  BY <1>2, <1>4, TakesOneStep
<1>6. Situated(q)
  BY <1>2, <1>5, SituationHolds DEF Situated
<1>7. q.rest \in Seq(Steps)
  BY DEF RequestType
<1>8. Head(q.rest) \in Steps /\ Tail(q.rest) \in Seq(Steps)
  BY <1>7
<1>9. p \in Seq(Steps)
  BY <1>2, PlansAreOrderly DEF Orderly
<1>10. k = Len(p) \/ k + 1 \in 1 .. Len(p)
  BY <1>9
<1>11. \/ Tail(q.rest) = <<>>
       \/ \E n \in 1 .. Len(p) : Tail(q.rest) = From(p, n)
  BY <1>5, <1>10
<1>12. QED  BY <1>2, <1>4, <1>6, <1>8, <1>11

(* A request after a statement that is not its last.                       *)
LEMMA AfterIs ==
  ASSUME NEW q \in RequestType, NEW rest \in Seq(Steps), rest # <<>>
  PROVE  LET p == After(q, rest)
         IN /\ p \in RequestType
            /\ p.op = q.op /\ p.app = q.app /\ p.rest = rest /\ p.part = q.part
            /\ p.read = q.read /\ p.changes = q.changes
            /\ p.held = IF "saveApplication" \in StepsOf(rest) THEN q.held ELSE {}
            /\ p.copy = IF "saveApplication" \in StepsOf(rest) THEN q.copy ELSE NewRow
            /\ p.lists = q.lists \cap ListsOf(rest)
            /\ p.listed = [f \in Lists |-> IF f \in p.lists THEN q.listed[f] ELSE {}]
<1> DEFINE t == [q EXCEPT !.rest = rest]
<1>1. /\ t \in RequestType /\ t.op = q.op /\ t.app = q.app /\ t.rest = rest /\ t.part = q.part
      /\ t.read = q.read /\ t.changes = q.changes /\ t.held = q.held /\ t.copy = q.copy
      /\ t.lists = q.lists /\ t.listed = q.listed
  BY DEF RequestType
<1>2. After(q, rest) = Remembered(t)
  BY DEF After
<1> HIDE DEF t
<1>3. QED  BY <1>1, <1>2, RememberedIs

(* A request that is not served has nothing in hand.                       *)
LEMMA IdleIsOK ==
  ASSUME NEW C PROVE HandsOK(NoRequest, C)
<1>1. StepsOf(<<>>) = {} /\ ListsOf(<<>>) = {}
  BY DEF StepsOf, ListsOf
<1>2. "none" \notin OperationNames
  BY DEF OperationNames, PartNames
<1>3. QED  BY <1>1, <1>2, NoRequestIs DEF HandsOK, Planned, InHand, IsAbout, HasLoaded, OperationNames

(* What a step is to do with what is in hand. *)
Takes(q, n, C) ==
  LET step == Head(q.rest)
      after == StepsOf(Tail(q.rest))
  IN /\ n.op = q.op /\ n.rest = q.rest /\ n.read = FALSE /\ n.changes = {}
     /\ n.app = q.app \/ (step = "insert" /\ n.app \in C)
     /\ step = "insert" => n.app \in C
     /\ n.held = IF step = "load" THEN Columns \cup Loaded(q.op) ELSE q.held
     /\ n.lists = IF step = "loadCompany" THEN q.lists \cup {"company"}
                  ELSE IF step = "loadSupplier" THEN q.lists \cup {"supplier"} ELSE q.lists
     /\ \A f \in Lists : n.listed[f] \subseteq C
     /\ step # "createPart" => n.part = q.part
     /\ step = "createPart" => n.part # 0
     /\ n.op \in PartNames /\ "load" \notin after /\ "createPart" \notin after /\ "saveApplication" \in after =>
          n.copy[n.op] = n.part
     /\ n.op = "submit" /\ "load" \notin after /\ "saveApplication" \in after => n.copy["status"] = "IN_REVIEW"
     /\ n.op = "card" /\ "load" \notin after /\ "invoice" \notin after /\ "saveApplication" \in after =>
          n.copy["status"] = "IN_REVIEW"
     /\ "supplier" \in n.held => n.copy["supplier"]

(* Less is saved by less of a program.                                     *)
LEMMA ListsOfPart ==
  ASSUME NEW s \in Seq(Steps), NEW t \in Seq(Steps), StepsOf(t) \subseteq StepsOf(s)
  PROVE  ListsOf(t) \subseteq ListsOf(s)
  BY DEF ListsOf

(* What a request has in hand still follows from what it has left to do,   *)
(* when a statement did to it what that statement may.                     *)
LEMMA HandsAfter ==
  ASSUME NEW C, NEW q \in RequestType, NEW n \in RequestType, HandsOK(q, C),
         q.rest # <<>>, Takes(q, n, C)
  PROVE  HandsOK(After(n, Tail(q.rest)), C)
<1> DEFINE rest == Tail(q.rest)
           p == After(n, rest)
           step == Head(q.rest)
           left == StepsOf(q.rest)
           after == StepsOf(rest)
<1>1. CASE rest = <<>>
  BY <1>1, IdleIsOK DEF After
<1>2. CASE rest # <<>>
  <2>1. /\ q.op \in OperationNames /\ Situated(q) /\ step \in Steps /\ rest \in Seq(Steps)
        /\ \E x \in Plans(q.op) : \E k \in 1 .. Len(x) : rest = From(x, k)
    BY <1>2, SituatedHolds DEF HandsOK
  <2>2. Situation(q.op, step, left, after)
    BY <2>1 DEF Situated
  <2>3. left = {step} \cup after
    BY <2>2 DEF Situation
  <2>4. /\ p \in RequestType
        /\ p.op = q.op /\ p.app = n.app /\ p.rest = rest /\ p.part = n.part
        /\ p.read = FALSE /\ p.changes = {}
        /\ p.held = IF "saveApplication" \in after THEN n.held ELSE {}
        /\ "saveApplication" \in after => p.copy = n.copy
        /\ p.lists = n.lists \cap ListsOf(rest)
        /\ p.listed = [f \in Lists |-> IF f \in p.lists THEN n.listed[f] ELSE {}]
    <3>1. n.op = q.op /\ n.read = FALSE /\ n.changes = {}
      BY DEF Takes
    <3> HIDE DEF rest
    <3>2. QED  BY <1>2, <2>1, <3>1, AfterIs
  <2> HIDE DEF rest, p, step, left, after
  <2>5. Planned(p)
    BY <2>1, <2>4 DEF Planned
  <2>6. p.held = IF HasLoaded(p.op, p.rest) THEN Columns \cup Loaded(p.op) ELSE {}
    <3>1. n.held = IF step = "load" THEN Columns \cup Loaded(q.op) ELSE q.held
      BY DEF Takes, step
    <3>2. q.held = IF "load" \notin left /\ "saveApplication" \in left
                     THEN Columns \cup Loaded(q.op) ELSE {}
      BY DEF HandsOK, InHand, HasLoaded, left
    <3>3. HasLoaded(p.op, p.rest) <=> "load" \notin after /\ "saveApplication" \in after
      BY <2>4 DEF HasLoaded, after
    <3>4. step = "load" => "load" \notin after
      BY <2>2 DEF Situation
    <3>5. QED  BY <2>3, <2>4, <3>1, <3>2, <3>3, <3>4
  <2>7. p.lists = {f \in ListsOf(p.rest) : LoadOf(f) \notin StepsOf(p.rest)}
    <3>1. q.lists = {f \in ListsOf(q.rest) : LoadOf(f) \notin left}
      BY DEF HandsOK, InHand, left
    <3>2. ListsOf(rest) \subseteq ListsOf(q.rest)
      BY <2>1, <2>3, ListsOfPart DEF RequestType, left, after
    <3>3. ListsOf(rest) \subseteq Lists
      BY <2>1, SavedListsAre DEF ListsOf, StepsOf
    <3>4. n.lists = IF step = "loadCompany" THEN q.lists \cup {"company"}
                    ELSE IF step = "loadSupplier" THEN q.lists \cup {"supplier"} ELSE q.lists
      BY DEF Takes, step
    <3>5. step \in {"loadCompany", "loadSupplier"} => step \notin after
      BY <2>2 DEF Situation
    <3>6. LoadOf("company") = "loadCompany" /\ LoadOf("supplier") = "loadSupplier"
      BY DEF LoadOf
    <3>7. ASSUME NEW f \in ListsOf(rest)
          PROVE  f \in n.lists <=> LoadOf(f) \notin after
      BY <2>3, <3>1, <3>2, <3>3, <3>4, <3>5, <3>6 DEF Lists
    <3>8. QED  BY <2>4, <3>7 DEF after
  <2>8. p.part # 0 <=> p.op \in PartNames /\ "createPart" \notin StepsOf(p.rest)
    <3>1. q.part # 0 <=> q.op \in PartNames /\ "createPart" \notin left
      BY DEF HandsOK, InHand, left
    <3>2. step = "createPart" => q.op \in PartNames /\ "createPart" \notin after /\ n.part # 0
      BY <2>2 DEF Situation, Takes, step
    <3>3. step # "createPart" => n.part = q.part
      BY DEF Takes, step
    <3>4. QED  BY <2>3, <2>4, <3>1, <3>2, <3>3 DEF after
  <2>9. /\ p.op \in PartNames /\ HasLoaded(p.op, p.rest) /\ "createPart" \notin StepsOf(p.rest) =>
             p.copy[p.op] = p.part
        /\ p.op = "submit" /\ HasLoaded(p.op, p.rest) => p.copy["status"] = "IN_REVIEW"
        /\ p.op = "card" /\ HasLoaded(p.op, p.rest) /\ "invoice" \notin StepsOf(p.rest) =>
             p.copy["status"] = "IN_REVIEW"
        /\ "supplier" \in p.held => p.copy["supplier"]
    BY <2>4 DEF Takes, HasLoaded, rest, after
  <2>10. (p.read => Head(p.rest) \in Saves) /\ (~ p.read => p.changes = {})
    BY <2>4
  <2>11. InHand(p)
    BY <2>6, <2>7, <2>8, <2>9, <2>10 DEF InHand
  <2>12. IsAbout(p, C)
    <3>1. IsAbout(q, C)
      BY DEF HandsOK
    <3>2. p.app \in C \cup {NoApplication}
      BY <2>4, <3>1 DEF Takes, IsAbout
    <3>3. p.op \in OperationNames \ CompanyOperations => p.app \in C
      BY <2>4, <3>1 DEF Takes, IsAbout
    <3>4. p.op = "create" /\ "insert" \notin StepsOf(p.rest) => p.app \in C
      BY <2>3, <2>4, <3>1 DEF Takes, IsAbout, left, after, step
    <3>5. \A f \in Lists : p.listed[f] \subseteq C
      BY <2>4 DEF Takes
    <3>6. QED  BY <3>2, <3>3, <3>4, <3>5 DEF IsAbout
  <2>13. QED  BY <2>5, <2>11, <2>12 DEF HandsOK, p, rest
<1>3. QED  BY <1>1, <1>2

(* What each handler does to what it has in hand. *)

(* The names of parts are names of requests.                               *)
LEMMA OpNames ==
  /\ PartNames \subseteq OperationNames /\ "create" \notin PartNames
  /\ PartNames \cap CompanyOperations = {}
  /\ \A op \in OperationNames \cup {"none"} : op \in PartNames => op \in Fields
  BY DEF OperationNames, PartNames, CompanyOperations, Fields

(* Nothing is read or changed unless a request is at a save. *)
LEMMA NotReading ==
  ASSUME NEW q \in RequestType, InHand(q), Head(q.rest) \notin Saves \/ ~ q.read
  PROVE  q.read = FALSE /\ q.changes = {}
  BY DEF InHand, RequestType

(* Applications that are created later are no concern of a request.        *)
LEMMA HandsGrow ==
  ASSUME NEW q, NEW C, NEW D, C \subseteq D, HandsOK(q, C)
  PROVE  HandsOK(q, D)
  BY DEF HandsOK, IsAbout

(* Loading the application.                                                *)
LEMMA LoadTakes ==
  ASSUME NEW C, NEW q \in RequestType, HandsOK(q, C), q.rest # <<>>,
         Head(q.rest) = "load", NEW row \in Rows, NEW n,
         n = [q EXCEPT !.copy = Changed(q, row), !.held = Columns \cup Loaded(q.op)]
  PROVE  n \in RequestType /\ Takes(q, n, C)
<1>1. /\ q.op \in OperationNames
      /\ Situation(q.op, "load", StepsOf(q.rest), StepsOf(Tail(q.rest)))
  BY SituatedHolds DEF HandsOK, Situated
<1>2. q.op \in OperationNames \ CompanyOperations
  BY <1>1 DEF Situation
<1>3. q.read = FALSE /\ q.changes = {}
  BY NotReading DEF HandsOK, Saves
<1>4. /\ Changed(q, row) \in Rows
      /\ q.op = "submit" => Changed(q, row)["status"] = "IN_REVIEW"
      /\ q.op \in {"supplierInformation", "updateSupplier"} => Changed(q, row)["supplier"]
      /\ q.op = "security" => Changed(q, row)["security"] = q.part
  <2>1. q.part \in Nat
    BY DEF RequestType
  <2>2. "security" \in PartNames
    BY DEF PartNames
  <2>3. QED  BY <2>1, <2>2, ChangedIs
<1>5. Columns \cup Loaded(q.op) \in SUBSET Fields
  BY <1>2, LoadedIs DEF Fields
<1>6. /\ n \in RequestType
      /\ n.op = q.op /\ n.app = q.app /\ n.rest = q.rest /\ n.part = q.part
      /\ n.read = q.read /\ n.changes = q.changes
      /\ n.held = Columns \cup Loaded(q.op) /\ n.copy = Changed(q, row)
      /\ n.lists = q.lists /\ n.listed = q.listed
  BY <1>4, <1>5 DEF RequestType
<1>7. n.op = "submit" => n.copy["status"] = "IN_REVIEW"
  BY <1>4, <1>6
<1>8. n.op = "card" => "invoice" \in StepsOf(Tail(q.rest))
  BY <1>1, <1>6 DEF Situation
<1>9. n.op \in PartNames /\ "createPart" \notin StepsOf(Tail(q.rest)) => n.copy[n.op] = n.part
  <2>1. n.op \in PartNames /\ "createPart" \notin StepsOf(Tail(q.rest)) => n.op = "security"
    BY <1>1, <1>6 DEF Situation
  <2>2. n.op = "security" => n.copy["security"] = q.part
    BY <1>4, <1>6
  <2>3. QED  BY <1>6, <2>1, <2>2
<1>10. "supplier" \in n.held => n.copy["supplier"]
  <2>1. "supplier" \in n.held => q.op \in {"supplierInformation", "updateSupplier"}
    BY <1>2, <1>6, LoadedIs DEF Columns
  <2>2. q.op \in {"supplierInformation", "updateSupplier"} => n.copy["supplier"]
    BY <1>4, <1>6
  <2>3. QED  BY <2>1, <2>2
<1>11. \A f \in Lists : n.listed[f] \subseteq C
  BY <1>6 DEF HandsOK, IsAbout
<1>12. QED
  BY <1>3, <1>6, <1>7, <1>8, <1>9, <1>10, <1>11 DEF Takes

(* A step that leaves the copy alone, and at which nothing is created. *)
LEMMA KeepsTakes ==
  ASSUME NEW C, NEW q \in RequestType, HandsOK(q, C), q.rest # <<>>, NEW n \in RequestType,
         Head(q.rest) \notin {"load", "createPart", "insert", "invoice"},
         n.op = q.op, n.app = q.app, n.rest = q.rest, n.part = q.part,
         n.held = q.held, n.copy = q.copy, n.read = FALSE, n.changes = {},
         n.lists = IF Head(q.rest) = "loadCompany" THEN q.lists \cup {"company"}
                   ELSE IF Head(q.rest) = "loadSupplier" THEN q.lists \cup {"supplier"}
                   ELSE q.lists,
         \A f \in Lists : n.listed[f] \subseteq C
  PROVE  Takes(q, n, C)
<1>1. Situation(q.op, Head(q.rest), StepsOf(q.rest), StepsOf(Tail(q.rest)))
  BY SituatedHolds DEF HandsOK, Situated
<1>2. StepsOf(q.rest) = {Head(q.rest)} \cup StepsOf(Tail(q.rest))
  BY <1>1 DEF Situation
<1>3. /\ q.op \in PartNames /\ HasLoaded(q.op, q.rest) /\ "createPart" \notin StepsOf(q.rest) => q.copy[q.op] = q.part
      /\ q.op = "submit" /\ HasLoaded(q.op, q.rest) => q.copy["status"] = "IN_REVIEW"
      /\ q.op = "card" /\ HasLoaded(q.op, q.rest) /\ "invoice" \notin StepsOf(q.rest) =>
           q.copy["status"] = "IN_REVIEW"
      /\ "supplier" \in q.held => q.copy["supplier"]
  BY DEF HandsOK, InHand
<1>4. "load" \notin StepsOf(Tail(q.rest)) /\ "saveApplication" \in StepsOf(Tail(q.rest)) =>
        HasLoaded(q.op, q.rest)
  BY <1>2 DEF HasLoaded
<1>5. /\ "createPart" \notin StepsOf(Tail(q.rest)) => "createPart" \notin StepsOf(q.rest)
      /\ "invoice" \notin StepsOf(Tail(q.rest)) => "invoice" \notin StepsOf(q.rest)
  BY <1>2
<1>6. QED  BY <1>3, <1>4, <1>5 DEF Takes

LoadsList(q, f, L, n) ==
  n = [q EXCEPT !.lists = q.lists \cup {f}, !.listed = [q.listed EXCEPT ![f] = L]]

(* Loading a list.                                                         *)
LEMMA ListTakes ==
  ASSUME NEW C, C \subseteq Applications, NEW q \in RequestType, HandsOK(q, C), q.rest # <<>>,
         NEW f \in Lists, Head(q.rest) = LoadOf(f), NEW L, L \subseteq C, NEW n, LoadsList(q, f, L, n)
  PROVE  n \in RequestType /\ Takes(q, n, C)
<1>1. q.read = FALSE /\ q.changes = {}
  BY NotReading DEF HandsOK, Saves, LoadOf, Lists
<1>2. /\ [q.listed EXCEPT ![f] = L] \in [Lists -> SUBSET Applications]
      /\ \A g \in Lists : [q.listed EXCEPT ![f] = L][g] \subseteq C
  BY DEF RequestType, HandsOK, IsAbout
<1> DEFINE listed == [q.listed EXCEPT ![f] = L]
           lists == q.lists \cup {f}
<1>3. n = [q EXCEPT !.lists = lists, !.listed = listed] /\ lists \in SUBSET Lists
  BY DEF RequestType, LoadsList
<1> HIDE DEF lists, listed
<1>4. /\ n \in RequestType
      /\ n.op = q.op /\ n.app = q.app /\ n.rest = q.rest /\ n.part = q.part
      /\ n.read = q.read /\ n.changes = q.changes
      /\ n.held = q.held /\ n.copy = q.copy
      /\ n.lists = lists /\ n.listed = listed
  <2>1. listed \in [Lists -> SUBSET Applications]
    BY <1>2 DEF listed
  <2>2. QED  BY <1>3, <2>1 DEF RequestType
<1>5. \A g \in Lists : n.listed[g] \subseteq C
  BY <1>2, <1>4 DEF listed
<1>6. Head(q.rest) \in {"loadCompany", "loadSupplier"} /\ (Head(q.rest) = "loadCompany" <=> f = "company")
  BY DEF LoadOf, Lists
<1>7. n.lists = IF Head(q.rest) = "loadCompany" THEN q.lists \cup {"company"}
                ELSE IF Head(q.rest) = "loadSupplier" THEN q.lists \cup {"supplier"}
                ELSE q.lists
  BY <1>4, <1>6 DEF Lists, lists
<1>8. Takes(q, n, C)
  BY <1>1, <1>4, <1>5, <1>6, <1>7, KeepsTakes
<1>9. QED  BY <1>4, <1>8

(* Creating an application.                                                *)
LEMMA InsertTakes ==
  ASSUME NEW C, C \subseteq Applications, NEW q \in RequestType, HandsOK(q, C), q.rest # <<>>,
         Head(q.rest) = "insert", NEW a \in Applications, NEW n, n = [q EXCEPT !.app = a]
  PROVE  n \in RequestType /\ Takes(q, n, C \cup {a})
<1>1. q.read = FALSE /\ q.changes = {}
  BY NotReading DEF HandsOK, Saves
<1>2. Situation(q.op, "insert", StepsOf(q.rest), StepsOf(Tail(q.rest)))
  BY SituatedHolds DEF HandsOK, Situated
<1>3. q.op = "create"
  BY <1>2 DEF Situation
<1>4. /\ n \in RequestType
      /\ n.op = q.op /\ n.app = a /\ n.rest = q.rest /\ n.part = q.part
      /\ n.read = q.read /\ n.changes = q.changes
      /\ n.held = q.held /\ n.copy = q.copy
      /\ n.lists = q.lists /\ n.listed = q.listed
  BY DEF RequestType
<1>5. "supplier" \in n.held => n.copy["supplier"]
  BY <1>4 DEF HandsOK, InHand
<1>6. \A g \in Lists : n.listed[g] \subseteq C \cup {a}
  BY <1>4 DEF HandsOK, IsAbout
<1>7. QED  BY <1>1, <1>3, <1>4, <1>5, <1>6, OpNames DEF Takes

MakesPart(q, part, n) ==
  n = IF q.op = "security" THEN [q EXCEPT !.part = part]
                           ELSE [q EXCEPT !.part = part, !.copy[q.op] = part]

(* Creating a part.                                                        *)
LEMMA PartTakes ==
  ASSUME NEW C, NEW q \in RequestType, HandsOK(q, C), q.rest # <<>>,
         Head(q.rest) = "createPart", NEW part \in Nat \ {0}, NEW n, MakesPart(q, part, n)
  PROVE  n \in RequestType /\ Takes(q, n, C)
<1>1. q.read = FALSE /\ q.changes = {}
  BY NotReading DEF HandsOK, Saves
<1>2. Situation(q.op, "createPart", StepsOf(q.rest), StepsOf(Tail(q.rest)))
  BY SituatedHolds DEF HandsOK, Situated
<1>3. q.op \in PartNames /\ ("load" \in StepsOf(Tail(q.rest)) <=> q.op = "security")
  BY <1>2 DEF Situation
<1>4. q.copy \in Rows
  BY DEF RequestType
<1>5. /\ [q.copy EXCEPT ![q.op] = part] \in Rows
      /\ [q.copy EXCEPT ![q.op] = part][q.op] = part
      /\ [q.copy EXCEPT ![q.op] = part]["supplier"] = q.copy["supplier"]
  BY <1>3, <1>4, FieldNames DEF Rows, PartNames, Values
<1>6. /\ n \in RequestType
      /\ n.op = q.op /\ n.app = q.app /\ n.rest = q.rest /\ n.part = part
      /\ n.read = q.read /\ n.changes = q.changes
      /\ n.held = q.held
      /\ n.lists = q.lists /\ n.listed = q.listed
      /\ n.copy = IF q.op = "security" THEN q.copy ELSE [q.copy EXCEPT ![q.op] = part]
  <2>1. CASE q.op = "security"
    BY <2>1 DEF RequestType, MakesPart
  <2>2. CASE q.op # "security"
    <3>1. n = [q EXCEPT !.part = part, !.copy = [q.copy EXCEPT ![q.op] = part]]
      BY <2>2 DEF RequestType, MakesPart
    <3>2. QED  BY <1>5, <2>2, <3>1 DEF RequestType
  <2>3. QED  BY <2>1, <2>2
<1>7. "supplier" \in n.held => n.copy["supplier"]
  BY <1>5, <1>6 DEF HandsOK, InHand
<1>8. \A g \in Lists : n.listed[g] \subseteq C
  BY <1>6 DEF HandsOK, IsAbout
<1>9. "load" \notin StepsOf(Tail(q.rest)) => n.copy[n.op] = n.part
  BY <1>3, <1>5, <1>6
<1>10. n.op # "submit" /\ n.op # "card"
  BY <1>3, <1>6 DEF PartNames
<1>11. QED  BY <1>1, <1>6, <1>7, <1>8, <1>9, <1>10 DEF Takes

Invoiced(q, n) ==
  n = [q EXCEPT !.copy.purchaseOrderId = "invoice", !.copy.status = "IN_REVIEW"]

(* Sending an invoice.                                                     *)
LEMMA InvoiceTakes ==
  ASSUME NEW C, NEW q \in RequestType, HandsOK(q, C), q.rest # <<>>,
         Head(q.rest) = "invoice", NEW n, Invoiced(q, n)
  PROVE  n \in RequestType /\ Takes(q, n, C)
<1>1. q.read = FALSE /\ q.changes = {}
  BY NotReading DEF HandsOK, Saves
<1>2. Situation(q.op, "invoice", StepsOf(q.rest), StepsOf(Tail(q.rest)))
  BY SituatedHolds DEF HandsOK, Situated
<1>3. q.op = "card" /\ q.op \notin PartNames
  BY <1>2 DEF Situation, PartNames
<1> DEFINE copy == [q.copy EXCEPT !["purchaseOrderId"] = "invoice", !["status"] = "IN_REVIEW"]
<1>4. q.copy \in Rows
  BY DEF RequestType
<1>5. copy \in Rows /\ copy["status"] = "IN_REVIEW" /\ copy["supplier"] = q.copy["supplier"]
  BY <1>4, FieldNames DEF Rows, PartNames, Values
<1>6. n = [q EXCEPT !.copy = copy]
  BY DEF RequestType, Invoiced
<1> HIDE DEF copy
<1>7. /\ n \in RequestType
      /\ n.op = q.op /\ n.app = q.app /\ n.rest = q.rest /\ n.part = q.part
      /\ n.read = q.read /\ n.changes = q.changes
      /\ n.held = q.held /\ n.copy = copy
      /\ n.lists = q.lists /\ n.listed = q.listed
  BY <1>5, <1>6 DEF RequestType
<1>8. "supplier" \in n.held => n.copy["supplier"]
  BY <1>5, <1>7 DEF HandsOK, InHand
<1>9. \A g \in Lists : n.listed[g] \subseteq C
  BY <1>7 DEF HandsOK, IsAbout
<1>10. QED  BY <1>1, <1>3, <1>5, <1>7, <1>8, <1>9 DEF Takes

-----------------------------------------------------------------------------
(* Requests in order *)

(* Types, and what the requests have in hand. *)

Notes(q, C) == q.read => q.changes \subseteq Compared(q, C)

Served == \A r \in Requests : HandsOK(requests[r], created) /\ Notes(requests[r], created)

TypedOK == TablesOK /\ Served

(* What was found to differ is among more applications if there are more.  *)
LEMMA NotesGrow ==
  ASSUME NEW q, NEW C, NEW D, C \subseteq D, Notes(q, C)
  PROVE  Notes(q, D)
  BY DEF Notes, Compared

(* One request is replaced, and applications are only added. *)
LEMMA ServesOne ==
  ASSUME TypedOK, created \subseteq created', NEW r \in Requests, NEW p \in RequestType,
         requests' = [requests EXCEPT ![r] = p],
         HandsOK(p, created'), Notes(p, created')
  PROVE  Served' /\ requests' \in [Requests -> RequestType]
<1>1. requests \in [Requests -> RequestType] /\ Served
  BY DEF TypedOK, TablesOK
<1>2. requests' \in [Requests -> RequestType]
  BY <1>1
<1>3. ASSUME NEW s \in Requests PROVE HandsOK(requests'[s], created') /\ Notes(requests'[s], created')
  <2>1. CASE s = r
    BY <1>1, <2>1
  <2>2. CASE s # r
    <3>1. requests'[s] = requests[s]
      BY <1>1, <2>2
    <3>2. HandsOK(requests[s], created) /\ Notes(requests[s], created)
      BY <1>1 DEF Served
    <3>3. QED  BY <3>1, <3>2, HandsGrow, NotesGrow
  <2>3. QED  BY <2>1, <2>2
<1>4. QED  BY <1>2, <1>3 DEF Served

(* A request that is not served is in order.                               *)
LEMMA IdleIsServed ==
  ASSUME NEW C
  PROVE  NoRequest \in RequestType /\ HandsOK(NoRequest, C) /\ Notes(NoRequest, C)
  BY NoRequestIs, IdleIsOK DEF Notes

(* So is one after a statement.                                            *)
LEMMA AfterIsServed ==
  ASSUME NEW C, NEW q \in RequestType, NEW n \in RequestType, HandsOK(q, C),
         q.rest # <<>>, Takes(q, n, C)
  PROVE  /\ After(n, Tail(q.rest)) \in RequestType
         /\ HandsOK(After(n, Tail(q.rest)), C) /\ Notes(After(n, Tail(q.rest)), C)
<1>1. HandsOK(After(n, Tail(q.rest)), C)
  BY HandsAfter
<1>2. Tail(q.rest) \in Seq(Steps)
  BY SituatedHolds DEF HandsOK
<1>3. CASE Tail(q.rest) = <<>>
  BY <1>3, IdleIsServed DEF After
<1>4. CASE Tail(q.rest) # <<>>
  <2> DEFINE rest == Tail(q.rest)
  <2> HIDE DEF rest
  <2>1. rest \in Seq(Steps) /\ rest # <<>> /\ n.read = FALSE
    BY <1>2, <1>4 DEF rest, Takes
  <2>2. After(n, rest) \in RequestType /\ After(n, rest).read = FALSE
    BY <2>1, AfterIs
  <2>3. QED  BY <1>1, <2>2 DEF rest, Notes
<1>5. QED  BY <1>3, <1>4

(* What is known of a request that is at a statement.                      *)
LEMMA AtIs ==
  ASSUME NEW r \in Requests, NEW step, TypedOK, At(r, step)
  PROVE  /\ requests[r] \in RequestType /\ HandsOK(requests[r], created)
         /\ Notes(requests[r], created)
         /\ requests[r].rest # <<>> /\ Head(requests[r].rest) = step
  BY DEF TypedOK, TablesOK, Served, At

(* A request that begins has all of its program to do, and nothing in hand. *)
LEMMA BeginsOK ==
  ASSUME NEW C, NEW op \in OperationNames, NEW program \in Plans(op), program # <<>>,
         NEW a \in Applications \cup {NoApplication}, a \in C \cup {NoApplication},
         op \notin CompanyOperations => a \in C,
         NEW p, p = [NoRequest EXCEPT !.op = op, !.app = a, !.rest = program]
  PROVE  p \in RequestType /\ HandsOK(p, C) /\ Notes(p, C)
<1>1. program \in Seq(Steps) /\ Composed(op, program)
  BY PlansAreOrderly DEF Orderly
<1>2. /\ p \in RequestType
      /\ p.op = op /\ p.app = a /\ p.rest = program
      /\ p.copy = NewRow /\ p.held = {} /\ p.part = 0
      /\ p.lists = {} /\ p.listed = [f \in Lists |-> {}]
      /\ p.read = FALSE /\ p.changes = {}
  BY <1>1, NoRequestIs DEF RequestType
<1>3. \A s : s \in StepsOf(program) <=> Occurs(program, s)
  BY <1>1 DEF StepsOf, Occurs
<1>4. Planned(p)
  <2>1. Len(program) \in Nat /\ Len(program) >= 1
    BY <1>1
  <2>2. program = From(program, 1)
    <3>1. /\ From(program, 1) \in Seq(Steps) /\ Len(From(program, 1)) = Len(program)
          /\ \A i \in 1 .. Len(program) : From(program, 1)[i] = program[i]
      BY <1>1, <2>1 DEF From
    <3>2. QED  BY <1>1, <3>1, SeqEqual
  <2>3. 1 \in 1 .. Len(program)
    BY <2>1
  <2>4. QED  BY <1>2, <2>2, <2>3 DEF Planned
<1>5. ~ HasLoaded(op, program)
  BY <1>1, <1>3 DEF HasLoaded, Composed
<1>6. {f \in ListsOf(program) : LoadOf(f) \notin StepsOf(program)} = {}
  <2>1. ASSUME NEW f \in ListsOf(program) PROVE LoadOf(f) \in StepsOf(program)
    <3>1. PICK step \in StepsOf(program) : f \in SavedLists(step)
      BY DEF ListsOf
    <3>2. step \in Steps
      BY <1>1 DEF StepsOf
    <3>3. \/ f = "company" /\ step \in {"saveCompany", "saveRelationship"}
          \/ f = "supplier" /\ step \in {"saveSupplier", "saveRelationship"}
      BY <3>1, <3>2, SavedListsAre
    <3>4. QED  BY <1>1, <1>3, <3>3 DEF Composed, LoadOf
  <2>2. QED  BY <2>1
<1>7. op \in PartNames => "createPart" \in StepsOf(program)
  BY <1>1, <1>3 DEF Composed
<1>8. InHand(p)
  BY <1>2, <1>5, <1>6, <1>7 DEF InHand
<1>9. op = "create" => "insert" \in StepsOf(program)
  BY <1>1, <1>3 DEF Composed
<1>10. IsAbout(p, C)
  BY <1>2, <1>9 DEF IsAbout
<1>11. QED  BY <1>2, <1>4, <1>8, <1>10 DEF HandsOK, Notes

(* The first information of an application if the company has no address:  *)
(* the program the request goes on with is another one from here on.       *)
AddressRest == <<"saveCompany", "createPart", "saveApplication", "saveCompany">>

(* The program of the first information, from its second statement on.     *)
LEMMA AddressIs ==
  /\ From(WithAddress, 2) =
       <<"loadCompany", "saveCompany", "createPart", "saveApplication", "saveCompany">>
  /\ Head(From(WithAddress, 2)) = "loadCompany"
  /\ Tail(From(WithAddress, 2)) = AddressRest /\ From(WithAddress, 2) # <<>>
  /\ From(WithAddress, 2) \in Seq(Steps) /\ AddressRest \in Seq(Steps)
  /\ StepsOf(From(WithAddress, 2)) = {"loadCompany", "saveCompany", "createPart", "saveApplication"}
  /\ StepsOf(AddressRest) = {"saveCompany", "createPart", "saveApplication"}
  /\ WithAddress \in Plans("buyerInformation") /\ 2 \in 1 .. Len(WithAddress)
<1> DEFINE s == <<"loadCompany", "saveCompany", "createPart", "saveApplication", "saveCompany">>
<1>1. WithAddress \in Seq(Steps) /\ Len(WithAddress) = 6
  BY DEF WithAddress, Steps
<1>2. s \in Seq(Steps) /\ Len(s) = 5
  <2>1. /\ "loadCompany" \in Steps /\ "saveCompany" \in Steps /\ "createPart" \in Steps
        /\ "saveApplication" \in Steps
    BY DEF Steps
  <2>2. QED  BY <2>1
<1>3. /\ From(WithAddress, 2) \in Seq(Steps) /\ Len(From(WithAddress, 2)) = 6 - 2 + 1
      /\ \A i \in 1 .. 6 - 2 + 1 : From(WithAddress, 2)[i] = WithAddress[2 + i - 1]
  <2>1. 2 \in 1 .. Len(WithAddress)
    BY <1>1
  <2>2. QED  BY <1>1, <2>1, FromIs
<1>4. /\ Len(From(WithAddress, 2)) = 5
      /\ \A i \in 1 .. 5 : From(WithAddress, 2)[i] = WithAddress[i + 1]
  BY <1>3
<1>5. \A i \in 1 .. 5 : WithAddress[i + 1] = s[i]
  BY DEF WithAddress
<1>6. From(WithAddress, 2) = s
  BY <1>2, <1>3, <1>4, <1>5, SeqEqual
<1>7. Head(s) = "loadCompany" /\ Tail(s) = AddressRest /\ s # <<>>
  BY DEF AddressRest
<1>8. AddressRest \in Seq(Steps)
  BY DEF AddressRest, Steps
<1>9. StepsOf(s) = {"loadCompany", "saveCompany", "createPart", "saveApplication"}
  BY DEF StepsOf
<1>10. StepsOf(AddressRest) = {"saveCompany", "createPart", "saveApplication"}
  BY DEF StepsOf, AddressRest
<1>11. WithAddress \in Plans("buyerInformation") /\ 2 \in 1 .. Len(WithAddress)
  BY <1>1 DEF Plans
<1>12. QED
  BY <1>2, <1>6, <1>7, <1>8, <1>9, <1>10, <1>11

(* What is left of the other one there.                                    *)
LEMMA AddressLeft ==
  ASSUME NEW q \in RequestType, Planned(q), q.rest # <<>>,
         Head(q.rest) = "loadCompany", q.op = "buyerInformation"
  PROVE  /\ "load" \notin StepsOf(q.rest)
         /\ {"loadCompany", "createPart", "saveApplication"} \subseteq StepsOf(q.rest)
         /\ StepsOf(q.rest) \subseteq {"loadCompany", "saveCompany", "createPart", "saveApplication"}
<1> DEFINE short == <<"load", "loadCompany", "createPart", "saveApplication">>
<1>1. q.op \in OperationNames
  BY SituatedHolds
<1>2. PICK p \in Plans(q.op) : \E k \in 1 .. Len(p) : q.rest = From(p, k)
  BY SituatedHolds
<1>3. PICK k \in 1 .. Len(p) : q.rest = From(p, k)
  BY <1>2
<1>4. p[k] = "loadCompany" /\ StepsOf(q.rest) = {p[j] : j \in k .. Len(p)}
  BY <1>1, <1>3, TakesOneStep
<1>5. p \in {short, WithAddress}
  <2>1. Programs("buyerInformation") = {short}
    BY Zenon DEF Programs
  <2>2. QED  BY <2>1 DEF Plans
<1>6. CASE p = short
  <2>1. Len(p) = 4 /\ p[1] = "load" /\ p[2] = "loadCompany" /\ p[3] = "createPart" /\ p[4] = "saveApplication"
    BY <1>6
  <2>2. k = 2
    BY <1>4, <2>1
  <2>3. \A j \in 2 .. 4 : j = 2 \/ j = 3 \/ j = 4
    OBVIOUS
  <2>4. QED  BY <1>4, <2>1, <2>2, <2>3
<1>7. CASE p = WithAddress
  <2>1. /\ Len(p) = 6 /\ p[1] = "load" /\ p[2] = "loadCompany" /\ p[3] = "saveCompany"
        /\ p[4] = "createPart" /\ p[5] = "saveApplication" /\ p[6] = "saveCompany"
    BY <1>7 DEF WithAddress
  <2>2. k = 2
    BY <1>4, <2>1
  <2>3. \A j \in 2 .. 6 : j = 2 \/ j = 3 \/ j = 4 \/ j = 5 \/ j = 6
    OBVIOUS
  <2>4. QED  BY <1>4, <2>1, <2>2, <2>3
<1>8. QED  BY <1>5, <1>6, <1>7

Readdressed(q, s) == s = [q EXCEPT !.rest = From(WithAddress, 2)]

(* A request that is at the second statement of the usual program could be *)
(* at that of the other.                                                   *)
LEMMA AddressOK ==
  ASSUME NEW C, NEW q \in RequestType, HandsOK(q, C), q.rest # <<>>,
         Head(q.rest) = "loadCompany", q.op = "buyerInformation",
         NEW s, Readdressed(q, s)
  PROVE  /\ s \in RequestType /\ HandsOK(s, C)
         /\ s.rest # <<>> /\ Head(s.rest) = "loadCompany" /\ Tail(s.rest) = AddressRest
         /\ s.op = q.op /\ s.app = q.app /\ s.copy = q.copy /\ s.held = q.held
         /\ s.part = q.part /\ s.lists = q.lists /\ s.listed = q.listed
         /\ s.read = q.read /\ s.changes = q.changes
<1>1. /\ "load" \notin StepsOf(q.rest)
      /\ {"loadCompany", "createPart", "saveApplication"} \subseteq StepsOf(q.rest)
      /\ StepsOf(q.rest) \subseteq {"loadCompany", "saveCompany", "createPart", "saveApplication"}
  BY AddressLeft DEF HandsOK
<1>2. /\ s \in RequestType /\ s.rest = From(WithAddress, 2)
      /\ s.op = q.op /\ s.app = q.app /\ s.copy = q.copy /\ s.held = q.held
      /\ s.part = q.part /\ s.lists = q.lists /\ s.listed = q.listed
      /\ s.read = q.read /\ s.changes = q.changes
  BY AddressIs DEF RequestType, Readdressed
<1>3. Planned(s)
  <2>1. s.op \in OperationNames /\ s.op = "buyerInformation"
    BY <1>2 DEF OperationNames, PartNames
  <2>2. QED  BY <1>2, <2>1, AddressIs DEF Planned
<1>4. ASSUME NEW rest \in Seq(Steps), "loadCompany" \in StepsOf(rest),
             StepsOf(rest) \subseteq {"loadCompany", "saveCompany", "createPart", "saveApplication"}
      PROVE  {f \in ListsOf(rest) : LoadOf(f) \notin StepsOf(rest)} = {}
  <2>1. \A step \in StepsOf(rest) : SavedLists(step) \subseteq {"company"}
    BY <1>4, SavedListsAre DEF Steps
  <2>2. ListsOf(rest) \subseteq {"company"}
    BY <2>1 DEF ListsOf
  <2>3. QED  BY <1>4, <2>2 DEF LoadOf
<1>5. InHand(s)
  <2>1. InHand(q) /\ q.rest \in Seq(Steps)
    BY DEF HandsOK, RequestType
  <2>2. q.lists = {}
    BY <1>1, <1>4, <2>1 DEF InHand
  <2>3. s.lists = {f \in ListsOf(s.rest) : LoadOf(f) \notin StepsOf(s.rest)}
    BY <1>2, <1>4, <2>2, AddressIs
  <2>4. HasLoaded(s.op, s.rest) /\ HasLoaded(q.op, q.rest)
    BY <1>1, <1>2, AddressIs DEF HasLoaded
  <2>5. "createPart" \in StepsOf(s.rest) /\ "createPart" \in StepsOf(q.rest)
    BY <1>1, <1>2, AddressIs
  <2>6. q.read = FALSE /\ q.changes = {}
    BY <2>1, NotReading DEF Saves
  <2>7. QED  BY <1>2, <2>1, <2>3, <2>4, <2>5, <2>6 DEF InHand
<1>6. IsAbout(s, C)
  BY <1>2 DEF HandsOK, IsAbout
<1>7. QED  BY <1>2, <1>3, <1>5, <1>6, AddressIs DEF HandsOK

-----------------------------------------------------------------------------
(* What each step does *)

(* What is left of a request that goes on, or nothing.                     *)
Kept(n, rest, p) ==
  \/ rest = <<>> /\ p = NoRequest
  \/ /\ rest # <<>> /\ p.rest = rest
     /\ p.op = n.op /\ p.app = n.app /\ p.part = n.part
     /\ p.read = n.read /\ p.changes = n.changes
     /\ \/ p.held = n.held /\ p.copy = n.copy
        \/ p.held = {} /\ p.copy = NewRow
     /\ p.lists \subseteq n.lists /\ \A f \in p.lists : p.listed[f] = n.listed[f]

(* A request keeps what it held, or forgets it.                            *)
LEMMA AfterIsKept ==
  ASSUME NEW n \in RequestType, NEW rest \in Seq(Steps)
  PROVE  Kept(n, rest, After(n, rest))
<1>1. CASE rest = <<>>
  BY <1>1 DEF Kept, After
<1>2. CASE rest # <<>>
  <2> DEFINE p == After(n, rest)
  <2>1. /\ p \in RequestType
        /\ p.op = n.op /\ p.app = n.app /\ p.rest = rest /\ p.part = n.part
        /\ p.read = n.read /\ p.changes = n.changes
        /\ p.held = IF "saveApplication" \in StepsOf(rest) THEN n.held ELSE {}
        /\ p.copy = IF "saveApplication" \in StepsOf(rest) THEN n.copy ELSE NewRow
        /\ p.lists = n.lists \cap ListsOf(rest)
        /\ p.listed = [f \in Lists |-> IF f \in p.lists THEN n.listed[f] ELSE {}]
    BY <1>2, AfterIs
  <2> HIDE DEF p
  <2>2. p.lists \subseteq Lists
    BY <2>1 DEF RequestType
  <2>3. QED  BY <1>2, <2>1, <2>2 DEF Kept, p
<1>3. QED  BY <1>1, <1>2

(* A request that has an application in hand is about one that was         *)
(* created.                                                                *)
LEMMA AppIsCreated ==
  ASSUME NEW C, NEW q \in RequestType, HandsOK(q, C), q.rest # <<>>,
         \/ Head(q.rest) \in {"load", "createPart", "invoice", "saveApplication"}
         \/ q.held # {}
         \/ q.part # 0
  PROVE  q.app \in C
<1>1. /\ q.op \in OperationNames
      /\ Situation(q.op, Head(q.rest), StepsOf(q.rest), StepsOf(Tail(q.rest)))
  BY SituatedHolds DEF HandsOK, Situated
<1>2. /\ q.held # {} => "saveApplication" \in StepsOf(q.rest)
      /\ q.part # 0 => q.op \in PartNames
  BY DEF HandsOK, InHand, HasLoaded
<1>3. q.op \notin CompanyOperations
  <2>1. CASE Head(q.rest) \in {"load", "createPart", "invoice", "saveApplication"}
    BY <1>1, <2>1, OpNames DEF Situation, CompanyOperations
  <2>2. CASE q.part # 0
    BY <1>2, <2>2, OpNames
  <2>3. CASE q.held # {}
    <3>1. PICK p \in Plans(q.op) : \E k \in 1 .. Len(p) : q.rest = From(p, k)
      BY SituatedHolds DEF HandsOK
    <3>2. PICK k \in 1 .. Len(p) : q.rest = From(p, k)
      BY <3>1
    <3>3. p \in Seq(Steps) /\ Composed(q.op, p)
      BY <1>1, PlansAreOrderly DEF Orderly
    <3>6. StepsOf(q.rest) = {p[j] : j \in k .. Len(p)}
      BY <1>1, <3>2, TakesOneStep
    <3>4. Occurs(p, "saveApplication")
      BY <1>2, <2>3, <3>3, <3>6, Relations
    <3>5. QED  BY <3>3, <3>4 DEF Composed
  <2>4. QED  BY <2>1, <2>2, <2>3
<1>4. QED  BY <1>1, <1>3 DEF HandsOK, IsAbout

(* The request of r, as n, goes on with the rest of its program. *)
Goes(r, n) ==
  \E p \in RequestType :
    /\ Kept(n, Tail(requests[r].rest), p) /\ HandsOK(p, created') /\ Notes(p, created')
    /\ requests' = [requests EXCEPT ![r] = p]

(* A statement that did what it may takes a request to one that is in      *)
(* order.                                                                  *)
LEMMA GoesOn ==
  ASSUME NEW r \in Requests, NEW q, q = requests[r], q \in RequestType, HandsOK(q, created),
         q.rest # <<>>, created \subseteq created', NEW n \in RequestType,
         Takes(q, n, created'), requests' = [requests EXCEPT ![r] = After(n, Tail(q.rest))]
  PROVE  Goes(r, n)
<1>1. HandsOK(q, created')
  BY HandsGrow
<1>2. /\ After(n, Tail(q.rest)) \in RequestType
      /\ HandsOK(After(n, Tail(q.rest)), created') /\ Notes(After(n, Tail(q.rest)), created')
  BY <1>1, AfterIsServed
<1>3. Tail(q.rest) \in Seq(Steps)
  BY SituatedHolds DEF HandsOK
<1>4. Kept(n, Tail(q.rest), After(n, Tail(q.rest)))
  BY <1>3, AfterIsKept
<1>5. QED  BY <1>2, <1>4 DEF Goes

(* Nothing of the request changes but what its step is about. *)
Same(q, n) ==
  n.op = q.op /\ n.part = q.part /\ n.rest = q.rest /\ n.read = FALSE /\ n.changes = {}

LoadsAs(q, row, n) ==
  /\ ~ RefusesPart(q.op, row) /\ ~ RefusesSubmission(q.op, row)
  /\ Same(q, n) /\ n.app = q.app /\ n.lists = q.lists /\ n.listed = q.listed
  /\ n.copy = Changed(q, row) /\ n.held = Columns \cup Loaded(q.op)

(* What loading does: the request ends, or goes on with the row it read.   *)
LEMMA LoadIs ==
  ASSUME TypedOK, NEW r \in Requests, Load(r)
  PROVE  \/ requests' = [requests EXCEPT ![r] = NoRequest]
         \/ \E n \in RequestType :
              LoadsAs(requests[r], rows[requests[r].app], n) /\ Goes(r, n)
<1> DEFINE q == requests[r]
           row == rows[q.app]
           n == [q EXCEPT !.copy = Changed(q, row), !.held = Columns \cup Loaded(q.op)]
<1>1. /\ q \in RequestType /\ HandsOK(q, created) /\ Notes(q, created)
      /\ q.rest # <<>> /\ Head(q.rest) = "load"
  BY AtIs DEF Load
<1>2. q.app \in created
  BY <1>1, AppIsCreated
<1>3. row \in Rows
  BY <1>2 DEF TypedOK, TablesOK
<1>4. n \in RequestType /\ Takes(q, n, created)
  <2> HIDE DEF q, row
  <2>1. QED  BY <1>1, <1>3, LoadTakes
<1>5. /\ n.rest = q.rest /\ n.op = q.op /\ n.app = q.app /\ n.part = q.part
      /\ n.read = q.read /\ n.changes = q.changes
      /\ n.lists = q.lists /\ n.listed = q.listed
      /\ n.copy = Changed(q, row) /\ n.held = Columns \cup Loaded(q.op)
  BY <1>1 DEF RequestType
<1>6. CASE RefusesPart(q.op, row) \/ RefusesSubmission(q.op, row)
  BY <1>6 DEF Load, Finish, Update
<1>7. CASE ~ (RefusesPart(q.op, row) \/ RefusesSubmission(q.op, row))
  <2>1. requests' = [requests EXCEPT ![r] = After(n, Tail(q.rest))]
    BY <1>5, <1>7 DEF Load, Proceed, Continue, Finish, Update, After
  <2>2. q.read = FALSE /\ q.changes = {}
    BY <1>1, NotReading DEF HandsOK, Saves
  <2>3. created' = created
    BY DEF Load, tables
  <2> HIDE DEF n
  <2>4. LoadsAs(q, row, n)
    BY <1>5, <1>7, <2>2 DEF LoadsAs, Same
  <2> HIDE DEF row
  <2>5. q = requests[r]
    OBVIOUS
  <2> HIDE DEF q
  <2>6. Goes(r, n)
    BY <1>1, <1>4, <2>1, <2>3, <2>5, GoesOn
  <2>7. QED  BY <1>4, <2>4, <2>6 DEF q, row
<1>8. QED  BY <1>6, <1>7

(* The list it loads, and what it does next: the rest of its program, or,  *)
(* if the company has no address yet, that of the other one.               *)
ListsAs(q, f, L, n) ==
  /\ n.lists = q.lists \cup {f} /\ n.listed = [q.listed EXCEPT ![f] = L]
  /\ n.op = q.op /\ n.app = q.app /\ n.part = q.part /\ n.copy = q.copy /\ n.held = q.held
  /\ n.read = FALSE /\ n.changes = {}

ListLoaded(r, f) ==
  \E n, p \in RequestType, rest \in Seq(Steps) :
    /\ ListsAs(requests[r], f, ListOf(f), n)
    /\ Kept(n, rest, p) /\ HandsOK(p, created) /\ Notes(p, created)
    /\ rest = Tail(requests[r].rest) \/ requests[r].op = "buyerInformation"
    /\ requests' = [requests EXCEPT ![r] = p]

(* What loading a list does to what is held.                               *)
LEMMA LoadListIs ==
  ASSUME TypedOK, NEW r \in Requests, NEW f \in Lists, At(r, LoadOf(f)),
         NEW n, n = WithList(requests[r], f),
         NEW q, q = requests[r]
  PROVE  /\ n \in RequestType /\ Takes(q, n, created) /\ n.rest = q.rest
         /\ ListsAs(q, f, ListOf(f), n)
<1> DEFINE L == ListOf(f)
<1>1. /\ q \in RequestType /\ HandsOK(q, created) /\ Notes(q, created)
      /\ q.rest # <<>> /\ Head(q.rest) = LoadOf(f)
  BY AtIs
<1>2. created \subseteq Applications /\ L \subseteq created
  BY DEF TypedOK, TablesOK, ListOf
<1>3. n = [q EXCEPT !.lists = @ \cup {f}, !.listed[f] = L]
  BY DEF WithList
<1> HIDE DEF L
<1>5. n = [q EXCEPT !.lists = q.lists \cup {f}, !.listed = [q.listed EXCEPT ![f] = L]]
  BY <1>1, <1>3 DEF RequestType
<1>4. n \in RequestType /\ Takes(q, n, created)
  <2>1. LoadsList(q, f, L, n)
    BY <1>5 DEF LoadsList
  <2>2. QED  BY <1>1, <1>2, <2>1, ListTakes
<1>6. /\ n.rest = q.rest /\ n.lists = q.lists \cup {f}
      /\ n.listed = [q.listed EXCEPT ![f] = L]
      /\ n.op = q.op /\ n.app = q.app /\ n.part = q.part /\ n.copy = q.copy /\ n.held = q.held
      /\ n.read = q.read /\ n.changes = q.changes
  BY <1>1, <1>5 DEF RequestType
<1>7. q.read = FALSE /\ q.changes = {}
  BY <1>1, NotReading DEF HandsOK, Saves, LoadOf
<1>8. QED  BY <1>4, <1>6, <1>7 DEF ListsAs, L

(* What loading the company does.                                          *)
LEMMA LoadCompanyIs ==
  ASSUME TypedOK, NEW r \in Requests, LoadCompany(r)
  PROVE  ListLoaded(r, "company")
<1> DEFINE q == requests[r]
           n == WithList(requests[r], "company")
<1>1. /\ q \in RequestType /\ HandsOK(q, created) /\ Notes(q, created)
      /\ q.rest # <<>> /\ Head(q.rest) = "loadCompany"
  BY AtIs DEF LoadCompany
<1>2. /\ n \in RequestType /\ Takes(q, n, created) /\ n.rest = q.rest
      /\ ListsAs(q, "company", ListOf("company"), n)
  <2>1. LoadOf("company") = "loadCompany" /\ "company" \in Lists
    BY DEF LoadOf, Lists
  <2> HIDE DEF q, n
  <2>2. q = requests[r] /\ n = WithList(requests[r], "company")
    BY DEF q, n
  <2>3. At(r, LoadOf("company"))
    BY <2>1 DEF LoadCompany
  <2>4. QED  BY <2>1, <2>2, <2>3, LoadListIs
<1>3. n.op = q.op
  BY <1>2 DEF ListsAs
<1>4. CASE ~ (n.op = "buyerInformation" /\ ~ addressed)
  <2>1. requests' = [requests EXCEPT ![r] = After(n, Tail(q.rest))]
    BY <1>2, <1>4 DEF LoadCompany, Proceed, Continue, Finish, Update, After
  <2> HIDE DEF q, n
  <2>2. /\ After(n, Tail(q.rest)) \in RequestType
        /\ HandsOK(After(n, Tail(q.rest)), created) /\ Notes(After(n, Tail(q.rest)), created)
    BY <1>1, <1>2, AfterIsServed
  <2>3. Tail(q.rest) \in Seq(Steps)
    BY <1>1, SituatedHolds DEF HandsOK
  <2>4. Kept(n, Tail(q.rest), After(n, Tail(q.rest)))
    BY <1>2, <2>3, AfterIsKept
  <2>5. QED  BY <1>2, <2>1, <2>2, <2>3, <2>4 DEF ListLoaded, q
<1>5. CASE n.op = "buyerInformation" /\ ~ addressed
  <2>1. requests' = [requests EXCEPT ![r] = After(n, AddressRest)]
    BY <1>5 DEF LoadCompany, Continue, Finish, Update, After, AddressRest
  <2> DEFINE s == [q EXCEPT !.rest = From(WithAddress, 2)]
             m == [n EXCEPT !.rest = From(WithAddress, 2)]
  <2>2. /\ s \in RequestType /\ HandsOK(s, created)
        /\ s.rest # <<>> /\ Head(s.rest) = "loadCompany" /\ Tail(s.rest) = AddressRest
        /\ s.op = q.op /\ s.app = q.app /\ s.copy = q.copy /\ s.held = q.held
        /\ s.part = q.part /\ s.lists = q.lists /\ s.listed = q.listed
        /\ s.read = q.read /\ s.changes = q.changes
    <3>1. Readdressed(q, s) /\ q.op = "buyerInformation"
      BY <1>3, <1>5 DEF Readdressed
    <3> HIDE DEF q, n, s
    <3>2. QED  BY <1>1, <3>1, AddressOK
  <2> HIDE DEF q, n
  <2>3. /\ m \in RequestType /\ m.rest = From(WithAddress, 2)
        /\ m.op = n.op /\ m.app = n.app /\ m.copy = n.copy /\ m.held = n.held
        /\ m.part = n.part /\ m.lists = n.lists /\ m.listed = n.listed
        /\ m.read = n.read /\ m.changes = n.changes
    BY <1>2, AddressIs DEF RequestType
  <2>4. s.rest = m.rest
    BY <1>1, <2>3 DEF RequestType
  <2> HIDE DEF s
  <2>5. Takes(s, m, created)
    <3>1. \A f \in Lists : m.listed[f] \subseteq created
      BY <1>2, <2>3 DEF Takes
    <3>2. /\ m.op = s.op /\ m.app = s.app /\ m.part = s.part /\ m.held = s.held
          /\ m.copy = s.copy /\ m.read = FALSE /\ m.changes = {}
          /\ m.lists = s.lists \cup {"company"}
      BY <1>2, <2>2, <2>3 DEF ListsAs
    <3> HIDE DEF m
    <3>3. QED  BY <2>2, <2>3, <2>4, <3>1, <3>2, KeepsTakes
  <2>6. After(n, AddressRest) = After(m, AddressRest)
    <3>1. [m EXCEPT !.rest = AddressRest] = [n EXCEPT !.rest = AddressRest]
      BY <1>2 DEF RequestType
    <3>2. QED  BY <3>1 DEF After
  <2> HIDE DEF m
  <2>7. /\ After(m, AddressRest) \in RequestType
        /\ HandsOK(After(m, AddressRest), created) /\ Notes(After(m, AddressRest), created)
    BY <2>2, <2>3, <2>5, AfterIsServed
  <2>8. AddressRest \in Seq(Steps)
    BY AddressIs
  <2>9. Kept(n, AddressRest, After(n, AddressRest))
    BY <1>2, <2>8, AfterIsKept
  <2>10. QED  BY <1>2, <1>3, <1>5, <2>1, <2>6, <2>7, <2>8, <2>9 DEF ListLoaded, q
<1>6. QED  BY <1>4, <1>5

(* What loading the supplier does.                                         *)
LEMMA LoadSupplierIs ==
  ASSUME TypedOK, NEW r \in Requests, LoadSupplier(r)
  PROVE  ListLoaded(r, "supplier")
<1> DEFINE q == requests[r]
           n == WithList(requests[r], "supplier")
<1>1. /\ q \in RequestType /\ HandsOK(q, created) /\ Notes(q, created)
      /\ q.rest # <<>> /\ Head(q.rest) = "loadSupplier"
  BY AtIs DEF LoadSupplier
<1>2. /\ n \in RequestType /\ Takes(q, n, created) /\ n.rest = q.rest
      /\ ListsAs(q, "supplier", ListOf("supplier"), n)
  <2>1. LoadOf("supplier") = "loadSupplier" /\ "supplier" \in Lists
    BY DEF LoadOf, Lists
  <2> HIDE DEF q, n
  <2>2. q = requests[r] /\ n = WithList(requests[r], "supplier")
    BY DEF q, n
  <2>3. At(r, LoadOf("supplier"))
    BY <2>1 DEF LoadSupplier
  <2>4. QED  BY <2>1, <2>2, <2>3, LoadListIs
<1>3. requests' = [requests EXCEPT ![r] = After(n, Tail(q.rest))]
  BY <1>2 DEF LoadSupplier, Proceed, Continue, Finish, Update, After
<1> HIDE DEF q, n
<1>4. /\ After(n, Tail(q.rest)) \in RequestType
      /\ HandsOK(After(n, Tail(q.rest)), created) /\ Notes(After(n, Tail(q.rest)), created)
  BY <1>1, <1>2, AfterIsServed
<1>5. Tail(q.rest) \in Seq(Steps)
  BY <1>1, SituatedHolds DEF HandsOK
<1>6. Kept(n, Tail(q.rest), After(n, Tail(q.rest)))
  BY <1>2, <1>5, AfterIsKept
<1>7. QED  BY <1>2, <1>3, <1>4, <1>5, <1>6 DEF ListLoaded, q

(* What looking for an active application does.                            *)
LEMMA CheckIs ==
  ASSUME TypedOK, NEW r \in Requests, CheckActive(r)
  PROVE  \/ requests' = [requests EXCEPT ![r] = NoRequest]
         \/ ~ HasActive /\ Goes(r, requests[r])
<1> DEFINE q == requests[r]
<1>1. /\ q \in RequestType /\ HandsOK(q, created) /\ Notes(q, created)
      /\ q.rest # <<>> /\ Head(q.rest) = "check"
  BY AtIs DEF CheckActive
<1>2. CASE HasActive
  BY <1>2 DEF CheckActive, Finish, Update
<1>3. CASE ~ HasActive
  <2>1. requests' = [requests EXCEPT ![r] = After(q, Tail(q.rest))]
    BY <1>3 DEF CheckActive, Proceed, Continue, Finish, Update, After
  <2>2. created' = created
    BY DEF CheckActive, tables
  <2>3. q = requests[r]
    OBVIOUS
  <2> HIDE DEF q
  <2>4. q.read = FALSE /\ q.changes = {}
    BY <1>1, NotReading DEF HandsOK, Saves
  <2>5. \A f \in Lists : q.listed[f] \subseteq created
    BY <1>1 DEF HandsOK, IsAbout
  <2>6. Takes(q, q, created)
    BY <1>1, <2>4, <2>5, KeepsTakes
  <2>7. Goes(r, q)
    BY <1>1, <2>1, <2>2, <2>3, <2>6, GoesOn
  <2>8. QED  BY <1>3, <2>7 DEF q
<1>4. QED  BY <1>2, <1>3

InsertsAs(q, a, n) ==
  /\ Same(q, n) /\ n.app = a /\ n.lists = q.lists /\ n.listed = q.listed
  /\ n.copy = q.copy /\ n.held = q.held

(* What creating an application does.                                      *)
LEMMA InsertIs ==
  ASSUME TypedOK, NEW r \in Requests, Insert(r)
  PROVE  \E a \in Applications \ created, n \in RequestType :
           created' = created \cup {a} /\ InsertsAs(requests[r], a, n) /\ Goes(r, n)
<1> DEFINE q == requests[r]
           a == NextOf(Applications \ created)
           n == [q EXCEPT !.app = a]
<1>1. /\ q \in RequestType /\ HandsOK(q, created) /\ Notes(q, created)
      /\ q.rest # <<>> /\ Head(q.rest) = "insert"
  BY AtIs DEF Insert
<1>2. created \subseteq Applications /\ created # Applications
  BY DEF TypedOK, TablesOK, Insert
<1>3. a \in Applications \ created
  BY <1>2 DEF NextOf
<1>4. /\ n.rest = q.rest /\ n.op = q.op /\ n.app = a /\ n.part = q.part
      /\ n.read = q.read /\ n.changes = q.changes
      /\ n.lists = q.lists /\ n.listed = q.listed
      /\ n.copy = q.copy /\ n.held = q.held
  BY <1>1 DEF RequestType
<1>5. created' = created \cup {a}
  BY DEF Insert
<1>6. requests' = [requests EXCEPT ![r] = After(n, Tail(q.rest))]
  BY <1>4 DEF Insert, Proceed, Continue, Finish, Update, After
<1>7. q = requests[r] /\ n = [q EXCEPT !.app = a]
  OBVIOUS
<1> HIDE DEF q, a, n
<1>8. n \in RequestType /\ Takes(q, n, created')
  BY <1>1, <1>2, <1>3, <1>5, <1>7, InsertTakes
<1>9. InsertsAs(q, a, n)
  BY <1>1, <1>4, NotReading DEF InsertsAs, Same, HandsOK, Saves
<1>10. Goes(r, n)
  BY <1>1, <1>5, <1>6, <1>7, <1>8, GoesOn
<1>11. QED  BY <1>3, <1>5, <1>7, <1>8, <1>9, <1>10

PartsAs(q, part, n) ==
  /\ n.op = q.op /\ n.rest = q.rest /\ n.read = FALSE /\ n.changes = {}
  /\ n.part = part /\ n.app = q.app /\ n.lists = q.lists /\ n.listed = q.listed
  /\ n.held = q.held
  /\ n.copy = IF q.op = "security" THEN q.copy ELSE [q.copy EXCEPT ![q.op] = part]

(* What creating a part does.                                              *)
LEMMA PartIs ==
  ASSUME TypedOK, NEW r \in Requests, CreatePart(r)
  PROVE  \E n \in RequestType :
           /\ PartsAs(requests[r], lastPart + 1, n) /\ Goes(r, n)
           /\ requests[r].op \in PartNames
<1> DEFINE q == requests[r]
           t == [q EXCEPT !.part = NewPart]
           n == IF t.op = "security" THEN t ELSE [t EXCEPT !.copy[t.op] = NewPart]
           m == IF q.op = "security" THEN [q EXCEPT !.part = NewPart]
                                     ELSE [q EXCEPT !.part = NewPart, !.copy[q.op] = NewPart]
<1>1. /\ q \in RequestType /\ HandsOK(q, created) /\ Notes(q, created)
      /\ q.rest # <<>> /\ Head(q.rest) = "createPart"
  BY AtIs DEF CreatePart
<1>2. lastPart \in Nat /\ NewPart = lastPart + 1 /\ NewPart \in Nat \ {0}
  BY DEF TypedOK, TablesOK, NewPart
<1>3. q.op \in PartNames
  BY <1>1, SituatedHolds DEF HandsOK, Situated, Situation
<1>4. n = m
  BY <1>1 DEF RequestType
<1>5. /\ n.rest = q.rest /\ n.op = q.op /\ n.app = q.app /\ n.part = NewPart
      /\ n.read = q.read /\ n.changes = q.changes
      /\ n.lists = q.lists /\ n.listed = q.listed /\ n.held = q.held
      /\ n.copy = IF q.op = "security" THEN q.copy ELSE [q.copy EXCEPT ![q.op] = NewPart]
  BY <1>1 DEF RequestType
<1>6. requests' = [requests EXCEPT ![r] = After(n, Tail(n.rest))]
  BY DEF CreatePart, Proceed, Continue, Finish, Update, After
<1>7. created' = created
  BY DEF CreatePart
<1>8. n \in RequestType /\ Takes(q, n, created)
  <2>1. MakesPart(q, NewPart, n)
    BY <1>4 DEF MakesPart
  <2> HIDE DEF q, n
  <2>2. QED  BY <1>1, <1>2, <2>1, PartTakes
<1>9. q = requests[r]
  OBVIOUS
<1> HIDE DEF q, n, m
<1>10. PartsAs(q, NewPart, n)
  BY <1>1, <1>5, NotReading DEF PartsAs, HandsOK, Saves
<1>11. Goes(r, n)
  BY <1>1, <1>5, <1>6, <1>7, <1>8, <1>9, GoesOn
<1>12. QED  BY <1>2, <1>3, <1>8, <1>9, <1>10, <1>11

InvoicesAs(q, n) ==
  /\ Same(q, n) /\ n.app = q.app /\ n.lists = q.lists /\ n.listed = q.listed /\ n.held = q.held
  /\ n.copy = [q.copy EXCEPT !["purchaseOrderId"] = "invoice", !["status"] = "IN_REVIEW"]

(* What sending an invoice does.                                           *)
LEMMA InvoiceIs ==
  ASSUME TypedOK, NEW r \in Requests, SendInvoice(r)
  PROVE  \E n \in RequestType :
           InvoicesAs(requests[r], n) /\ Goes(r, n) /\ requests[r].op = "card"
<1> DEFINE q == requests[r]
           n == [q EXCEPT !.copy.purchaseOrderId = "invoice", !.copy.status = "IN_REVIEW"]
           copy == [q.copy EXCEPT !["purchaseOrderId"] = "invoice", !["status"] = "IN_REVIEW"]
<1>1. /\ q \in RequestType /\ HandsOK(q, created) /\ Notes(q, created)
      /\ q.rest # <<>> /\ Head(q.rest) = "invoice"
  BY AtIs DEF SendInvoice
<1>2. q.op = "card"
  BY <1>1, SituatedHolds DEF HandsOK, Situated, Situation
<1>3. /\ n.rest = q.rest /\ n.op = q.op /\ n.app = q.app /\ n.part = q.part
      /\ n.read = q.read /\ n.changes = q.changes
      /\ n.lists = q.lists /\ n.listed = q.listed /\ n.held = q.held
      /\ n.copy = copy
  BY <1>1 DEF RequestType
<1>4. requests' = [requests EXCEPT ![r] = After(n, Tail(n.rest))]
  BY <1>3 DEF SendInvoice, Proceed, Continue, Finish, Update, After
<1>5. created' = created
  BY DEF SendInvoice
<1>6. n \in RequestType /\ Takes(q, n, created)
  <2>1. Invoiced(q, n)
    BY DEF Invoiced
  <2> HIDE DEF q, n
  <2>2. QED  BY <1>1, <2>1, InvoiceTakes
<1>7. q = requests[r]
  OBVIOUS
<1> HIDE DEF q, n
<1>8. InvoicesAs(q, n)
  BY <1>1, <1>3, NotReading DEF InvoicesAs, Same, HandsOK, Saves, copy
<1>9. Goes(r, n)
  BY <1>1, <1>3, <1>4, <1>5, <1>6, <1>7, GoesOn
<1>10. QED  BY <1>2, <1>6, <1>7, <1>8, <1>9

ReadAs(q, changes, n) ==
  /\ n.op = q.op /\ n.app = q.app /\ n.part = q.part /\ n.rest = q.rest
  /\ n.lists = q.lists /\ n.listed = q.listed /\ n.copy = q.copy /\ n.held = q.held
  /\ n.read = TRUE /\ n.changes = changes

Differ(q) == {w \in Saved(q) : Value(q, w[1], w[2]) # rows[w[1]][w[2]]}

(* What is known of a request that is saving.                              *)
LEMMA SaveIs ==
  ASSUME TypedOK, NEW r \in Requests, AtSave(r), NEW q, q = requests[r]
  PROVE  /\ q \in RequestType /\ HandsOK(q, created) /\ Notes(q, created)
         /\ q.rest # <<>> /\ Head(q.rest) \in Saves
         /\ q.op \in OperationNames /\ Situated(q) /\ Saved(q) = Compared(q, created)
<1>1. PICK step \in Saves : At(r, step)
  BY DEF AtSave, Saves
<1>2. /\ q \in RequestType /\ HandsOK(q, created) /\ Notes(q, created)
      /\ q.rest # <<>> /\ Head(q.rest) = step
  BY <1>1, AtIs
<1>3. Saved(q) = Compared(q, created)
  BY DEF Saved, Compared
<1>4. QED  BY <1>2, <1>3, SituatedHolds DEF HandsOK

(* What a save compares are fields of applications that were created.      *)
LEMMA ComparedIs ==
  ASSUME NEW C, NEW q \in RequestType, HandsOK(q, C), q.rest # <<>>, Head(q.rest) \in Saves
  PROVE  /\ Compared(q, C) \subseteq C \X Fields
         /\ Head(q.rest) = "saveApplication" => Compared(q, C) = {q.app} \X q.held /\ q.app \in C
         /\ Head(q.rest) # "saveApplication" => SavedLists(Head(q.rest)) \subseteq q.lists
         /\ SavedLists(Head(q.rest)) \subseteq Lists /\ q.held \subseteq Fields
         /\ SavedLists("saveApplication") = {}
<1>1. q.held \subseteq Fields /\ q.lists \subseteq Lists /\ Lists \subseteq Fields
  BY FieldNames DEF RequestType, Lists
<1>2. Head(q.rest) \in Steps /\ Situation(q.op, Head(q.rest), StepsOf(q.rest), StepsOf(Tail(q.rest)))
  BY SituatedHolds DEF HandsOK, Situated
<1>3. SavedLists(Head(q.rest)) \subseteq Lists /\ SavedLists("saveApplication") = {}
  BY <1>2, SavedListsAre DEF Steps
<1>4. Head(q.rest) = "saveApplication" => q.app \in C
  BY AppIsCreated
<1>5. ASSUME Head(q.rest) # "saveApplication", NEW f \in SavedLists(Head(q.rest))
      PROVE  f \in q.lists
  <2>1. q.lists = {g \in ListsOf(q.rest) : LoadOf(g) \notin StepsOf(q.rest)}
    BY DEF HandsOK, InHand
  <2>2. f \in ListsOf(q.rest)
    BY <1>2 DEF ListsOf, Situation
  <2>3. \/ f = "company" /\ Head(q.rest) \in {"saveCompany", "saveRelationship"}
        \/ f = "supplier" /\ Head(q.rest) \in {"saveSupplier", "saveRelationship"}
    BY <1>2, <1>5, SavedListsAre
  <2>4. LoadOf(f) \notin StepsOf(q.rest)
    BY <1>2, <2>3 DEF Situation, LoadOf
  <2>5. QED  BY <2>1, <2>2, <2>4
<1>6. QED  BY <1>1, <1>3, <1>4, <1>5 DEF Compared

(* What reading the rows does: it is written what differs, or nothing.     *)
LEMMA ReadIs ==
  ASSUME TypedOK, NEW r \in Requests, ReadRows(r)
  PROVE  \/ Differ(requests[r]) = {} /\ Goes(r, requests[r])
         \/ \E p \in RequestType :
              /\ ReadAs(requests[r], Differ(requests[r]), p)
              /\ HandsOK(p, created) /\ Notes(p, created)
              /\ requests' = [requests EXCEPT ![r] = p]
<1> DEFINE q == requests[r]
           p == [q EXCEPT !.read = TRUE, !.changes = Differ(q)]
<1>1. /\ q \in RequestType /\ HandsOK(q, created) /\ Notes(q, created)
      /\ q.rest # <<>> /\ Head(q.rest) \in Saves /\ Saved(q) = Compared(q, created)
  BY SaveIs DEF ReadRows
<1>2. q.read = FALSE /\ q.changes = {}
  BY <1>1, NotReading DEF ReadRows, HandsOK
<1>3. created' = created
  BY DEF ReadRows, tables
<1>4. CASE Differ(q) = {} /\ (SavesAddress(r) => addressed)
  <2>1. requests' = [requests EXCEPT ![r] = After(q, Tail(q.rest))]
    BY <1>4 DEF ReadRows, Differ, Proceed, Continue, Finish, Update, After
  <2>2. q = requests[r]
    OBVIOUS
  <2> HIDE DEF q
  <2>3. \A f \in Lists : q.listed[f] \subseteq created
    BY <1>1 DEF HandsOK, IsAbout
  <2>4. Takes(q, q, created)
    BY <1>1, <1>2, <2>3, KeepsTakes DEF Saves
  <2>5. Goes(r, q)
    BY <1>1, <1>3, <2>1, <2>2, <2>4, GoesOn
  <2>6. QED  BY <1>4, <2>5 DEF q
<1>5. CASE ~ (Differ(q) = {} /\ (SavesAddress(r) => addressed))
  <2>1. requests' = [requests EXCEPT ![r] = p]
    BY <1>5 DEF ReadRows, Differ, Update
  <2> HIDE DEF q
  <2>2. Differ(q) \subseteq Compared(q, created)
    BY <1>1 DEF Differ
  <2>3. created \subseteq Applications
    BY DEF TypedOK, TablesOK
  <2>4. Differ(q) \in SUBSET (Applications \X Fields)
    <3>1. Compared(q, created) \subseteq created \X Fields
      BY <1>1, ComparedIs
    <3>2. QED  BY <2>2, <2>3, <3>1
  <2>5. p \in RequestType /\ ReadAs(q, Differ(q), p)
    BY <1>1, <2>4 DEF RequestType, ReadAs
  <2> HIDE DEF p
  <2>6. HandsOK(p, created)
    <3>1. p # NoRequest /\ Planned(p)
      BY <1>1, <2>5, NoRequestIs, SituatedHolds DEF ReadAs, HandsOK, Planned
    <3>2. InHand(p)
      BY <1>1, <2>5 DEF HandsOK, InHand, ReadAs
    <3>3. IsAbout(p, created)
      BY <1>1, <2>5 DEF HandsOK, IsAbout, ReadAs
    <3>4. QED  BY <3>1, <3>2, <3>3 DEF HandsOK
  <2>7. Compared(p, created) = Compared(q, created)
    BY <2>5 DEF Compared, ReadAs
  <2>8. Notes(p, created)
    BY <2>2, <2>5, <2>7 DEF Notes, ReadAs
  <2>9. QED  BY <2>1, <2>5, <2>6, <2>8 DEF q
<1>6. QED  BY <1>4, <1>5

WritesAs(q, n) ==
  /\ Same(q, n) /\ n.app = q.app /\ n.lists = q.lists /\ n.listed = q.listed
  /\ n.copy = q.copy /\ n.held = q.held

Mixes(m, x, y) ==
  /\ m = [f \in Fields |-> m[f]]
  /\ \A f \in Fields : m[f] = x[f] \/ m[f] = y[f] \/ (f \in Lists /\ m[f] \in BOOLEAN)

(* A row made of two rows is a row.                                        *)
LEMMA MixedRow ==
  ASSUME NEW m, NEW x \in Rows, NEW y \in Rows, Mixes(m, x, y)
  PROVE  m \in Rows
<1> USE DEF Mixes
<1>1. \A f \in Fields : x[f] \in Values /\ y[f] \in Values
  BY DEF Rows
<1>2. BOOLEAN \subseteq Values
  BY DEF Values
<1>3. m \in [Fields -> Values]
  BY <1>1, <1>2
<1>4. m["status"] \in {"ACTIVE", "IN_REVIEW"}
  <2>1. m["status"] = x["status"] \/ m["status"] = y["status"]
    BY FieldNames DEF Lists
  <2>2. QED  BY <2>1 DEF Rows
<1>5. m["purchaseOrderId"] \in {"none", "transaction", "invoice"}
  <2>1. m["purchaseOrderId"] = x["purchaseOrderId"] \/ m["purchaseOrderId"] = y["purchaseOrderId"]
    BY FieldNames DEF Lists
  <2>2. QED  BY <2>1 DEF Rows
<1>6. ASSUME NEW p \in PartNames PROVE m[p] \in Nat
  <2>1. p \in Fields /\ p \notin Lists
    BY DEF Fields, PartNames, Lists
  <2>2. QED  BY <2>1 DEF Rows
<1>7. m["company"] \in BOOLEAN /\ m["supplier"] \in BOOLEAN
  <2>1. \A g \in {"company", "supplier"} : g \in Fields /\ x[g] \in BOOLEAN /\ y[g] \in BOOLEAN
    BY FieldNames DEF Rows
  <2>2. QED  BY <2>1
<1>8. QED  BY <1>3, <1>4, <1>5, <1>6, <1>7 DEF Rows

(* What is written of an application is of its type.                       *)
CopyWritten(q, a, f) ==
  /\ Head(q.rest) = "saveApplication" /\ a = q.app /\ f \in q.held
  /\ Value(q, a, f) = q.copy[f]

ListWritten(q, a, f) ==
  /\ f \in q.lists /\ f \in SavedLists(Head(q.rest)) /\ f \in Lists
  /\ Head(q.rest) # "saveApplication"
  /\ Value(q, a, f) = (a \in ToList(q, f)) /\ Value(q, a, f) \in BOOLEAN

(* What a save is to write of a list.                                      *)
LEMMA ListValueIs ==
  ASSUME NEW q, NEW a, NEW f, f \in SavedLists(Head(q.rest))
  PROVE  /\ Value(q, a, f) = (a \in ToList(q, f))
         /\ Value(q, a, f) \in BOOLEAN
<1>1. Value(q, a, f) = (a \in ToList(q, f))
  BY SMT DEF Value
<1>2. a \in ToList(q, f) => Value(q, a, f) = TRUE
  BY SMT DEF Value
<1>3. a \notin ToList(q, f) => Value(q, a, f) = FALSE
  BY SMT DEF Value
<1>4. Value(q, a, f) \in BOOLEAN
  BY <1>2, <1>3
<1>5. QED  BY <1>1, <1>4, Zenon

(* What a save compares is of the copy it holds, or of a list it holds.    *)
LEMMA ValueIs ==
  ASSUME NEW C, NEW q \in RequestType, HandsOK(q, C), q.rest # <<>>, Head(q.rest) \in Saves,
         NEW a, NEW f, <<a, f>> \in Compared(q, C)
  PROVE  /\ a \in C /\ f \in Fields
         /\ CopyWritten(q, a, f) \/ ListWritten(q, a, f)
<1>1. /\ Compared(q, C) \subseteq C \X Fields
      /\ Head(q.rest) = "saveApplication" => Compared(q, C) = {q.app} \X q.held /\ q.app \in C
      /\ Head(q.rest) # "saveApplication" => SavedLists(Head(q.rest)) \subseteq q.lists
      /\ SavedLists(Head(q.rest)) \subseteq Lists /\ SavedLists("saveApplication") = {}
  BY ComparedIs
<1>2. a \in C /\ f \in Fields
  BY <1>1
<1>3. CASE Head(q.rest) = "saveApplication"
  BY <1>1, <1>2, <1>3 DEF Value, CopyWritten
<1>4. CASE Head(q.rest) # "saveApplication"
  <2>1. f \in SavedLists(Head(q.rest))
    BY <1>4 DEF Compared
  <2>2. Value(q, a, f) = (a \in ToList(q, f))
    BY <2>1, ListValueIs, Zenon
  <2>3. Value(q, a, f) \in BOOLEAN
    BY <2>1, ListValueIs
  <2>4. f \in q.lists /\ f \in Lists
    BY <1>1, <1>4, <2>1
  <2>5. QED  BY <1>2, <1>4, <2>1, <2>2, <2>3, <2>4, Zenon DEF ListWritten
<1>5. QED  BY <1>3, <1>4, Zenon

(* What writing the rows does.                                             *)
LEMMA WriteIs ==
  ASSUME TypedOK, NEW r \in Requests, WriteRows(r)
  PROVE  /\ \E n \in RequestType : WritesAs(requests[r], n) /\ Goes(r, n)
         /\ rows' \in [Applications -> Rows]
         /\ \A a \in Applications, f \in Fields :
              rows'[a][f] = IF <<a, f>> \in requests[r].changes
                              THEN Value(requests[r], a, f) ELSE rows[a][f]
         /\ \A a \in Applications \ created : rows'[a] = NewRow
<1> DEFINE q == requests[r]
           n == [q EXCEPT !.read = FALSE, !.changes = {}]
<1>1. /\ q \in RequestType /\ HandsOK(q, created) /\ Notes(q, created)
      /\ q.rest # <<>> /\ Head(q.rest) \in Saves /\ q.read
  BY SaveIs DEF WriteRows
<1>2. created' = created
  BY DEF WriteRows
<1>3. \E m \in RequestType : WritesAs(q, m) /\ Goes(r, m)
  <2>1. requests' = [requests EXCEPT ![r] = After(n, Tail(n.rest))]
    BY DEF WriteRows, Proceed, Continue, Finish, Update, After
  <2>2. q = requests[r]
    OBVIOUS
  <2>3. /\ n \in RequestType /\ n.rest = q.rest /\ n.op = q.op /\ n.app = q.app
        /\ n.part = q.part /\ n.lists = q.lists /\ n.listed = q.listed
        /\ n.copy = q.copy /\ n.held = q.held /\ n.read = FALSE /\ n.changes = {}
    BY <1>1 DEF RequestType
  <2> HIDE DEF q, n
  <2>4. \A f \in Lists : n.listed[f] \subseteq created
    BY <1>1, <2>3 DEF HandsOK, IsAbout
  <2>5. Takes(q, n, created)
    BY <1>1, <2>3, <2>4, KeepsTakes DEF Saves
  <2>6. Goes(r, n)
    BY <1>1, <1>2, <2>1, <2>2, <2>3, <2>5, GoesOn
  <2>7. QED  BY <2>3, <2>6 DEF WritesAs, Same
<1>4. rows \in [Applications -> Rows] /\ created \subseteq Applications
      /\ \A a \in Applications \ created : rows[a] = NewRow
  BY DEF TypedOK, TablesOK
<1>5. rows' = [a \in Applications |-> [f \in Fields |->
                 IF <<a, f>> \in q.changes THEN Value(q, a, f) ELSE rows[a][f]]]
  BY DEF WriteRows
<1> HIDE DEF q, n
<1>6. \A a \in Applications, f \in Fields :
        rows'[a][f] = IF <<a, f>> \in q.changes THEN Value(q, a, f) ELSE rows[a][f]
  BY <1>5
<1>7. \A a \in Applications : rows'[a] = [f \in Fields |-> rows'[a][f]]
  BY <1>5
<1>8. q.changes \subseteq Compared(q, created)
  BY <1>1 DEF Notes
<1>9. ASSUME NEW a \in Applications PROVE rows'[a] \in Rows
  <2>1. rows[a] \in Rows /\ q.copy \in Rows
    BY <1>1, <1>4 DEF RequestType
  <2>2. ASSUME NEW f \in Fields
        PROVE  rows'[a][f] = rows[a][f] \/ rows'[a][f] = q.copy[f] \/ (f \in Lists /\ rows'[a][f] \in BOOLEAN)
    <3>1. CASE <<a, f>> \notin q.changes
      BY <1>6, <3>1
    <3>2. CASE <<a, f>> \in q.changes
      <4>1. <<a, f>> \in Compared(q, created)
        BY <1>8, <3>2
      <4>5. CopyWritten(q, a, f) \/ ListWritten(q, a, f)
        BY <1>1, <4>1, ValueIs
      <4>2. Value(q, a, f) = q.copy[f] \/ (f \in Lists /\ Value(q, a, f) \in BOOLEAN)
        BY <4>5, Zenon DEF CopyWritten, ListWritten
      <4>3. rows'[a][f] = Value(q, a, f)
        BY <1>6, <3>2
      <4>4. QED  BY <4>2, <4>3, Zenon
    <3>3. QED  BY <3>1, <3>2
  <2>3. Mixes(rows'[a], rows[a], q.copy)
    BY <1>7, <2>2, Zenon DEF Mixes
  <2>4. QED  BY <2>1, <2>3, MixedRow
<1>10. rows' \in [Applications -> Rows]
  BY <1>5, <1>9
<1>11. ASSUME NEW a \in Applications \ created PROVE rows'[a] = NewRow
  <2>1. \A f \in Fields : <<a, f>> \notin q.changes
    <3>1. Compared(q, created) \subseteq created \X Fields
      BY <1>1, ComparedIs
    <3>2. QED  BY <1>8, <3>1
  <2>2. \A f \in Fields : rows'[a][f] = NewRow[f]
    BY <1>4, <1>6, <2>1
  <2>3. NewRow = [f \in Fields |-> NewRow[f]]
    BY NewRowIs DEF Rows
  <2>4. QED  BY <1>7, <2>2, <2>3
<1>12. QED  BY <1>3, <1>6, <1>10, <1>11 DEF q

-----------------------------------------------------------------------------
(* Types *)

(* The parts of the first application are numbered.                        *)
Numbering == CHOOSE number \in [PartNames -> 1 .. Cardinality(PartNames)] :
               \A p, q \in PartNames : number[p] = number[q] => p = q

(* The parts that are filled in at first have numbers of their own.        *)
LEMMA NumberingIs ==
  /\ Cardinality(PartNames) = 4
  /\ Numbering \in [PartNames -> 1 .. 4]
  /\ \A p, q \in PartNames : Numbering[p] = Numbering[q] => p = q
<1> DEFINE number == [p \in PartNames |-> IF p = "buyerInformation" THEN 1
                                          ELSE IF p = "paymentTerms" THEN 2
                                          ELSE IF p = "orderDetails" THEN 3 ELSE 4]
<1>1. Cardinality(PartNames) = 4
  <2>1. /\ IsFiniteSet({}) /\ Cardinality({}) = 0
    BY FS_EmptySet
  <2>2. /\ IsFiniteSet({} \cup {"buyerInformation"})
        /\ Cardinality({} \cup {"buyerInformation"}) = 1
    BY <2>1, FS_AddElement
  <2>3. /\ IsFiniteSet(({} \cup {"buyerInformation"}) \cup {"paymentTerms"})
        /\ Cardinality(({} \cup {"buyerInformation"}) \cup {"paymentTerms"}) = 2
    BY <2>2, FS_AddElement
  <2>4. /\ IsFiniteSet((({} \cup {"buyerInformation"}) \cup {"paymentTerms"}) \cup {"orderDetails"})
        /\ Cardinality((({} \cup {"buyerInformation"}) \cup {"paymentTerms"}) \cup {"orderDetails"}) = 3
    BY <2>3, FS_AddElement
  <2>5. Cardinality(((({} \cup {"buyerInformation"}) \cup {"paymentTerms"}) \cup {"orderDetails"})
                      \cup {"security"}) = 4
    BY <2>4, FS_AddElement
  <2>6. PartNames = ((({} \cup {"buyerInformation"}) \cup {"paymentTerms"}) \cup {"orderDetails"})
                      \cup {"security"}
    BY DEF PartNames
  <2>7. QED  BY <2>5, <2>6
<1>2. number \in [PartNames -> 1 .. 4]
  OBVIOUS
<1>3. \A p, q \in PartNames : number[p] = number[q] => p = q
  BY DEF PartNames
<1>4. QED  BY <1>1, <1>2, <1>3 DEF Numbering

(* The row of the first application.                                       *)
LEMMA FirstRowIs ==
  ASSUME NEW filling \in SUBSET (PartNames \cup {"supplier"})
  PROVE  /\ FirstRow(filling) \in Rows
         /\ FirstRow(filling)["company"] = TRUE
         /\ FirstRow(filling)["status"] = "ACTIVE"
         /\ \A p \in PartNames :
              FirstRow(filling)[p] = IF p \in filling THEN Numbering[p] ELSE 0
<1> DEFINE row == FirstRow(filling)
<1>1. row = [f \in Fields |-> CASE f = "company"              -> TRUE
                                [] f = "supplier"             -> f \in filling
                                [] f \in PartNames \cap filling -> Numbering[f]
                                [] OTHER                      -> NewRow[f]]
  BY Zenon DEF FirstRow, Numbering
<1> HIDE DEF row
<1>2. row["company"] = TRUE
  BY <1>1, FieldNames, Zenon DEF PartNames
<1>3. row["supplier"] = ("supplier" \in filling)
  BY <1>1, FieldNames, Zenon DEF PartNames
<1>4. row["supplier"] \in BOOLEAN
  BY <1>3
<1>5. row["status"] = "ACTIVE"
  BY <1>1, FieldNames, NewRowIs, Zenon DEF PartNames
<1>6. row["purchaseOrderId"] = NewRow["purchaseOrderId"]
  BY <1>1, FieldNames, Zenon DEF PartNames
<1>7. ASSUME NEW p \in PartNames, p \in filling PROVE row[p] = Numbering[p]
  BY <1>1, <1>7, FieldNames, Zenon DEF PartNames
<1>8. ASSUME NEW p \in PartNames, p \notin filling PROVE row[p] = NewRow[p]
  BY <1>1, <1>8, FieldNames, Zenon DEF PartNames
<1>9. \A p \in PartNames : row[p] = IF p \in filling THEN Numbering[p] ELSE 0
  BY <1>7, <1>8, NewRowIs
<1>10. \A p \in PartNames : row[p] \in Nat
  BY <1>9, NumberingIs
<1>11. row \in [Fields -> Values]
  <2>1. ASSUME NEW f \in Fields PROVE row[f] \in Values
    <3>1. NewRow["purchaseOrderId"] \in {"none", "transaction", "invoice"}
      BY NewRowIs DEF Rows
    <3>2. f \in {"status", "purchaseOrderId", "company", "supplier"} \/ f \in PartNames
      BY FieldNames DEF PartNames
    <3>3. QED  BY <1>2, <1>4, <1>5, <1>6, <1>10, <3>1, <3>2 DEF Values
  <2>2. QED  BY <1>1, <2>1
<1>12. row \in Rows
  BY <1>2, <1>4, <1>5, <1>6, <1>10, <1>11, NewRowIs DEF Rows
<1>13. QED  BY <1>2, <1>5, <1>9, <1>12 DEF row

(* At first everything has its type and is in order.                       *)
LEMMA FirstTyped == Init => TypedOK
<1> SUFFICES ASSUME Init PROVE TypedOK
  OBVIOUS
<1>1. /\ addressed = FALSE /\ lastPart = 4 /\ invoices = [a \in Applications |-> 0]
      /\ requests = [r \in Requests |-> NoRequest]
      /\ received = 0 /\ faults = 0 /\ exposed = {}
  BY NumberingIs DEF Init
<1>2. created \subseteq Applications /\ rows \in [Applications -> Rows]
      /\ \A a \in Applications \ created : rows[a] = NewRow
  <2>1. CASE created = {} /\ rows = [a \in Applications |-> NewRow]
    BY <2>1, NewRowIs
  <2>2. ASSUME NEW a \in {NextOf(Applications)}, NEW filling \in Fillings,
               created = {a},
               rows = [b \in Applications |-> IF b = a THEN FirstRow(filling) ELSE NewRow]
        PROVE  created \subseteq Applications /\ rows \in [Applications -> Rows]
               /\ \A b \in Applications \ created : rows[b] = NewRow
    <3>1. a \in Applications
      BY ApplicationsAssumption DEF NextOf
    <3>2. FirstRow(filling) \in Rows /\ NewRow \in Rows
      BY ApplicationsAssumption, FirstRowIs, NewRowIs
    <3>3. QED  BY <2>2, <3>1, <3>2
  <2>3. QED  BY <2>1, <2>2 DEF Init
<1>3. \A r \in Requests : requests[r] = NoRequest
  BY <1>1
<1>4. Served
  BY <1>3, IdleIsServed DEF Served
<1>5. MaxRequests \in Nat /\ MaxFaults \in Nat
  BY ApplicationsAssumption
<1>6. TablesOK
  <2>1. addressed \in BOOLEAN /\ lastPart \in Nat /\ exposed \subseteq Applications \X Fields
    BY <1>1
  <2>2. invoices \in [Applications -> Nat]
    BY <1>1
  <2>3. requests \in [Requests -> RequestType]
    BY <1>1, NoRequestIs
  <2>4. received \in 0 .. MaxRequests /\ faults \in 0 .. MaxFaults
    BY <1>1, <1>5
  <2>5. QED  BY <1>2, <2>1, <2>2, <2>3, <2>4 DEF TablesOK
<1>7. QED  BY <1>4, <1>6 DEF TypedOK

(* A request that goes on leaves all requests in order.                    *)
LEMMA GoesServed ==
  ASSUME TypedOK, created \subseteq created', NEW r \in Requests, NEW n, Goes(r, n)
  PROVE  Served' /\ requests' \in [Requests -> RequestType]
<1>1. PICK p \in RequestType :
        /\ HandsOK(p, created') /\ Notes(p, created')
        /\ requests' = [requests EXCEPT ![r] = p]
  BY DEF Goes
<1>2. QED  BY <1>1, ServesOne

(* So does one that ends.                                                  *)
LEMMA EndsServed ==
  ASSUME TypedOK, created' = created, NEW r \in Requests,
         requests' = [requests EXCEPT ![r] = NoRequest]
  PROVE  Served' /\ requests' \in [Requests -> RequestType]
<1>1. /\ NoRequest \in RequestType /\ HandsOK(NoRequest, created')
      /\ Notes(NoRequest, created')
  BY IdleIsServed
<1>2. QED  BY <1>1, ServesOne

(* So does one that loaded a list.                                         *)
LEMMA ListServed ==
  ASSUME TypedOK, created' = created, NEW r \in Requests, NEW f, ListLoaded(r, f)
  PROVE  Served' /\ requests' \in [Requests -> RequestType]
<1>1. PICK p \in RequestType :
        /\ HandsOK(p, created) /\ Notes(p, created)
        /\ requests' = [requests EXCEPT ![r] = p]
  BY DEF ListLoaded
<1>2. QED  BY <1>1, ServesOne

(* The tables and the bounds stay of their types.                          *)
LEMMA TablesStay ==
  ASSUME TypedOK, UNCHANGED <<created, rows, addressed, lastPart, invoices, received, faults, exposed>>,
         Served', requests' \in [Requests -> RequestType]
  PROVE  TypedOK'
  BY DEF TypedOK, TablesOK

Begins(p, op, a) ==
  /\ p.op = op /\ p.app = a /\ p.held = {} /\ p.copy = NewRow /\ p.part = 0
  /\ p.lists = {} /\ p.read = FALSE /\ p.changes = {} /\ p.rest \in Programs(op)

(* What serving a request does.                                            *)
LEMMA ServeIs ==
  ASSUME TypedOK, NEW r \in Requests, NEW op \in Operations, NEW a,
         a \in created \cup {NoApplication}, op \notin CompanyOperations => a \in created,
         Serve(r, op, a)
  PROVE  \E p \in RequestType :
           /\ requests' = [requests EXCEPT ![r] = p]
           /\ HandsOK(p, created) /\ Notes(p, created)
           /\ Begins(p, op, a)
<1>1. PICK program \in Programs(op) :
        requests' = [requests EXCEPT ![r] = [NoRequest EXCEPT !.op = op, !.app = a, !.rest = program]]
  BY DEF Serve, Update
<1> DEFINE p == [NoRequest EXCEPT !.op = op, !.app = a, !.rest = program]
<1>2. op \in OperationNames
  BY ApplicationsAssumption
<1>3. program \in Plans(op)
  BY DEF Plans
<1>4. program # <<>>
  BY <1>2, <1>3, PlansAreOrderly DEF Orderly
<1>5. a \in Applications \cup {NoApplication}
  BY DEF TypedOK, TablesOK
<1>6. p = [NoRequest EXCEPT !.op = op, !.app = a, !.rest = program]
  OBVIOUS
<1>7. /\ p.op = op /\ p.app = a /\ p.rest = program
      /\ p.copy = NewRow /\ p.held = {} /\ p.part = 0
      /\ p.lists = {} /\ p.read = FALSE /\ p.changes = {}
  BY NoRequestIs DEF RequestType
<1>8. requests' = [requests EXCEPT ![r] = p]
  BY <1>1
<1> HIDE DEF p
<1>9. p \in RequestType /\ HandsOK(p, created) /\ Notes(p, created)
  BY <1>2, <1>3, <1>4, <1>5, <1>6, BeginsOK
<1>11. Begins(p, op, a)
  BY <1>7 DEF Begins
<1>10. QED  BY <1>8, <1>9, <1>11

(* Serving one keeps everything in order.                                  *)
LEMMA ServeTyped ==
  ASSUME TypedOK, NEW r \in Requests, NEW op \in Operations, NEW a,
         a \in created \cup {NoApplication}, op \notin CompanyOperations => a \in created,
         Serve(r, op, a)
  PROVE  TypedOK'
<1>1. PICK p \in RequestType :
        /\ requests' = [requests EXCEPT ![r] = p]
        /\ HandsOK(p, created) /\ Notes(p, created)
  BY ServeIs
<1>2. /\ UNCHANGED <<created, rows, addressed, lastPart, invoices, faults, exposed>>
      /\ received < MaxRequests /\ received' = received + 1
  BY DEF Serve, tables
<1>3. Served' /\ requests' \in [Requests -> RequestType]
  BY <1>1, <1>2, ServesOne
<1>4. received' \in 0 .. MaxRequests
  BY <1>2, ApplicationsAssumption DEF TypedOK, TablesOK
<1>5. QED  BY <1>2, <1>3, <1>4 DEF TypedOK, TablesOK

(* What is asked for.                                                      *)
LEMMA ReceiveIs ==
  ASSUME NEW r \in Requests, Receive(r) \/ ReceiveForCompany(r)
  PROVE  \E op \in Operations, a \in created \cup {NoApplication} :
           /\ op \notin CompanyOperations => a \in created
           /\ op \in CompanyOperations => a = NoApplication
           /\ Serve(r, op, a)
  BY DEF Receive, ReceiveForCompany

(* A step of a request keeps everything in order.                          *)
LEMMA StepTyped ==
  ASSUME TypedOK, NEW r \in Requests, Step(r)
  PROVE  TypedOK'
<1>1. CASE Load(r)
  <2>1. UNCHANGED <<created, rows, addressed, lastPart, invoices, received, faults, exposed>>
    BY <1>1 DEF Load, tables, bounds
  <2>2. Served' /\ requests' \in [Requests -> RequestType]
    BY <1>1, <2>1, LoadIs, GoesServed, EndsServed
  <2>3. QED  BY <2>1, <2>2, TablesStay
<1>2. CASE LoadCompany(r)
  <2>1. UNCHANGED <<created, rows, addressed, lastPart, invoices, received, faults, exposed>>
    BY <1>2 DEF LoadCompany, tables, bounds
  <2>2. QED  BY <1>2, <2>1, LoadCompanyIs, ListServed, TablesStay
<1>3. CASE LoadSupplier(r)
  <2>1. UNCHANGED <<created, rows, addressed, lastPart, invoices, received, faults, exposed>>
    BY <1>3 DEF LoadSupplier, tables, bounds
  <2>2. QED  BY <1>3, <2>1, LoadSupplierIs, ListServed, TablesStay
<1>4. CASE CheckActive(r)
  <2>1. UNCHANGED <<created, rows, addressed, lastPart, invoices, received, faults, exposed>>
    BY <1>4 DEF CheckActive, tables, bounds
  <2>2. Served' /\ requests' \in [Requests -> RequestType]
    BY <1>4, <2>1, CheckIs, GoesServed, EndsServed
  <2>3. QED  BY <2>1, <2>2, TablesStay
<1>5. CASE Insert(r)
  <2>1. UNCHANGED <<rows, addressed, lastPart, invoices, received, faults, exposed>>
    BY <1>5 DEF Insert, bounds
  <2>2. PICK a \in Applications \ created, n \in RequestType :
          created' = created \cup {a} /\ Goes(r, n)
    BY <1>5, InsertIs
  <2>3. Served' /\ requests' \in [Requests -> RequestType]
    BY <2>2, GoesServed
  <2>4. QED  BY <2>1, <2>2, <2>3 DEF TypedOK, TablesOK
<1>6. CASE CreatePart(r)
  <2>1. UNCHANGED <<created, rows, addressed, invoices, received, faults, exposed>>
        /\ lastPart' = lastPart + 1
    BY <1>6 DEF CreatePart, bounds, NewPart
  <2>2. PICK n \in RequestType : Goes(r, n)
    BY <1>6, PartIs
  <2>3. Served' /\ requests' \in [Requests -> RequestType]
    BY <2>1, <2>2, GoesServed
  <2>4. QED  BY <2>1, <2>3 DEF TypedOK, TablesOK
<1>7. CASE SendInvoice(r)
  <2>1. UNCHANGED <<created, rows, addressed, lastPart, received, faults, exposed>>
        /\ invoices' = [invoices EXCEPT ![requests[r].app] = @ + 1]
    BY <1>7 DEF SendInvoice, bounds
  <2>2. PICK n \in RequestType : Goes(r, n)
    BY <1>7, InvoiceIs
  <2>3. Served' /\ requests' \in [Requests -> RequestType]
    BY <2>1, <2>2, GoesServed
  <2>4. invoices' \in [Applications -> Nat]
    <3>1. At(r, "invoice")
      BY <1>7 DEF SendInvoice
    <3>2. requests[r].app \in created
      BY <3>1, AtIs, AppIsCreated
    <3>3. invoices \in [Applications -> Nat] /\ created \subseteq Applications
      BY DEF TypedOK, TablesOK
    <3>4. QED  BY <2>1, <3>2, <3>3
  <2>5. QED  BY <2>1, <2>3, <2>4 DEF TypedOK, TablesOK
<1>8. CASE ReadRows(r)
  <2>1. UNCHANGED <<created, rows, addressed, lastPart, invoices, received, faults, exposed>>
    BY <1>8 DEF ReadRows, tables, bounds
  <2>2. CASE Goes(r, requests[r])
    BY <2>1, <2>2, GoesServed, TablesStay
  <2>3. CASE ~ Goes(r, requests[r])
    <3>1. PICK p \in RequestType :
            /\ HandsOK(p, created) /\ Notes(p, created)
            /\ requests' = [requests EXCEPT ![r] = p]
      BY <1>8, <2>3, ReadIs
    <3>2. QED  BY <2>1, <3>1, ServesOne, TablesStay
  <2>4. QED  BY <2>2, <2>3
<1>9. CASE WriteRows(r)
  <2>1. UNCHANGED <<created, lastPart, invoices, received, faults>>
        /\ addressed' = (addressed \/ SavesAddress(r))
        /\ exposed' = exposed \cup (requests[r].changes \cap HeldBy(Requests \ {r}))
    BY <1>9, Zenon DEF WriteRows, bounds
  <2>2. /\ \E n \in RequestType : Goes(r, n)
        /\ rows' \in [Applications -> Rows]
        /\ \A a \in Applications \ created : rows'[a] = NewRow
    BY <1>9, WriteIs
  <2>3. Served' /\ requests' \in [Requests -> RequestType]
    BY <2>1, <2>2, GoesServed
  <2>4. addressed' \in BOOLEAN
    BY <2>1, Zenon
  <2>5. exposed' \subseteq Applications \X Fields
    BY <2>1 DEF TypedOK, TablesOK, RequestType
  <2>6. QED  BY <2>1, <2>2, <2>3, <2>4, <2>5 DEF TypedOK, TablesOK
<1>10. QED
  BY <1>1, <1>2, <1>3, <1>4, <1>5, <1>6, <1>7, <1>8, <1>9 DEF Step

(* So does a failure.                                                      *)
LEMMA FaultTyped ==
  ASSUME TypedOK, Fault
  PROVE  TypedOK'
<1>1. faults' \in 0 .. MaxFaults /\ received' = received
  BY ApplicationsAssumption DEF Fault, TypedOK, TablesOK
<1>2. UNCHANGED <<created, rows, addressed, lastPart, invoices>>
      /\ exposed' \subseteq Applications \X Fields
  BY DEF Fault, Crash, StripeFails, StatementFails, tables, HeldBy, TypedOK, TablesOK
<1>3. Served' /\ requests' \in [Requests -> RequestType]
  <2>1. CASE Crash
    <3>1. requests' = [r \in Requests |-> NoRequest]
      BY <2>1 DEF Crash
    <3>2. \A r \in Requests : requests'[r] = NoRequest
      BY <3>1
    <3>3. QED  BY <3>1, <3>2, IdleIsServed DEF Served
  <2>2. ASSUME NEW r \in Requests, StripeFails(r) \/ StatementFails(r)
        PROVE  Served' /\ requests' \in [Requests -> RequestType]
    <3>1. requests' = [requests EXCEPT ![r] = NoRequest]
      BY <2>2 DEF StripeFails, StatementFails, Finish, Update
    <3>2. QED  BY <1>2, <3>1, EndsServed
  <2>3. QED  BY <2>1, <2>2 DEF Fault
<1>4. QED  BY <1>1, <1>2, <1>3 DEF TypedOK, TablesOK

(* So does every step.                                                     *)
LEMMA NextTyped ==
  ASSUME TypedOK, [Next]_vars
  PROVE  TypedOK'
<1>1. CASE UNCHANGED vars
  <2>1. UNCHANGED <<created, rows, addressed, lastPart, invoices, requests, received, faults, exposed>>
    BY <1>1 DEF vars, tables, bounds
  <2>2. QED  BY <2>1 DEF TypedOK, TablesOK, Served
<1>2. ASSUME NEW r \in Requests, Receive(r) \/ ReceiveForCompany(r) PROVE TypedOK'
  BY <1>2, ReceiveIs, ServeTyped
<1>3. ASSUME NEW r \in Requests, Step(r) PROVE TypedOK'
  BY <1>3, StepTyped
<1>4. CASE Fault
  BY <1>4, FaultTyped
<1>5. QED  BY <1>1, <1>2, <1>3, <1>4 DEF Next

(* Every row and every request is of its type, and a request has in hand    *)
(* what the statements it has left call for.                               *)
THEOREM RequestsInvariant == Spec => []TypedOK
<1>1. TypedOK /\ [Next]_vars => TypedOK'
  BY NextTyped
<1>2. QED  BY <1>1, FirstTyped, PTL DEF Spec

-----------------------------------------------------------------------------
(* The owners of parts *)

(* The rows of parts belong to one part of one application each.           *)
LEMMA NewRowBelongs ==
  ASSUME NEW a, NEW owner
  PROVE  Belong(NewRow, a, owner)
  BY NewRowIs DEF Belong

(* A request that is not served holds no part.                             *)
LEMMA IdleIsMine ==
  ASSUME NEW owner
  PROVE  Mine(NoRequest, owner)
  BY NoRequestIs, NewRowBelongs DEF Mine

(* What a request keeps of its parts is its own.                           *)
LEMMA KeptIsMine ==
  ASSUME NEW owner, NEW n, NEW rest, NEW p, Mine(n, owner), Kept(n, rest, p)
  PROVE  Mine(p, owner)
<1>1. CASE p = NoRequest
  BY <1>1, IdleIsMine
<1>2. CASE p # NoRequest
  <2>1. p.op = n.op /\ p.app = n.app /\ p.part = n.part
        /\ \/ p.held = n.held /\ p.copy = n.copy
           \/ p.held = {} /\ p.copy = NewRow
    BY <1>2 DEF Kept
  <2>2. QED  BY <2>1, NewRowBelongs DEF Mine
<1>3. QED  BY <1>1, <1>2

(* One request is replaced.                                                *)
LEMMA MineOne ==
  ASSUME TypedOK, NEW owner, Owned(owner), rows' = rows, NEW r \in Requests, NEW p,
         requests' = [requests EXCEPT ![r] = p], Mine(p, owner)
  PROVE  /\ \A a \in Applications : Belong(rows'[a], a, owner)
         /\ \A s \in Requests : Mine(requests'[s], owner)
<1>1. requests \in [Requests -> RequestType]
  BY DEF TypedOK, TablesOK
<1>2. ASSUME NEW s \in Requests PROVE Mine(requests'[s], owner)
  <2>1. CASE s = r
    BY <1>1, <2>1
  <2>2. CASE s # r
    BY <1>1, <2>2 DEF Owned
  <2>3. QED  BY <2>1, <2>2
<1>3. QED  BY <1>2 DEF Owned

(* A request that goes on with what it owns leaves the owners as they are. *)
LEMMA GoesMine ==
  ASSUME TypedOK, NEW owner, Owned(owner), rows' = rows, NEW r \in Requests, NEW n,
         Goes(r, n), Mine(n, owner)
  PROVE  /\ \A a \in Applications : Belong(rows'[a], a, owner)
         /\ \A s \in Requests : Mine(requests'[s], owner)
<1>1. PICK p : Kept(n, Tail(requests[r].rest), p) /\ requests' = [requests EXCEPT ![r] = p]
  BY DEF Goes
<1>2. Mine(p, owner)
  BY <1>1, KeptIsMine
<1>3. QED  BY <1>1, <1>2, MineOne

Owner(owner) == owner \in [1 .. lastPart -> Applications \X PartNames] /\ Owned(owner)

(* The owners can stay if all still belongs to them.                       *)
LEMMA OwnerStays ==
  ASSUME NEW owner, Owner(owner), lastPart' = lastPart,
         \A a \in Applications : Belong(rows'[a], a, owner),
         \A s \in Requests : Mine(requests'[s], owner)
  PROVE  PartsOwned'
<1>1. Owned(owner)'
  BY DEF Owned
<1>2. QED  BY <1>1 DEF Owner, PartsOwned

(* A part that is created belongs to the request's application.            *)
Extends(owner, wider) == \A v \in DOMAIN owner : v \in DOMAIN wider /\ wider[v] = owner[v]

(* A part belongs to whom it belonged when more are created.               *)
LEMMA BelongGrows ==
  ASSUME NEW row, NEW a, NEW owner, NEW wider, Belong(row, a, owner),
         Extends(owner, wider)
  PROVE  Belong(row, a, wider)
  BY DEF Belong, Extends

(* So do those that requests hold.                                         *)
LEMMA MineGrows ==
  ASSUME NEW q, NEW owner, NEW wider, Mine(q, owner),
         Extends(owner, wider)
  PROVE  Mine(q, wider)
  BY BelongGrows DEF Mine, Extends

(* When a request holds a copy, and of what.                               *)
LEMMA HeldIs ==
  ASSUME NEW C, NEW q \in RequestType, HandsOK(q, C), q.rest # <<>>
  PROVE  /\ Head(q.rest) \in {"invoice", "saveApplication"} => q.held # {}
         /\ Head(q.rest) = "createPart" /\ q.op # "security" => q.held # {}
         /\ q.held # {} => q.op \notin CompanyOperations /\ "load" \notin StepsOf(q.rest)
         /\ q.held # {} => q.held = Columns \cup Loaded(q.op)
<1>1. q.op \in OperationNames /\ Situated(q)
  BY SituatedHolds DEF HandsOK
<1>2. q.held = IF HasLoaded(q.op, q.rest) THEN Columns \cup Loaded(q.op) ELSE {}
  BY DEF HandsOK, InHand
<1>3. Columns # {}
  BY DEF Columns
<1>4. Head(q.rest) \in {"invoice", "saveApplication"} => HasLoaded(q.op, q.rest)
  BY <1>1 DEF Situated, Situation, HasLoaded
<1>5. Head(q.rest) = "createPart" /\ q.op # "security" => HasLoaded(q.op, q.rest)
  BY <1>1 DEF Situated, Situation, HasLoaded
<1>6. ASSUME q.held # {} PROVE q.op \notin CompanyOperations
  <2>1. PICK p \in Plans(q.op) : \E k \in 1 .. Len(p) : q.rest = From(p, k)
    BY SituatedHolds DEF HandsOK
  <2>2. PICK k \in 1 .. Len(p) : q.rest = From(p, k)
    BY <2>1
  <2>3. p \in Seq(Steps) /\ Composed(q.op, p)
    BY <1>1, PlansAreOrderly DEF Orderly
  <2>4. StepsOf(q.rest) = {p[j] : j \in k .. Len(p)}
    BY <1>1, <2>2, TakesOneStep
  <2>5. "saveApplication" \in StepsOf(q.rest)
    BY <1>2, <1>6 DEF HasLoaded
  <2>6. Occurs(p, "saveApplication")
    BY <2>3, <2>4, <2>5, Relations
  <2>7. QED  BY <2>3, <2>6 DEF Composed
<1>7. QED  BY <1>2, <1>3, <1>4, <1>5, <1>6 DEF HasLoaded

Widens(owner, n, w, wider) ==
  /\ wider \in [1 .. n + 1 -> Applications \X PartNames]
  /\ wider[n + 1] = w /\ n + 1 \in DOMAIN wider /\ Extends(owner, wider)

(* There is an owner for one part more.                                    *)
LEMMA WiderExists ==
  ASSUME NEW n \in Nat, NEW owner \in [1 .. n -> Applications \X PartNames],
         NEW w \in Applications \X PartNames
  PROVE  \E wider : Widens(owner, n, w, wider)
<1> DEFINE wider == [v \in 1 .. n + 1 |-> IF v = n + 1 THEN w ELSE owner[v]]
<1>1. Widens(owner, n, w, wider)
  BY DEF Widens, Extends
<1>2. QED  BY <1>1

(* A new part belongs to the application of the request that creates it.   *)
LEMMA PartIsOwned ==
  ASSUME TypedOK, PartsOwned, NEW r \in Requests, CreatePart(r)
  PROVE  PartsOwned'
<1>1. PICK owner : Owner(owner)
  BY DEF PartsOwned, Owner
<1>2. PICK n \in RequestType :
        PartsAs(requests[r], lastPart + 1, n) /\ Goes(r, n) /\ requests[r].op \in PartNames
  BY PartIs
<1> DEFINE q == requests[r]
<1>3. /\ q \in RequestType /\ HandsOK(q, created)
      /\ q.rest # <<>> /\ Head(q.rest) = "createPart"
  BY AtIs DEF CreatePart
<1>4. q.app \in Applications
  BY <1>3, AppIsCreated DEF TypedOK, TablesOK
<1>5. lastPart \in Nat /\ lastPart' = lastPart + 1 /\ rows' = rows
  BY DEF TypedOK, TablesOK, CreatePart, NewPart
<1>6. <<q.app, q.op>> \in Applications \X PartNames
  BY <1>2, <1>4
<1>7. q = requests[r]
  OBVIOUS
<1> HIDE DEF q
<1>15. owner \in [1 .. lastPart -> Applications \X PartNames] /\ Owned(owner)
  BY <1>1 DEF Owner
<1>16. PICK wider : Widens(owner, lastPart, <<q.app, q.op>>, wider)
  BY <1>5, <1>6, <1>15, WiderExists
<1>8. /\ wider \in [1 .. lastPart + 1 -> Applications \X PartNames]
      /\ wider[lastPart + 1] = <<q.app, q.op>> /\ lastPart + 1 \in DOMAIN wider
      /\ Extends(owner, wider)
  BY <1>16 DEF Widens
<1>9. /\ \A a \in Applications : Belong(rows[a], a, wider)
      /\ \A s \in Requests : Mine(requests[s], wider)
  BY <1>15, <1>8, BelongGrows, MineGrows DEF Owned
<1>10. Owned(wider)
  BY <1>9 DEF Owned
<1>11. Mine(n, wider)
  <2>1. Mine(q, wider)
    BY <1>7, <1>9
  <2>2. n.app = q.app /\ n.op = q.op /\ n.part = lastPart + 1 /\ n.held = q.held
        /\ n.copy = IF q.op = "security" THEN q.copy ELSE [q.copy EXCEPT ![q.op] = lastPart + 1]
    BY <1>2, <1>7 DEF PartsAs
  <2>3. n.part \in DOMAIN wider /\ wider[n.part] = <<n.app, n.op>>
    BY <1>8, <2>2
  <2>4. CASE q.op = "security"
    BY <2>1, <2>2, <2>3, <2>4 DEF Mine
  <2>5. CASE q.op # "security"
    <3>1. q.held # {}
      BY <1>3, <2>5, HeldIs
    <3>2. q.copy \in Rows /\ DOMAIN q.copy = Fields
      BY <1>3 DEF RequestType, Rows
    <3>3. \A p \in PartNames : n.copy[p] = IF p = q.op THEN lastPart + 1 ELSE q.copy[p]
      BY <2>2, <2>5, <3>2 DEF Fields
    <3>4. Belong(n.copy, n.app, wider)
      BY <1>8, <2>1, <2>2, <3>3 DEF Belong, Mine
    <3>5. QED  BY <2>2, <2>3, <3>1, <3>4 DEF Mine
  <2>6. QED  BY <2>4, <2>5
<1>12. /\ \A a \in Applications : Belong(rows'[a], a, wider)
       /\ \A s \in Requests : Mine(requests'[s], wider)
  BY <1>2, <1>5, <1>10, <1>11, GoesMine
<1>13. Owned(wider)'
  BY <1>12 DEF Owned
<1>14. QED  BY <1>5, <1>8, <1>13 DEF PartsOwned

(* A request that is served has something left to do.                      *)
LEMMA RestIs ==
  ASSUME NEW q \in RequestType, Planned(q), q # NoRequest
  PROVE  q.rest # <<>> /\ q.op \in OperationNames
<1>1. q.op \in OperationNames
  BY DEF Planned
<1>2. PICK p \in Plans(q.op) : \E k \in 1 .. Len(p) : q.rest = From(p, k)
  BY DEF Planned
<1>3. PICK k \in 1 .. Len(p) : q.rest = From(p, k)
  BY <1>2
<1>4. q.rest # <<>>
  BY <1>1, <1>3, TakesOneStep
<1>5. QED  BY <1>1, <1>4

(* A request owns what one owns that holds the same.                       *)
LEMMA SameIsMine ==
  ASSUME NEW owner, NEW q, NEW n, Mine(q, owner), n.op = q.op, n.app = q.app,
         n.part = q.part, n.copy = q.copy, n.held = q.held
  PROVE  Mine(n, owner)
  BY DEF Mine

(* Loading an application makes nobody else own its parts.                 *)
LEMMA LoadIsOwned ==
  ASSUME TypedOK, NEW owner, Owner(owner), NEW r \in Requests, Load(r)
  PROVE  PartsOwned'
<1>1. rows' = rows /\ lastPart' = lastPart /\ Owned(owner)
  BY DEF Load, tables, Owner
<1>2. CASE requests' = [requests EXCEPT ![r] = NoRequest]
  <2>1. /\ \A a \in Applications : Belong(rows'[a], a, owner)
        /\ \A s \in Requests : Mine(requests'[s], owner)
    BY <1>1, <1>2, IdleIsMine, MineOne
  <2>2. QED  BY <1>1, <2>1, OwnerStays
<1>3. ASSUME NEW n \in RequestType, LoadsAs(requests[r], rows[requests[r].app], n), Goes(r, n)
      PROVE  PartsOwned'
  <2> DEFINE q == requests[r]
  <2>1. /\ q \in RequestType /\ HandsOK(q, created)
        /\ q.rest # <<>> /\ Head(q.rest) = "load"
    BY AtIs DEF Load
  <2>2. q.app \in Applications
    BY <2>1, AppIsCreated DEF TypedOK, TablesOK
  <2>3. rows[q.app] \in Rows /\ Belong(rows[q.app], q.app, owner) /\ Mine(q, owner)
    BY <1>1, <2>2 DEF Owned, TypedOK, TablesOK
  <2>4. /\ n.copy = Changed(q, rows[q.app]) /\ n.held = Columns \cup Loaded(q.op)
        /\ n.op = q.op /\ n.app = q.app /\ n.part = q.part /\ q.part \in Nat
    BY <1>3, <2>1 DEF LoadsAs, Same, RequestType
  <2> DEFINE row == rows[q.app]
  <2> HIDE DEF q
  <2>5. \A p \in PartNames : n.copy[p] =
          IF p = "security" /\ q.op = "security" THEN q.part ELSE rows[q.app][p]
    <3>1. row \in Rows /\ q.part \in Nat /\ n.copy = Changed(q, row)
      BY <2>3, <2>4
    <3> HIDE DEF row
    <3>2. \A p \in PartNames : Changed(q, row)[p] =
            IF p = "security" /\ q.op = "security" THEN q.part ELSE row[p]
      BY <3>1, ChangedIs
    <3>3. QED  BY <3>1, <3>2 DEF row
  <2>6. Belong(n.copy, n.app, owner)
    BY <2>3, <2>4, <2>5 DEF Belong, Mine
  <2>7. n.held # {}
    BY <2>4 DEF Columns
  <2>8. Mine(n, owner)
    BY <2>3, <2>4, <2>6, <2>7 DEF Mine
  <2>9. /\ \A a \in Applications : Belong(rows'[a], a, owner)
        /\ \A s \in Requests : Mine(requests'[s], owner)
    BY <1>1, <1>3, <2>8, GoesMine
  <2>10. QED  BY <1>1, <2>9, OwnerStays
<1>4. QED  BY <1>2, <1>3, LoadIs

(* Nor does loading a list,                                                *)
LEMMA ListIsOwned ==
  ASSUME TypedOK, NEW owner, Owner(owner), NEW r \in Requests, NEW f, ListLoaded(r, f),
         rows' = rows, lastPart' = lastPart
  PROVE  PartsOwned'
<1>1. PICK n \in RequestType, p \in RequestType, rest \in Seq(Steps) :
        /\ ListsAs(requests[r], f, ListOf(f), n) /\ Kept(n, rest, p)
        /\ requests' = [requests EXCEPT ![r] = p]
  BY DEF ListLoaded
<1>2. Mine(requests[r], owner) /\ Owned(owner)
  BY DEF Owner, Owned
<1>3. Mine(n, owner)
  BY <1>1, <1>2, SameIsMine DEF ListsAs
<1>4. Mine(p, owner)
  BY <1>1, <1>3, KeptIsMine
<1>5. /\ \A a \in Applications : Belong(rows'[a], a, owner)
      /\ \A s \in Requests : Mine(requests'[s], owner)
  BY <1>1, <1>2, <1>4, MineOne
<1>6. QED  BY <1>5, OwnerStays

(* nor creating an application,                                            *)
LEMMA InsertIsOwned ==
  ASSUME TypedOK, NEW owner, Owner(owner), NEW r \in Requests, Insert(r)
  PROVE  PartsOwned'
<1>1. rows' = rows /\ lastPart' = lastPart /\ Owned(owner)
  BY DEF Insert, Owner
<1>2. PICK a \in Applications \ created, n \in RequestType :
        InsertsAs(requests[r], a, n) /\ Goes(r, n)
  BY InsertIs
<1> DEFINE q == requests[r]
<1>3. /\ q \in RequestType /\ HandsOK(q, created)
      /\ q.rest # <<>> /\ Head(q.rest) = "insert"
  BY AtIs DEF Insert
<1>4. q.op = "create"
  BY <1>3, SituatedHolds DEF HandsOK, Situated, Situation
<1>5. q.held = {} /\ q.part = 0
  BY <1>3, <1>4, HeldIs, OpNames DEF CompanyOperations, HandsOK, InHand
<1>6. n.copy = NewRow /\ n.part = 0
  BY <1>1, <1>2, <1>5 DEF InsertsAs, Same, Owned, Mine
<1>7. Mine(n, owner)
  BY <1>6, NewRowBelongs DEF Mine
<1>8. /\ \A b \in Applications : Belong(rows'[b], b, owner)
      /\ \A s \in Requests : Mine(requests'[s], owner)
  BY <1>1, <1>2, <1>7, GoesMine
<1>9. QED  BY <1>1, <1>8, OwnerStays

(* nor sending an invoice,                                                 *)
LEMMA InvoiceIsOwned ==
  ASSUME TypedOK, NEW owner, Owner(owner), NEW r \in Requests, SendInvoice(r)
  PROVE  PartsOwned'
<1>1. rows' = rows /\ lastPart' = lastPart /\ Owned(owner)
  BY DEF SendInvoice, Owner
<1>2. PICK n \in RequestType : InvoicesAs(requests[r], n) /\ Goes(r, n)
  BY InvoiceIs
<1> DEFINE q == requests[r]
<1>3. /\ q \in RequestType /\ HandsOK(q, created)
      /\ q.rest # <<>> /\ Head(q.rest) = "invoice"
  BY AtIs DEF SendInvoice
<1>4. q.held # {} /\ Mine(q, owner) /\ q.copy \in Rows
  BY <1>1, <1>3, HeldIs DEF Owned, RequestType
<1>5. /\ n.copy = [q.copy EXCEPT !["purchaseOrderId"] = "invoice", !["status"] = "IN_REVIEW"]
      /\ n.op = q.op /\ n.app = q.app /\ n.part = q.part /\ n.held = q.held
  BY <1>2 DEF InvoicesAs, Same
<1>6. \A p \in PartNames : n.copy[p] = q.copy[p]
  <2>1. \A p \in PartNames : p \in Fields /\ p # "purchaseOrderId" /\ p # "status"
    BY DEF PartNames, Fields
  <2>2. q.copy \in [Fields -> Values]
    BY <1>4 DEF Rows
  <2> HIDE DEF q
  <2>3. QED  BY <1>5, <2>1, <2>2
<1>7. Mine(n, owner)
  BY <1>4, <1>5, <1>6 DEF Mine, Belong
<1>8. /\ \A b \in Applications : Belong(rows'[b], b, owner)
      /\ \A s \in Requests : Mine(requests'[s], owner)
  BY <1>1, <1>2, <1>7, GoesMine
<1>9. QED  BY <1>1, <1>8, OwnerStays

(* nor reading the rows.                                                   *)
LEMMA ReadIsOwned ==
  ASSUME TypedOK, NEW owner, Owner(owner), NEW r \in Requests, ReadRows(r)
  PROVE  PartsOwned'
<1>1. rows' = rows /\ lastPart' = lastPart /\ Owned(owner) /\ Mine(requests[r], owner)
  BY DEF ReadRows, tables, Owner, Owned
<1>2. CASE Goes(r, requests[r])
  <2>1. /\ \A b \in Applications : Belong(rows'[b], b, owner)
        /\ \A s \in Requests : Mine(requests'[s], owner)
    BY <1>1, <1>2, GoesMine
  <2>2. QED  BY <1>1, <2>1, OwnerStays
<1>3. CASE ~ Goes(r, requests[r])
  <2>1. PICK p : /\ ReadAs(requests[r], Differ(requests[r]), p)
                 /\ requests' = [requests EXCEPT ![r] = p]
    BY <1>3, ReadIs
  <2>2. Mine(p, owner)
    BY <1>1, <2>1, SameIsMine DEF ReadAs
  <2>3. /\ \A b \in Applications : Belong(rows'[b], b, owner)
        /\ \A s \in Requests : Mine(requests'[s], owner)
    BY <1>1, <2>1, <2>2, MineOne
  <2>4. QED  BY <1>1, <2>3, OwnerStays
<1>4. QED  BY <1>2, <1>3

(* What is written belongs to the application it is written to.            *)
LEMMA WriteIsOwned ==
  ASSUME TypedOK, NEW owner, Owner(owner), NEW r \in Requests, WriteRows(r)
  PROVE  PartsOwned'
<1>1. lastPart' = lastPart /\ Owned(owner) /\ Mine(requests[r], owner)
  BY DEF WriteRows, Owner, Owned
<1> DEFINE q == requests[r]
<1>2. PICK n \in RequestType : WritesAs(q, n) /\ Goes(r, n)
  BY WriteIs
<1>3. \A a \in Applications, f \in Fields :
        rows'[a][f] = IF <<a, f>> \in q.changes THEN Value(q, a, f) ELSE rows[a][f]
  BY WriteIs
<1>4. Mine(n, owner)
  BY <1>1, <1>2, SameIsMine DEF WritesAs, Same
<1>5. PICK p : Kept(n, Tail(requests[r].rest), p) /\ requests' = [requests EXCEPT ![r] = p]
  BY <1>2 DEF Goes
<1>6. Mine(p, owner)
  BY <1>4, <1>5, KeptIsMine
<1>7. requests \in [Requests -> RequestType]
  BY DEF TypedOK, TablesOK
<1>8. ASSUME NEW s \in Requests PROVE Mine(requests'[s], owner)
  <2>1. CASE s = r
    BY <1>5, <1>6, <1>7, <2>1
  <2>2. CASE s # r
    BY <1>1, <1>5, <1>7, <2>2 DEF Owned
  <2>3. QED  BY <2>1, <2>2
<1>9. /\ q \in RequestType /\ HandsOK(q, created) /\ Notes(q, created)
      /\ q.rest # <<>> /\ Head(q.rest) \in Saves /\ q.read
  BY SaveIs DEF WriteRows
<1>12. Mine(q, owner)
  BY <1>1
<1> HIDE DEF q
<1>10. ASSUME NEW a \in Applications PROVE Belong(rows'[a], a, owner)
  <2>1. ASSUME NEW f \in PartNames
        PROVE  rows'[a][f] = rows[a][f] \/ (a = q.app /\ rows'[a][f] = q.copy[f])
    <3>1. f \in Fields /\ f \notin Lists
      BY DEF PartNames, Fields, Lists
    <3>2. CASE <<a, f>> \notin q.changes
      BY <1>3, <3>1, <3>2
    <3>3. CASE <<a, f>> \in q.changes
      <4>1. <<a, f>> \in Compared(q, created)
        BY <1>9, <3>3 DEF Notes
      <4>2. CopyWritten(q, a, f) \/ ListWritten(q, a, f)
        BY <1>9, <4>1, ValueIs
      <4>3. a = q.app /\ Value(q, a, f) = q.copy[f]
        BY <3>1, <4>2 DEF CopyWritten, ListWritten
      <4>4. QED  BY <1>3, <3>1, <3>3, <4>3
    <3>4. QED  BY <3>2, <3>3
  <2>2. Belong(rows[a], a, owner) /\ Belong(q.copy, q.app, owner)
    BY <1>1, <1>12 DEF Owned, Mine
  <2>3. QED  BY <2>1, <2>2 DEF Belong
<1>11. QED  BY <1>1, <1>8, <1>10, OwnerStays

(* The parts that are filled in at first belong to the first application.  *)
LEMMA FirstOwned ==
  ASSUME Init
  PROVE  PartsOwned
<1>1. lastPart = 4 /\ \A r \in Requests : requests[r] = NoRequest
  BY NumberingIs DEF Init
<1>2. \A owner : \A r \in Requests : Mine(requests[r], owner)
  BY <1>1, IdleIsMine
<1>3. PICK b \in Applications : TRUE
  BY ApplicationsAssumption
<1>4. CASE created = {} /\ rows = [a \in Applications |-> NewRow]
  <2> DEFINE owner == [v \in 1 .. lastPart |-> <<b, "security">>]
  <2>1. owner \in [1 .. lastPart -> Applications \X PartNames]
    BY DEF PartNames
  <2>2. Owned(owner)
    BY <1>2, <1>4, NewRowBelongs DEF Owned
  <2>3. QED  BY <2>1, <2>2 DEF PartsOwned
<1>5. ASSUME NEW filling \in Fillings,
             rows = [a \in Applications |-> IF a = NextOf(Applications) THEN FirstRow(filling) ELSE NewRow]
      PROVE  PartsOwned
  <2> DEFINE c == NextOf(Applications)
             owner == [v \in 1 .. lastPart |->
                        IF \E p \in PartNames : Numbering[p] = v
                          THEN <<c, CHOOSE p \in PartNames : Numbering[p] = v>>
                          ELSE <<c, "security">>]
  <2>1. c \in Applications
    BY ApplicationsAssumption DEF NextOf
  <2>2. owner \in [1 .. lastPart -> Applications \X PartNames]
    <3>1. "security" \in PartNames
      BY DEF PartNames
    <3>2. ASSUME NEW v \in 1 .. lastPart, \E p \in PartNames : Numbering[p] = v
          PROVE  (CHOOSE p \in PartNames : Numbering[p] = v) \in PartNames
      BY <3>2
    <3>3. QED  BY <2>1, <3>1, <3>2
  <2>3. ASSUME NEW p \in PartNames
        PROVE  Numbering[p] \in 1 .. lastPart /\ owner[Numbering[p]] = <<c, p>>
    <3>1. Numbering[p] \in 1 .. lastPart
      BY <1>1, NumberingIs
    <3>2. (CHOOSE s \in PartNames : Numbering[s] = Numbering[p]) = p
      BY NumberingIs
    <3>3. QED  BY <3>1, <3>2
  <2>4. DOMAIN owner = 1 .. lastPart
    OBVIOUS
  <2> HIDE DEF owner, c
  <2>5. Belong(FirstRow(filling), c, owner)
    <3>1. \A p \in PartNames : FirstRow(filling)[p] = IF p \in filling THEN Numbering[p] ELSE 0
      BY ApplicationsAssumption, FirstRowIs
    <3>2. QED  BY <2>3, <2>4, <3>1 DEF Belong
  <2>6. ASSUME NEW a \in Applications PROVE Belong(rows[a], a, owner)
    <3>1. rows[a] = IF a = c THEN FirstRow(filling) ELSE NewRow
      BY <1>5 DEF c
    <3>2. QED  BY <2>5, <3>1, NewRowBelongs
  <2>7. Owned(owner)
    BY <1>2, <2>6 DEF Owned
  <2>8. QED  BY <2>2, <2>7 DEF PartsOwned
<1>6. QED  BY <1>4, <1>5 DEF Init

(* A step of a request leaves every part to one application.               *)
LEMMA StepIsOwned ==
  ASSUME TypedOK, PartsOwned, NEW r \in Requests, Step(r)
  PROVE  PartsOwned'
<1>1. PICK owner : Owner(owner)
  BY DEF PartsOwned, Owner
<1>2. CASE CreatePart(r)
  BY <1>2, PartIsOwned
<1>3. CASE LoadCompany(r)
  <2>1. rows' = rows /\ lastPart' = lastPart
    BY <1>3 DEF LoadCompany, tables
  <2>2. QED  BY <1>1, <1>3, <2>1, LoadCompanyIs, ListIsOwned
<1>4. CASE LoadSupplier(r)
  <2>1. rows' = rows /\ lastPart' = lastPart
    BY <1>4 DEF LoadSupplier, tables
  <2>2. QED  BY <1>1, <1>4, <2>1, LoadSupplierIs, ListIsOwned
<1>5. CASE CheckActive(r)
  <2>1. rows' = rows /\ lastPart' = lastPart /\ Owned(owner)
    BY <1>1, <1>5 DEF CheckActive, tables, Owner
  <2>2. Mine(requests[r], owner)
    BY <2>1 DEF Owned
  <2>3. /\ \A a \in Applications : Belong(rows'[a], a, owner)
        /\ \A s \in Requests : Mine(requests'[s], owner)
    BY <1>5, <2>1, <2>2, CheckIs, IdleIsMine, MineOne, GoesMine
  <2>4. QED  BY <1>1, <2>1, <2>3, OwnerStays
<1>6. CASE Load(r)
  BY <1>1, <1>6, LoadIsOwned
<1>7. CASE Insert(r)
  BY <1>1, <1>7, InsertIsOwned
<1>8. CASE SendInvoice(r)
  BY <1>1, <1>8, InvoiceIsOwned
<1>9. CASE ReadRows(r)
  BY <1>1, <1>9, ReadIsOwned
<1>10. CASE WriteRows(r)
  BY <1>1, <1>10, WriteIsOwned
<1>11. QED
  BY <1>2, <1>3, <1>4, <1>5, <1>6, <1>7, <1>8, <1>9, <1>10 DEF Step

(* What a failure does: requests end, and what they held is exposed.       *)
LEMMA FaultIs ==
  ASSUME TypedOK, Fault
  PROVE  /\ UNCHANGED <<created, rows, addressed, lastPart, invoices>>
         /\ exposed \subseteq exposed'
         /\ requests' \in [Requests -> RequestType]
         /\ \A r \in Requests :
              \/ requests'[r] = requests[r]
              \/ requests'[r] = NoRequest /\ (HeldBy({r}) \subseteq exposed' \/ At(r, "invoice"))
<1>1. requests \in [Requests -> RequestType]
  BY DEF TypedOK, TablesOK
<1>2. CASE Crash
  <2>1. /\ requests' = [r \in Requests |-> NoRequest]
        /\ UNCHANGED <<created, rows, addressed, lastPart, invoices>>
        /\ exposed' = exposed \cup HeldBy(Requests)
    BY <1>2 DEF Crash, tables
  <2>2. \A r \in Requests : HeldBy({r}) \subseteq HeldBy(Requests)
    BY DEF HeldBy
  <2>3. QED  BY <2>1, <2>2, NoRequestIs
<1>3. ASSUME NEW r \in Requests, StripeFails(r)
      PROVE  /\ UNCHANGED <<created, rows, addressed, lastPart, invoices>>
             /\ exposed' = exposed /\ At(r, "invoice")
             /\ requests' = [requests EXCEPT ![r] = NoRequest]
  BY <1>3 DEF StripeFails, tables, Finish, Update
<1>4. ASSUME NEW r \in Requests, StatementFails(r)
      PROVE  /\ UNCHANGED <<created, rows, addressed, lastPart, invoices>>
             /\ exposed' = exposed \cup HeldBy({r})
             /\ requests' = [requests EXCEPT ![r] = NoRequest]
  BY <1>4 DEF StatementFails, tables, Finish, Update
<1>5. ASSUME NEW r \in Requests, requests' = [requests EXCEPT ![r] = NoRequest],
             HeldBy({r}) \subseteq exposed' \/ At(r, "invoice")
      PROVE  /\ requests' \in [Requests -> RequestType]
             /\ \A s \in Requests :
                  \/ requests'[s] = requests[s]
                  \/ requests'[s] = NoRequest /\ (HeldBy({s}) \subseteq exposed' \/ At(s, "invoice"))
  BY <1>1, <1>5, NoRequestIs
<1>6. CASE \E r \in Requests : StripeFails(r)
  BY <1>3, <1>5, <1>6
<1>7. CASE \E r \in Requests : StatementFails(r)
  BY <1>4, <1>5, <1>7
<1>8. QED  BY <1>2, <1>6, <1>7 DEF Fault

(* A failure leaves every part to one application.                         *)
LEMMA FaultIsOwned ==
  ASSUME TypedOK, PartsOwned, Fault
  PROVE  PartsOwned'
<1>1. PICK owner : Owner(owner)
  BY DEF PartsOwned, Owner
<1>2. /\ rows' = rows /\ lastPart' = lastPart
      /\ \A r \in Requests : requests'[r] = requests[r] \/ requests'[r] = NoRequest
  BY FaultIs
<1>3. \A r \in Requests : Mine(requests'[r], owner)
  BY <1>1, <1>2, IdleIsMine DEF Owner, Owned
<1>4. QED  BY <1>1, <1>2, <1>3, OwnerStays DEF Owner, Owned

(* So does serving a request.                                              *)
LEMMA ReceiveIsOwned ==
  ASSUME TypedOK, PartsOwned, NEW r \in Requests, Receive(r) \/ ReceiveForCompany(r)
  PROVE  PartsOwned'
<1>1. PICK owner : Owner(owner)
  BY DEF PartsOwned, Owner
<1>2. PICK op \in Operations, a \in created \cup {NoApplication} :
        (op \notin CompanyOperations => a \in created) /\ Serve(r, op, a)
  BY ReceiveIs
<1>3. PICK p \in RequestType :
        /\ requests' = [requests EXCEPT ![r] = p]
        /\ Begins(p, op, a)
  BY <1>2, ServeIs
<1>4. Mine(p, owner)
  BY <1>3, NewRowBelongs DEF Mine, Begins
<1>5. rows' = rows /\ lastPart' = lastPart /\ Owned(owner)
  BY <1>1, <1>2 DEF Serve, tables, Owner
<1>6. /\ \A b \in Applications : Belong(rows'[b], b, owner)
      /\ \A s \in Requests : Mine(requests'[s], owner)
  BY <1>3, <1>4, <1>5, MineOne
<1>7. QED  BY <1>1, <1>5, <1>6, OwnerStays

(* Every row of a part belongs to one part of one application.             *)
THEOREM PartsAlwaysOwned == Spec => [](TypedOK /\ PartsOwned)
<1>1. Init => TypedOK /\ PartsOwned
  BY FirstTyped, FirstOwned
<1>2. TypedOK /\ PartsOwned /\ [Next]_vars => (TypedOK /\ PartsOwned)'
  <2> SUFFICES ASSUME TypedOK, PartsOwned, [Next]_vars PROVE (TypedOK /\ PartsOwned)'
    OBVIOUS
  <2>1. TypedOK'
    BY NextTyped
  <2>2. CASE UNCHANGED vars
    <3>1. UNCHANGED <<rows, lastPart, requests>>
      BY <2>2 DEF vars, tables
    <3>2. PICK owner : Owner(owner)
      BY DEF PartsOwned, Owner
    <3>3. QED  BY <2>1, <3>1, <3>2, OwnerStays DEF Owner, Owned
  <2>3. ASSUME NEW r \in Requests, Receive(r) \/ ReceiveForCompany(r) PROVE PartsOwned'
    BY <2>3, ReceiveIsOwned
  <2>4. ASSUME NEW r \in Requests, Step(r) PROVE PartsOwned'
    BY <2>4, StepIsOwned
  <2>5. CASE Fault
    BY <2>1, <2>5, FaultIsOwned
  <2>6. QED  BY <2>1, <2>2, <2>3, <2>4, <2>5 DEF Next
<1>3. QED  BY <1>1, <1>2, PTL DEF Spec

(* A row refers to parts that exist.                                       *)
LEMMA OwnedRowIs ==
  ASSUME NEW n \in Nat, lastPart = n, NEW S, NEW owner \in [1 .. n -> S], NEW row \in Rows, NEW a,
         Belong(row, a, owner)
  PROVE  IsRow(row)
<1>1. DOMAIN row = Fields
  BY DEF Rows
<1>2. ASSUME NEW p \in PartNames PROVE row[p] \in 0 .. lastPart
  <2>1. row[p] \in Nat /\ (row[p] # 0 => row[p] \in 1 .. n)
    BY DEF Belong, Rows
  <2>2. QED  BY <2>1
<1>3. QED  BY <1>1, <1>2 DEF IsRow, Rows

(* What is stated of types follows.                                        *)
LEMMA TypesHold == TypedOK /\ PartsOwned => TypeOK
<1> SUFFICES ASSUME TypedOK, PartsOwned PROVE TypeOK
  OBVIOUS
<1>1. PICK owner \in [1 .. lastPart -> Applications \X PartNames] : Owned(owner)
  BY DEF PartsOwned
<1>2. /\ created \subseteq Applications /\ rows \in [Applications -> Rows] /\ lastPart \in Nat
      /\ \A a \in Applications \ created : rows[a] = NewRow
      /\ requests \in [Requests -> RequestType]
      /\ received \in 0 .. MaxRequests /\ faults \in 0 .. MaxFaults
      /\ exposed \subseteq Applications \X Fields
  BY DEF TypedOK, TablesOK
<1>3. \A a \in Applications : IsRow(rows[a])
  BY <1>1, <1>2, OwnedRowIs DEF Owned
<1>4. ASSUME NEW a \in created, NEW b \in created, NEW p \in PartNames, NEW q \in PartNames,
             rows[a][p] = rows[b][q], rows[a][p] # 0
      PROVE  <<a, p>> = <<b, q>>
  <2>1. Belong(rows[a], a, owner) /\ Belong(rows[b], b, owner)
    BY <1>1, <1>2 DEF Owned
  <2>2. owner[rows[a][p]] = <<a, p>> /\ owner[rows[b][q]] = <<b, q>>
    BY <1>4, <2>1 DEF Belong
  <2>3. QED  BY <1>4, <2>2
<1>5. ASSUME NEW r \in Requests
      PROVE  LET q == requests[r]
             IN /\ IsRow(q.copy) /\ q.part \in 0 .. lastPart
                /\ q.app \in created \cup {NoApplication}
                /\ \A f \in Lists : q.listed[f] \subseteq created
                /\ q.held # {} => q.held = Columns \cup Loaded(q.op)
                /\ At(r, "saveApplication") =>
                     q.held # {} /\ (q.op \in PartNames => q.copy[q.op] # 0)
                /\ AtSave(r) => SavedLists(Head(q.rest)) \subseteq q.lists
                /\ q.changes \subseteq created \X Fields
  <2> DEFINE q == requests[r]
  <2>1. q \in RequestType /\ HandsOK(q, created) /\ Notes(q, created) /\ Mine(q, owner)
    BY <1>1, <1>2 DEF TypedOK, Served, Owned
  <2>2. IsRow(q.copy)
    BY <1>1, <1>2, <2>1, OwnedRowIs DEF Mine, RequestType
  <2>3. q.part \in 0 .. lastPart
    <3>1. q.part \in Nat /\ (q.part # 0 => q.part \in 1 .. lastPart)
      BY <1>1, <2>1 DEF Mine, RequestType
    <3>2. QED  BY <1>2, <3>1
  <2>4. q.app \in created \cup {NoApplication} /\ \A f \in Lists : q.listed[f] \subseteq created
    BY <2>1 DEF HandsOK, IsAbout
  <2>5. q.held # {} => q.held = Columns \cup Loaded(q.op)
    BY <2>1 DEF HandsOK, InHand
  <2>6. ASSUME At(r, "saveApplication")
        PROVE  q.held # {} /\ (q.op \in PartNames => q.copy[q.op] # 0)
    <3>1. q.rest # <<>> /\ Head(q.rest) = "saveApplication"
      BY <2>6 DEF At
    <3>2. q.held # {}
      BY <2>1, <3>1, HeldIs
    <3>3. Situated(q)
      BY <2>1, <3>1, SituatedHolds DEF HandsOK
    <3>4. HasLoaded(q.op, q.rest) /\ "createPart" \notin StepsOf(q.rest)
      BY <3>1, <3>3 DEF Situated, Situation, HasLoaded
    <3>5. q.op \in PartNames => q.copy[q.op] = q.part /\ q.part # 0
      BY <2>1, <3>4 DEF HandsOK, InHand
    <3>6. QED  BY <3>2, <3>5
  <2>7. ASSUME AtSave(r) PROVE SavedLists(Head(q.rest)) \subseteq q.lists
    <3>1. q.rest # <<>> /\ Head(q.rest) \in Saves
      BY <2>7, SaveIs
    <3>2. QED  BY <2>1, <3>1, ComparedIs
  <2>8. q.changes \subseteq created \X Fields
    <3>1. CASE ~ q.read
      BY <2>1, <3>1 DEF HandsOK, InHand
    <3>2. CASE q.read
      <4>1. Head(q.rest) \in Saves /\ q.changes \subseteq Compared(q, created)
        BY <2>1, <3>2 DEF HandsOK, InHand, Notes
      <4>2. q # NoRequest
        BY <3>2, NoRequestIs
      <4>3. q.rest # <<>>
        BY <2>1, <4>2, RestIs DEF HandsOK
      <4>4. QED  BY <2>1, <4>1, <4>3, ComparedIs
    <3>3. QED  BY <3>1, <3>2
  <2>9. QED  BY <2>2, <2>3, <2>4, <2>5, <2>6, <2>7, <2>8
<1>6. QED  BY <1>2, <1>3, <1>4, <1>5 DEF TypeOK

(* Types of the applications' rows and of the requests.                    *)
THEOREM ApplicationTypes == Spec => []TypeOK
  BY PartsAlwaysOwned, TypesHold, PTL

-----------------------------------------------------------------------------
(* Copies are fresh, or exposed *)

(* What a request holds is what the rows hold, but for what was exposed.    *)
HoldsField(q, a, f) == (q.app = a /\ f \in q.held) \/ f \in q.lists

(* A request that is not served holds nothing stale.                       *)
LEMMA IdleIsFresh ==
  ASSUME NEW C, NEW R, NEW E
  PROVE  Fresh(NoRequest, C, R, E)
  BY NoRequestIs DEF Fresh, Known, CopyFresh, ListFresh

(* What a request keeps is as fresh as it was.                             *)
LEMMA KeptIsFresh ==
  ASSUME NEW C, NEW R, NEW E, NEW n, NEW rest, NEW p, Kept(n, rest, p), n.read = FALSE,
         CopyFresh(n, R, E), ListFresh(n, R, E)
  PROVE  Fresh(p, C, R, E)
<1>1. CASE p = NoRequest
  BY <1>1, IdleIsFresh
<1>2. CASE p # NoRequest
  <2>1. /\ p.op = n.op /\ p.app = n.app /\ p.read = FALSE
        /\ (p.held = n.held /\ p.copy = n.copy) \/ p.held = {}
        /\ p.lists \subseteq n.lists /\ \A f \in p.lists : p.listed[f] = n.listed[f]
    BY <1>2 DEF Kept
  <2>2. Known(p, C, R, E)
    BY <2>1 DEF Known
  <2>3. CopyFresh(p, R, E)
    BY <2>1 DEF CopyFresh
  <2>4. ListFresh(p, R, E)
    BY <2>1 DEF ListFresh
  <2>5. QED  BY <2>2, <2>3, <2>4 DEF Fresh
<1>3. QED  BY <1>1, <1>2

Unwritten(q, R, S, F) ==
  \A a \in Applications, f \in Fields \ {"purchaseOrderId"} :
    HoldsField(q, a, f) /\ <<a, f>> \notin F => S[a][f] = R[a][f]

(* What a request holds is as fresh as it was if nothing of it is written. *)
LEMMA UnwrittenIsFresh ==
  ASSUME NEW C, C \subseteq Applications, NEW q \in RequestType, HandsOK(q, C),
         NEW R, NEW S, NEW E, NEW F, E \subseteq F, Unwritten(q, R, S, F), Fresh(q, C, R, E)
  PROVE  Fresh(q, C, S, F)
<1>1. CASE q = NoRequest
  BY <1>1, IdleIsFresh
<1>2. CASE q # NoRequest
  <2>1. q.rest # <<>> /\ q.held \subseteq Fields /\ q.lists \subseteq Fields
        /\ "purchaseOrderId" \notin q.lists
    BY <1>2, RestIs DEF HandsOK, RequestType, Lists, Fields, Columns
  <2>2. q.held # {} => q.app \in C
    BY <2>1, AppIsCreated
  <2>3. CopyFresh(q, S, F)
    <3>1. ASSUME NEW f \in q.held \ {"purchaseOrderId"}, <<q.app, f>> \notin F
          PROVE  S[q.app][f] = R[q.app][f] /\ <<q.app, f>> \notin E
      BY <2>1, <2>2, <3>1 DEF Unwritten, HoldsField
    <3>2. CopyFresh(q, R, E)
      BY DEF Fresh
    <3>3. QED  BY <3>1, <3>2 DEF CopyFresh
  <2>4. ListFresh(q, S, F)
    <3>1. ASSUME NEW f \in q.lists, NEW a \in Applications, <<a, f>> \notin F
          PROVE  S[a][f] = R[a][f] /\ <<a, f>> \notin E
      BY <2>1, <3>1 DEF Unwritten, HoldsField
    <3>2. ListFresh(q, R, E)
      BY DEF Fresh
    <3>3. QED  BY <3>1, <3>2 DEF ListFresh
  <2>5. Known(q, C, S, F)
    <3>1. SUFFICES ASSUME q.read
                   PROVE  /\ q.changes \subseteq Compared(q, C)
                          /\ \A w \in Compared(q, C) \ (q.changes \cup F) :
                               w[2] # "purchaseOrderId" => Value(q, w[1], w[2]) = S[w[1]][w[2]]
      BY DEF Known
    <3>2. Head(q.rest) \in Saves
      BY <3>1 DEF HandsOK, InHand
    <3>3. /\ Compared(q, C) \subseteq C \X Fields
          /\ Head(q.rest) = "saveApplication" => Compared(q, C) = {q.app} \X q.held /\ q.app \in C
          /\ Head(q.rest) # "saveApplication" => SavedLists(Head(q.rest)) \subseteq q.lists
      BY <2>1, <3>2, ComparedIs
    <3>4. ASSUME NEW w \in Compared(q, C) \ (q.changes \cup F), w[2] # "purchaseOrderId"
          PROVE  S[w[1]][w[2]] = R[w[1]][w[2]] /\ w \notin E
      <4>1. w[1] \in Applications /\ w[2] \in Fields /\ w = <<w[1], w[2]>>
        BY <3>3
      <4>2. HoldsField(q, w[1], w[2])
        <5>1. CASE Head(q.rest) = "saveApplication"
          BY <3>3, <5>1 DEF HoldsField
        <5>2. CASE Head(q.rest) # "saveApplication"
          <6>1. Compared(q, C) = C \X SavedLists(Head(q.rest))
            BY <5>2 DEF Compared
          <6>2. QED  BY <3>3, <5>2, <6>1 DEF HoldsField
        <5>3. QED  BY <5>1, <5>2
      <4>3. QED  BY <3>4, <4>1, <4>2 DEF Unwritten
    <3>5. /\ q.changes \subseteq Compared(q, C)
          /\ \A w \in Compared(q, C) \ (q.changes \cup E) :
               w[2] # "purchaseOrderId" => Value(q, w[1], w[2]) = R[w[1]][w[2]]
      BY <3>1 DEF Fresh, Known
    <3>6. QED  BY <3>4, <3>5
  <2>6. QED  BY <2>3, <2>4, <2>5 DEF Fresh
<1>3. QED  BY <1>1, <1>2

(* A new application is in no list, and in no row of a list.               *)
LEMMA NewIsFresh ==
  ASSUME NEW C, C \subseteq Applications, NEW q \in RequestType, HandsOK(q, C),
         NEW R, NEW E, NEW a, a \notin C, R[a] = NewRow, Fresh(q, C, R, E)
  PROVE  Fresh(q, C \cup {a}, R, E)
<1>1. Known(q, C \cup {a}, R, E)
  <2>1. SUFFICES ASSUME q.read
                 PROVE  /\ q.changes \subseteq Compared(q, C \cup {a})
                        /\ \A w \in Compared(q, C \cup {a}) \ (q.changes \cup E) :
                             w[2] # "purchaseOrderId" => Value(q, w[1], w[2]) = R[w[1]][w[2]]
    BY DEF Known
  <2>2. Head(q.rest) \in Saves /\ q.rest # <<>> /\ q.op \in OperationNames
    BY <2>1, RestIs, NoRequestIs DEF HandsOK, InHand
  <2>3. /\ q.changes \subseteq Compared(q, C)
        /\ \A w \in Compared(q, C) \ (q.changes \cup E) :
             w[2] # "purchaseOrderId" => Value(q, w[1], w[2]) = R[w[1]][w[2]]
    BY <2>1 DEF Fresh, Known
  <2>4. Compared(q, C) \subseteq Compared(q, C \cup {a})
    BY DEF Compared
  <2>5. ASSUME NEW w \in Compared(q, C \cup {a}), w \notin Compared(q, C)
        PROVE  Value(q, w[1], w[2]) = R[w[1]][w[2]]
    <3>1. /\ w[1] = a /\ w[2] \in SavedLists(Head(q.rest)) /\ Head(q.rest) # "saveApplication"
      BY <2>5 DEF Compared
    <3>2. w[2] \in Lists /\ w[2] \in q.lists
      BY <2>2, <3>1, ComparedIs
    <3>3. NewRow[w[2]] = FALSE
      BY <3>2, NewRowIs DEF Lists
    <3>4. a \notin q.listed[w[2]]
      BY <3>2 DEF HandsOK, IsAbout
    <3>5. Situated(q)
      BY <2>2, SituatedHolds DEF HandsOK
    <3>6. <<q.op, Head(q.rest)>> \in {<<"create", "saveCompany">>,
                                     <<"supplierInformation", "saveSupplier">>} => a # q.app
      <4>1. CASE q.op = "create" /\ Head(q.rest) = "saveCompany"
        <5>1. "insert" \notin StepsOf(q.rest)
          BY <3>5, <4>1 DEF Situated, Situation
        <5>2. QED  BY <4>1, <5>1 DEF HandsOK, IsAbout
      <4>2. CASE q.op = "supplierInformation"
        BY <2>2, <4>2 DEF HandsOK, IsAbout, CompanyOperations
      <4>3. QED  BY <4>1, <4>2
    <3>7. w[1] \notin ToList(q, w[2])
      BY <3>1, <3>4, <3>6 DEF ToList, WithApplication
    <3>8. Value(q, w[1], w[2]) = FALSE
      <4>1. Value(q, w[1], w[2]) = (w[1] \in ToList(q, w[2])) /\ Value(q, w[1], w[2]) \in BOOLEAN
        BY <3>1, ListValueIs
      <4>2. QED  BY <3>7, <4>1, Zenon
    <3>9. QED  BY <3>1, <3>3, <3>8
  <2>6. QED  BY <2>3, <2>4, <2>5
<1>2. QED  BY <1>1 DEF Fresh

(* It is enough to look at the request that a step is of,                  *)
LEMMA FreshOne ==
  ASSUME TypedOK, FreshOK, UNCHANGED <<rows, created, exposed>>, NEW r \in Requests, NEW p,
         requests' = [requests EXCEPT ![r] = p], Fresh(p, created, rows, exposed)
  PROVE  FreshOK'
<1>1. requests \in [Requests -> RequestType]
  BY DEF TypedOK, TablesOK
<1>2. ASSUME NEW s \in Requests PROVE Fresh(requests'[s], created, rows, exposed)
  <2>1. CASE s = r
    BY <1>1, <2>1
  <2>2. CASE s # r
    BY <1>1, <2>2 DEF FreshOK
  <2>3. QED  BY <2>1, <2>2
<1>3. QED  BY <1>2 DEF FreshOK

(* and at what it held before it went on.                                  *)
LEMMA FreshGoes ==
  ASSUME TypedOK, FreshOK, UNCHANGED <<rows, created, exposed>>, NEW r \in Requests, NEW n,
         Goes(r, n), n.read = FALSE, CopyFresh(n, rows, exposed), ListFresh(n, rows, exposed)
  PROVE  FreshOK'
<1>1. PICK p : Kept(n, Tail(requests[r].rest), p) /\ requests' = [requests EXCEPT ![r] = p]
  BY DEF Goes
<1>2. Fresh(p, created, rows, exposed)
  BY <1>1, KeptIsFresh
<1>3. QED  BY <1>1, <1>2, FreshOne

(* What is known of the copies of a request.                               *)
LEMMA IsFresh ==
  ASSUME FreshOK, NEW r \in Requests, NEW q, q = requests[r]
  PROVE  Known(q, created, rows, exposed) /\ CopyFresh(q, rows, exposed) /\ ListFresh(q, rows, exposed)
  BY DEF FreshOK, Fresh

(* The copy of an application as it is loaded.                             *)
LEMMA LoadedIsFresh ==
  ASSUME NEW R, NEW E, NEW q \in RequestType, NEW n, q.app \in Applications, R[q.app] \in Rows,
         q.op \in OperationNames \ CompanyOperations, LoadsAs(q, R[q.app], n), ListFresh(q, R, E)
  PROVE  CopyFresh(n, R, E) /\ ListFresh(n, R, E)
<1> DEFINE row == R[q.app]
<1>1. /\ ~ RefusesPart(q.op, row) /\ ~ RefusesSubmission(q.op, row)
      /\ n.op = q.op /\ n.app = q.app /\ n.lists = q.lists /\ n.listed = q.listed
      /\ n.copy = Changed(q, row) /\ n.held = Columns \cup Loaded(q.op)
  BY DEF LoadsAs, Same
<1>2. row \in Rows /\ q.part \in Nat
  BY DEF RequestType
<1> HIDE DEF row
<1>3. /\ Changed(q, row)["status"] = IF q.op = "submit" THEN "IN_REVIEW" ELSE row["status"]
      /\ Changed(q, row)["company"] = row["company"]
      /\ \A p \in PartNames : Changed(q, row)[p] =
              IF p = "security" /\ q.op = "security" THEN q.part ELSE row[p]
  BY <1>2, ChangedIs
<1>4. q.op \in {"submit", "card"} => row["status"] = "ACTIVE"
  BY <1>1, <1>2 DEF RefusesSubmission, IsSubmitted, Rows
<1>5. ASSUME NEW f \in n.held \ {"purchaseOrderId"}
      PROVE  IF f = "status" /\ n.op \in {"submit", "card"} THEN row["status"] = "ACTIVE"
             ELSE IF f = n.op THEN f # "security" => row[f] = 0
             ELSE f # "supplier" => n.copy[f] = row[f]
  <2>1. f \in PartNames \cup {"status", "company", "supplier"}
    BY <1>1, LoadedIs DEF Columns
  <2>2. CASE f = "status"
    BY <1>1, <1>3, <1>4, <2>2 DEF OperationNames, PartNames, RequestType
  <2>3. CASE f \in {"company", "supplier"}
    BY <1>1, <1>3, <2>3 DEF CompanyOperations
  <2>4. CASE f \in PartNames
    <3>1. CASE f = n.op
      BY <1>1, <2>4, <3>1 DEF RefusesPart
    <3>2. CASE f # n.op
      <4>1. n.copy[f] = row[f]
        BY <1>1, <1>3, <2>4, <3>2
      <4>2. f # "status"
        BY <2>4 DEF PartNames
      <4>3. QED  BY <3>2, <4>1, <4>2
    <3>3. QED  BY <3>1, <3>2
  <2>5. QED  BY <2>1, <2>2, <2>3, <2>4
<1>6. CopyFresh(n, R, E)
  BY <1>1, <1>5 DEF CopyFresh, row
<1>7. ListFresh(n, R, E)
  BY <1>1 DEF ListFresh
<1>8. QED  BY <1>6, <1>7

(* A list as it is loaded.                                                 *)
LEMMA ListedIsFresh ==
  ASSUME TypedOK, NEW q \in RequestType, NEW n, NEW f \in Lists, ListsAs(q, f, ListOf(f), n),
         CopyFresh(q, rows, exposed), ListFresh(q, rows, exposed)
  PROVE  CopyFresh(n, rows, exposed) /\ ListFresh(n, rows, exposed)
<1>1. /\ n.lists = q.lists \cup {f} /\ n.listed = [q.listed EXCEPT ![f] = ListOf(f)]
      /\ n.op = q.op /\ n.app = q.app /\ n.copy = q.copy /\ n.held = q.held
  BY DEF ListsAs
<1>2. CopyFresh(n, rows, exposed)
  BY <1>1 DEF CopyFresh
<1>3. ASSUME NEW a \in Applications PROVE a \in ListOf(f) <=> rows[a][f] = TRUE
  <2>1. rows[a] \in Rows /\ (a \notin created => rows[a] = NewRow)
    BY DEF TypedOK, TablesOK
  <2>2. rows[a][f] \in BOOLEAN /\ NewRow[f] = FALSE
    BY <2>1, NewRowIs DEF Rows, Lists
  <2>3. QED  BY <2>1, <2>2, Zenon DEF ListOf
<1>4. q.listed \in [Lists -> SUBSET Applications] /\ q.lists \subseteq Lists
  BY DEF RequestType
<1>5. ASSUME NEW g \in n.lists, NEW a \in Applications, <<a, g>> \notin exposed,
             ~ (g = "supplier" /\ n.op = "updateSupplier" /\ a = n.app)
      PROVE  a \in n.listed[g] <=> rows[a][g] = TRUE
  <2>1. CASE g = f
    BY <1>1, <1>3, <1>4, <2>1
  <2>2. CASE g # f
    BY <1>1, <1>4, <1>5, <2>2 DEF ListFresh
  <2>3. QED  BY <2>1, <2>2
<1>6. ListFresh(n, rows, exposed)
  BY <1>5 DEF ListFresh
<1>7. QED  BY <1>2, <1>6

(* Loading a list makes nothing stale.                                     *)
LEMMA FreshList ==
  ASSUME TypedOK, FreshOK, UNCHANGED <<rows, created, exposed>>, NEW r \in Requests,
         NEW f \in Lists, ListLoaded(r, f)
  PROVE  FreshOK'
<1>1. PICK n \in RequestType, p \in RequestType, rest \in Seq(Steps) :
        /\ ListsAs(requests[r], f, ListOf(f), n) /\ Kept(n, rest, p)
        /\ requests' = [requests EXCEPT ![r] = p]
  BY DEF ListLoaded
<1>2. requests[r] \in RequestType
  BY DEF TypedOK, TablesOK
<1>3. CopyFresh(n, rows, exposed) /\ ListFresh(n, rows, exposed) /\ n.read = FALSE
  BY <1>1, <1>2, IsFresh, ListedIsFresh DEF ListsAs
<1>4. Fresh(p, created, rows, exposed)
  BY <1>1, <1>3, KeptIsFresh
<1>5. QED  BY <1>1, <1>4, FreshOne

(* A request is as fresh as one that holds the same.                       *)
LEMMA SameFresh ==
  ASSUME NEW R, NEW E, NEW q, NEW n, CopyFresh(q, R, E), ListFresh(q, R, E),
         n.op = q.op, n.app = q.app, n.copy = q.copy, n.held = q.held,
         n.lists = q.lists, n.listed = q.listed
  PROVE  CopyFresh(n, R, E) /\ ListFresh(n, R, E)
<1>1. CopyFresh(n, R, E)
  BY DEF CopyFresh
<1>2. ListFresh(n, R, E)
  BY DEF ListFresh
<1>3. QED  BY <1>1, <1>2

(* A copy is fresh when it is loaded, but for what the handler changed in  *)
(* it.                                                                     *)
LEMMA LoadFresh ==
  ASSUME TypedOK, FreshOK, NEW r \in Requests, Load(r)
  PROVE  FreshOK'
<1>1. UNCHANGED <<rows, created, exposed>>
  BY DEF Load, tables
<1>2. CASE requests' = [requests EXCEPT ![r] = NoRequest]
  BY <1>1, <1>2, IdleIsFresh, FreshOne
<1>3. ASSUME NEW n \in RequestType, LoadsAs(requests[r], rows[requests[r].app], n), Goes(r, n)
      PROVE  FreshOK'
  <2>1. /\ requests[r] \in RequestType /\ HandsOK(requests[r], created)
        /\ requests[r].rest # <<>> /\ Head(requests[r].rest) = "load"
    BY AtIs DEF Load
  <2>2. requests[r].app \in Applications /\ rows[requests[r].app] \in Rows
    BY <2>1, AppIsCreated DEF TypedOK, TablesOK
  <2>3. requests[r].op \in OperationNames \ CompanyOperations
    BY <2>1, SituatedHolds DEF HandsOK, Situated, Situation
  <2>4. ListFresh(requests[r], rows, exposed)
    BY IsFresh
  <2>5. CopyFresh(n, rows, exposed) /\ ListFresh(n, rows, exposed)
    BY <1>3, <2>1, <2>2, <2>3, <2>4, LoadedIsFresh
  <2>6. n.read = FALSE
    BY <1>3 DEF LoadsAs, Same
  <2>7. QED  BY <1>1, <1>3, <2>5, <2>6, FreshGoes
<1>4. QED  BY <1>2, <1>3, LoadIs

(* Looking for an active application makes nothing stale,                  *)
LEMMA CheckFresh ==
  ASSUME TypedOK, FreshOK, NEW r \in Requests, CheckActive(r)
  PROVE  FreshOK'
<1>1. UNCHANGED <<rows, created, exposed>>
  BY DEF CheckActive, tables
<1>2. CASE requests' = [requests EXCEPT ![r] = NoRequest]
  BY <1>1, <1>2, IdleIsFresh, FreshOne
<1>3. CASE Goes(r, requests[r])
  <2>1. requests[r].read = FALSE
    <3>1. /\ requests[r] \in RequestType /\ HandsOK(requests[r], created)
          /\ Head(requests[r].rest) = "check"
      BY AtIs DEF CheckActive
    <3>2. QED  BY <3>1, NotReading DEF HandsOK, Saves
  <2>2. QED  BY <1>1, <1>3, <2>1, IsFresh, FreshGoes
<1>4. QED  BY <1>2, <1>3, CheckIs

(* nor does creating one that nobody has in hand,                          *)
LEMMA InsertFresh ==
  ASSUME TypedOK, FreshOK, NEW r \in Requests, Insert(r)
  PROVE  FreshOK'
<1> DEFINE q == requests[r]
<1>1. rows' = rows /\ exposed' = exposed
  BY DEF Insert
<1>2. PICK a \in Applications \ created, n \in RequestType :
        created' = created \cup {a} /\ InsertsAs(q, a, n) /\ Goes(r, n)
  BY InsertIs
<1>3. /\ q \in RequestType /\ HandsOK(q, created)
      /\ q.rest # <<>> /\ Head(q.rest) = "insert"
  BY AtIs DEF Insert
<1>4. q.op = "create"
  BY <1>3, SituatedHolds DEF HandsOK, Situated, Situation
<1>5. q.held = {}
  BY <1>3, <1>4, HeldIs DEF CompanyOperations
<1>6. CopyFresh(q, rows, exposed) /\ ListFresh(q, rows, exposed)
  BY IsFresh
<1>7. /\ n.op = q.op /\ n.read = FALSE /\ n.held = {} /\ n.lists = q.lists /\ n.listed = q.listed
  BY <1>2, <1>5 DEF InsertsAs, Same
<1>8. CopyFresh(n, rows, exposed)
  BY <1>7 DEF CopyFresh
<1>9. ListFresh(n, rows, exposed)
  BY <1>4, <1>6, <1>7 DEF ListFresh
<1>10. PICK p : Kept(n, Tail(requests[r].rest), p) /\ requests' = [requests EXCEPT ![r] = p]
  BY <1>2 DEF Goes
<1>11. Fresh(p, created', rows, exposed)
  BY <1>7, <1>8, <1>9, <1>10, KeptIsFresh
<1>12. requests \in [Requests -> RequestType] /\ created \subseteq Applications /\ rows[a] = NewRow
  BY <1>2 DEF TypedOK, TablesOK
<1>13. ASSUME NEW s \in Requests PROVE Fresh(requests'[s], created', rows, exposed)
  <2>1. CASE s = r
    BY <1>10, <1>11, <1>12, <2>1
  <2>2. CASE s # r
    <3>1. requests'[s] = requests[s] /\ requests[s] \in RequestType
      BY <1>10, <1>12, <2>2
    <3>2. HandsOK(requests[s], created) /\ Fresh(requests[s], created, rows, exposed)
      BY DEF FreshOK, TypedOK, Served
    <3>3. Fresh(requests[s], created \cup {a}, rows, exposed)
      BY <1>2, <1>12, <3>1, <3>2, NewIsFresh
    <3>4. QED  BY <1>2, <3>1, <3>3
  <2>3. QED  BY <2>1, <2>2
<1>14. QED  BY <1>1, <1>13 DEF FreshOK

(* nor does a part, which is created for a field that is empty,            *)
LEMMA PartFresh ==
  ASSUME TypedOK, FreshOK, NEW r \in Requests, CreatePart(r)
  PROVE  FreshOK'
<1> DEFINE q == requests[r]
<1>1. UNCHANGED <<rows, created, exposed>>
  BY DEF CreatePart
<1>2. PICK n \in RequestType : PartsAs(q, lastPart + 1, n) /\ Goes(r, n) /\ q.op \in PartNames
  BY PartIs
<1>3. q \in RequestType
  BY DEF TypedOK, TablesOK
<1>4. CopyFresh(q, rows, exposed) /\ ListFresh(q, rows, exposed)
  BY IsFresh
<1>5. /\ n.op = q.op /\ n.app = q.app /\ n.held = q.held /\ n.lists = q.lists
      /\ n.listed = q.listed /\ n.read = FALSE
      /\ n.copy = IF q.op = "security" THEN q.copy ELSE [q.copy EXCEPT ![q.op] = lastPart + 1]
  BY <1>2 DEF PartsAs
<1> HIDE DEF q
<1>6. q.held \subseteq Fields /\ q.copy \in [Fields -> Values]
  BY <1>3 DEF RequestType, Rows
<1>7. \A f \in q.held : f # q.op => n.copy[f] = q.copy[f]
  BY <1>5, <1>6
<1>8. CopyFresh(n, rows, exposed)
  BY <1>4, <1>5, <1>7 DEF CopyFresh
<1>9. ListFresh(n, rows, exposed)
  BY <1>4, <1>5 DEF ListFresh
<1>10. QED  BY <1>1, <1>2, <1>5, <1>8, <1>9, FreshGoes

(* nor does an invoice, which is sent for an active application.           *)
LEMMA InvoiceFresh ==
  ASSUME TypedOK, FreshOK, NEW r \in Requests, SendInvoice(r)
  PROVE  FreshOK'
<1> DEFINE q == requests[r]
<1>1. UNCHANGED <<rows, created, exposed>>
  BY DEF SendInvoice
<1>2. PICK n \in RequestType : InvoicesAs(q, n) /\ Goes(r, n) /\ q.op = "card"
  BY InvoiceIs
<1>3. q \in RequestType
  BY DEF TypedOK, TablesOK
<1>4. CopyFresh(q, rows, exposed) /\ ListFresh(q, rows, exposed)
  BY IsFresh
<1>5. /\ n.op = q.op /\ n.app = q.app /\ n.held = q.held /\ n.lists = q.lists
      /\ n.listed = q.listed /\ n.read = FALSE
      /\ n.copy = [q.copy EXCEPT !["purchaseOrderId"] = "invoice", !["status"] = "IN_REVIEW"]
  BY <1>2 DEF InvoicesAs, Same
<1> HIDE DEF q
<1>6. q.held \subseteq Fields /\ q.copy \in [Fields -> Values]
  BY <1>3 DEF RequestType, Rows
<1>7. \A f \in q.held \ {"purchaseOrderId", "status"} : n.copy[f] = q.copy[f]
  BY <1>5, <1>6
<1>8. CopyFresh(n, rows, exposed)
  BY <1>2, <1>4, <1>5, <1>7 DEF CopyFresh
<1>9. ListFresh(n, rows, exposed)
  BY <1>4, <1>5 DEF ListFresh
<1>10. QED  BY <1>1, <1>2, <1>5, <1>8, <1>9, FreshGoes

(* What a save finds equal is equal.                                       *)
LEMMA ReadFresh ==
  ASSUME TypedOK, FreshOK, NEW r \in Requests, ReadRows(r)
  PROVE  FreshOK'
<1> DEFINE q == requests[r]
<1>1. UNCHANGED <<rows, created, exposed>>
  BY DEF ReadRows, tables
<1>2. CopyFresh(q, rows, exposed) /\ ListFresh(q, rows, exposed)
  BY IsFresh
<1>3. CASE Goes(r, q)
  <2>1. q.read = FALSE
    BY SaveIs, NotReading DEF ReadRows, HandsOK
  <2>2. QED  BY <1>1, <1>2, <1>3, <2>1, FreshGoes
<1>4. CASE ~ Goes(r, q)
  <2>1. PICK p \in RequestType :
          ReadAs(q, Differ(q), p) /\ requests' = [requests EXCEPT ![r] = p]
    BY <1>4, ReadIs
  <2>2. Saved(q) = Compared(q, created)
    BY SaveIs DEF ReadRows
  <2>3. /\ p.op = q.op /\ p.app = q.app /\ p.rest = q.rest /\ p.copy = q.copy /\ p.held = q.held
        /\ p.lists = q.lists /\ p.listed = q.listed /\ p.changes = Differ(q)
    BY <2>1 DEF ReadAs
  <2> HIDE DEF q
  <2>4. CopyFresh(p, rows, exposed) /\ ListFresh(p, rows, exposed)
    BY <1>2, <2>3, SameFresh
  <2>5. Compared(p, created) = Compared(q, created)
    BY <2>3 DEF Compared
  <2>6. \A a, f : Value(p, a, f) = Value(q, a, f)
    BY <2>3, Zenon DEF Value, ToList
  <2>7. \A w \in Compared(q, created) \ Differ(q) : Value(q, w[1], w[2]) = rows[w[1]][w[2]]
    BY <2>2, Zenon DEF Differ
  <2>8. Differ(q) \subseteq Compared(q, created)
    BY <2>2 DEF Differ
  <2>9. Known(p, created, rows, exposed)
    BY <2>3, <2>5, <2>6, <2>7, <2>8 DEF Known
  <2>10. Fresh(p, created, rows, exposed)
    BY <2>4, <2>9 DEF Fresh
  <2>11. QED  BY <1>1, <2>1, <2>10, FreshOne
<1>5. QED  BY <1>3, <1>4

(* Serving a request makes nothing stale.                                  *)
LEMMA ServeFresh ==
  ASSUME TypedOK, FreshOK, NEW r \in Requests, Receive(r) \/ ReceiveForCompany(r)
  PROVE  FreshOK'
<1>1. PICK op \in Operations, a \in created \cup {NoApplication} :
        (op \notin CompanyOperations => a \in created) /\ Serve(r, op, a)
  BY ReceiveIs
<1>2. PICK p \in RequestType :
        requests' = [requests EXCEPT ![r] = p] /\ Begins(p, op, a)
  BY <1>1, ServeIs
<1>3. UNCHANGED <<rows, created, exposed>>
  BY <1>1 DEF Serve, tables
<1>4. Fresh(p, created, rows, exposed)
  BY <1>2 DEF Begins, Fresh, Known, CopyFresh, ListFresh
<1>5. QED  BY <1>2, <1>3, <1>4, FreshOne

(* Nor does a failure.                                                     *)
LEMMA FaultFresh ==
  ASSUME TypedOK, FreshOK, Fault
  PROVE  FreshOK'
<1>1. /\ rows' = rows /\ created' = created /\ exposed \subseteq exposed'
      /\ \A r \in Requests : requests'[r] = requests[r] \/ requests'[r] = NoRequest
  BY FaultIs
<1>2. requests \in [Requests -> RequestType] /\ created \subseteq Applications
  BY DEF TypedOK, TablesOK
<1>3. ASSUME NEW r \in Requests PROVE Fresh(requests'[r], created, rows, exposed')
  <2>1. CASE requests'[r] = NoRequest
    BY <2>1, IdleIsFresh
  <2>2. CASE requests'[r] = requests[r]
    <3>1. HandsOK(requests[r], created) /\ Fresh(requests[r], created, rows, exposed)
      BY DEF FreshOK, TypedOK, Served
    <3>2. Unwritten(requests[r], rows, rows, exposed')
      BY DEF Unwritten
    <3>3. Fresh(requests[r], created, rows, exposed')
      BY <1>1, <1>2, <3>1, <3>2, UnwrittenIsFresh
    <3>4. QED  BY <2>2, <3>3
  <2>3. QED  BY <1>1, <2>1, <2>2
<1>4. QED  BY <1>1, <1>3 DEF FreshOK

(* A save changes a field that was not exposed only if that is what the    *)
(* request was for.                                                        *)
Rightly(q, a, f, before, after) ==
  /\ a = q.app
  /\ \/ /\ f = "status" /\ Head(q.rest) = "saveApplication" /\ q.op \in {"submit", "card"}
        /\ before = "ACTIVE" /\ after = "IN_REVIEW"
     \/ /\ f \in PartNames /\ Head(q.rest) = "saveApplication"
        /\ after \in Nat \ {0} /\ (f # "security" => before = 0)
     \/ f = "company" /\ q.op = "create" /\ Head(q.rest) = "saveCompany" /\ after = TRUE
     \/ f = "supplier" /\ q.op = "updateSupplier"
     \/ /\ f = "supplier" /\ q.op = "supplierInformation" /\ after = TRUE
        /\ Head(q.rest) \in {"saveApplication", "saveSupplier"}

(* What a list is to hold is what it held, and the application that is     *)
(* added to it.                                                            *)
LEMMA ToListIs ==
  ASSUME NEW q, NEW f, NEW a
  PROVE  \/ a \in ToList(q, f) <=> a \in q.listed[f]
         \/ /\ a = q.app /\ a \in ToList(q, f)
            /\ \/ q.op = "create" /\ Head(q.rest) = "saveCompany"
               \/ q.op = "supplierInformation" /\ Head(q.rest) = "saveSupplier"
  BY DEF ToList, WithApplication

(* A field that is not exposed is only written by a request that is to     *)
(* change it, and as it is to be changed.                                  *)
LEMMA WriteKeeps ==
  ASSUME TypedOK, FreshOK, NEW r \in Requests, WriteRows(r), NEW q, q = requests[r],
         NEW a \in Applications, NEW f \in Fields, f # "purchaseOrderId",
         <<a, f>> \notin exposed', rows'[a][f] # rows[a][f]
  PROVE  Rightly(q, a, f, rows[a][f], rows'[a][f]) /\ <<a, f>> \in q.changes /\ a \in created
<1>1. rows'[a][f] = IF <<a, f>> \in q.changes THEN Value(q, a, f) ELSE rows[a][f]
  BY WriteIs
<1>2. <<a, f>> \in q.changes /\ rows'[a][f] = Value(q, a, f)
  BY <1>1
<1>3. <<a, f>> \notin exposed
  BY DEF WriteRows
<1>4. /\ q \in RequestType /\ HandsOK(q, created) /\ Notes(q, created) /\ q.read
      /\ q.rest # <<>> /\ Head(q.rest) \in Saves /\ q.op \in OperationNames /\ Situated(q)
  BY SaveIs DEF WriteRows
<1>5. <<a, f>> \in Compared(q, created)
  BY <1>2, <1>4 DEF Notes
<1>6. a \in created /\ (CopyWritten(q, a, f) \/ ListWritten(q, a, f))
  BY <1>4, <1>5, ValueIs
<1>7. CopyFresh(q, rows, exposed) /\ ListFresh(q, rows, exposed)
  BY IsFresh
<1>8. rows[a] \in Rows /\ q.copy \in Rows
  BY <1>4 DEF TypedOK, TablesOK, RequestType
<1>9. ASSUME CopyWritten(q, a, f)
      PROVE  Rightly(q, a, f, rows[a][f], rows'[a][f])
  <2>1. /\ Head(q.rest) = "saveApplication" /\ a = q.app /\ f \in q.held
        /\ rows'[a][f] = q.copy[f]
    BY <1>2, <1>9 DEF CopyWritten
  <2>2. /\ HasLoaded(q.op, q.rest) /\ "createPart" \notin StepsOf(q.rest)
        /\ "invoice" \notin StepsOf(q.rest) /\ q.op \notin CompanyOperations
    BY <1>4, <2>1 DEF Situated, Situation, HasLoaded
  <2>3. IF f = "status" /\ q.op \in {"submit", "card"} THEN rows[a]["status"] = "ACTIVE"
        ELSE IF f = q.op THEN f # "security" => rows[a][f] = 0
        ELSE f # "supplier" => q.copy[f] = rows[a][f]
    BY <1>3, <1>7, <2>1 DEF CopyFresh
  <2>4. CASE f = "status" /\ q.op \in {"submit", "card"}
    <3>1. q.copy["status"] = "IN_REVIEW"
      BY <1>4, <2>2, <2>4 DEF HandsOK, InHand
    <3>2. QED  BY <2>1, <2>3, <2>4, <3>1 DEF Rightly
  <2>5. CASE ~ (f = "status" /\ q.op \in {"submit", "card"}) /\ f = q.op
    <3>1. f \in PartNames
      BY <1>4, <2>2, <2>5, FieldNames DEF OperationNames, CompanyOperations, PartNames
    <3>2. q.copy[f] = q.part /\ q.part # 0 /\ q.part \in Nat
      BY <1>4, <2>2, <2>5, <3>1 DEF HandsOK, InHand, RequestType
    <3>3. QED  BY <2>1, <2>3, <2>5, <3>1, <3>2 DEF Rightly
  <2>6. CASE ~ (f = "status" /\ q.op \in {"submit", "card"}) /\ f # q.op
    <3>1. f = "supplier"
      BY <2>1, <2>3, <2>6
    <3>2. q.copy["supplier"] /\ q.copy["supplier"] \in BOOLEAN
      BY <1>4, <1>8, <2>1, <3>1 DEF HandsOK, InHand, Rows
    <3>3. rows'[a][f] = TRUE
      BY <2>1, <3>1, <3>2
    <3>4. "supplier" \in Loaded(q.op)
      <4>1. q.held = Columns \cup Loaded(q.op)
        BY <1>4, <2>1, HeldIs
      <4>2. QED  BY <2>1, <3>1, <4>1 DEF Columns
    <3>5. q.op \in {"supplierInformation", "updateSupplier"}
      BY <1>4, <2>2, <3>4, LoadedIs
    <3>6. QED  BY <2>1, <3>1, <3>3, <3>5 DEF Rightly
  <2>7. QED  BY <2>4, <2>5, <2>6
<1>10. ASSUME ListWritten(q, a, f)
       PROVE  Rightly(q, a, f, rows[a][f], rows'[a][f])
  <2>1. f \in q.lists /\ f \in SavedLists(Head(q.rest)) /\ f \in {"company", "supplier"}
    BY <1>10 DEF ListWritten, Lists
  <2>2. rows'[a][f] = TRUE <=> a \in ToList(q, f)
    <3>1. Value(q, a, f) = (a \in ToList(q, f))
      BY <1>10 DEF ListWritten
    <3>2. QED  BY <1>2, <3>1, Zenon
  <2>3. rows'[a][f] \in BOOLEAN /\ rows[a][f] \in BOOLEAN
    BY <1>2, <1>8, <1>10, <2>1 DEF ListWritten, Rows
  <2>4. CASE f = "supplier" /\ q.op = "updateSupplier" /\ a = q.app
    BY <2>4 DEF Rightly
  <2>5. CASE ~ (f = "supplier" /\ q.op = "updateSupplier" /\ a = q.app)
    <3>1. a \in q.listed[f] <=> rows[a][f] = TRUE
      BY <1>3, <1>7, <2>1, <2>5 DEF ListFresh
    <3>2. ~ (a \in ToList(q, f) <=> a \in q.listed[f])
      BY <2>2, <2>3, <3>1
    <3>3. /\ a = q.app /\ a \in ToList(q, f)
          /\ \/ q.op = "create" /\ Head(q.rest) = "saveCompany"
             \/ q.op = "supplierInformation" /\ Head(q.rest) = "saveSupplier"
      BY <3>2, ToListIs
    <3>4. rows'[a][f] = TRUE
      BY <2>2, <3>3
    <3>5. \/ f = "company" /\ q.op = "create" /\ Head(q.rest) = "saveCompany"
          \/ f = "supplier" /\ q.op = "supplierInformation" /\ Head(q.rest) = "saveSupplier"
      BY <2>1, <3>3, SavedListsAre
    <3>6. QED  BY <3>3, <3>4, <3>5 DEF Rightly
  <2>6. QED  BY <2>4, <2>5
<1>11. QED  BY <1>2, <1>6, <1>9, <1>10

(* What another request holds is not written, or it is exposed.            *)
LEMMA WriteSpares ==
  ASSUME TypedOK, NEW r \in Requests, WriteRows(r), NEW s \in Requests, s # r
  PROVE  Unwritten(requests[s], rows, rows', exposed')
<1>1. ASSUME NEW a \in Applications, NEW f \in Fields \ {"purchaseOrderId"},
             HoldsField(requests[s], a, f), <<a, f>> \notin exposed'
      PROVE  rows'[a][f] = rows[a][f]
  <2>1. <<a, f>> \in HeldBy(Requests \ {r})
    BY <1>1 DEF HeldBy, Holds, HoldsField
  <2>2. <<a, f>> \notin requests[r].changes
    BY <1>1, <2>1 DEF WriteRows
  <2>3. QED  BY <2>2, WriteIs
<1>2. QED  BY <1>1 DEF Unwritten

(* A list that is held is still to be saved.                               *)
LEMMA LeftLists ==
  ASSUME NEW C, NEW p \in RequestType, HandsOK(p, C), NEW f \in p.lists
  PROVE  /\ f = "company" => {"saveCompany", "saveRelationship"} \cap StepsOf(p.rest) # {}
         /\ f = "supplier" => {"saveSupplier", "saveRelationship"} \cap StepsOf(p.rest) # {}
<1>1. PICK step \in StepsOf(p.rest) : f \in SavedLists(step)
  BY DEF HandsOK, InHand, ListsOf
<1>2. step \in Steps
  BY DEF RequestType, StepsOf
<1>3. QED  BY <1>1, <1>2, SavedListsAre

(* What a request still holds after a save is fresh.                       *)
LEMMA WrittenIsFresh ==
  ASSUME TypedOK, FreshOK, NEW r \in Requests, WriteRows(r), NEW n, NEW p \in RequestType,
         WritesAs(requests[r], n), Kept(n, Tail(requests[r].rest), p), HandsOK(p, created)
  PROVE  Fresh(p, created, rows', exposed')
<1> DEFINE q == requests[r]
<1>1. CASE p = NoRequest
  BY <1>1, IdleIsFresh
<1>2. CASE p # NoRequest
  <2>1. /\ q \in RequestType /\ HandsOK(q, created) /\ q.rest # <<>> /\ Head(q.rest) \in Saves
        /\ q.op \in OperationNames /\ Situated(q)
    BY SaveIs DEF WriteRows
  <2>2. CopyFresh(q, rows, exposed) /\ ListFresh(q, rows, exposed)
    BY IsFresh
  <2>3. /\ p.op = q.op /\ p.app = q.app /\ p.read = FALSE /\ p.rest = Tail(q.rest)
        /\ (p.held = q.held /\ p.copy = q.copy) \/ p.held = {}
        /\ p.lists \subseteq q.lists /\ \A f \in p.lists : p.listed[f] = q.listed[f]
    BY <1>2 DEF Kept, WritesAs, Same
  <2>4. exposed \subseteq exposed' /\ created \subseteq Applications
    BY DEF WriteRows, TypedOK, TablesOK
  <2>5. ASSUME NEW a \in Applications, NEW f \in Fields, f # "purchaseOrderId",
               <<a, f>> \notin exposed', rows'[a][f] # rows[a][f]
        PROVE  Rightly(q, a, f, rows[a][f], rows'[a][f])
    BY <2>5, WriteKeeps
  <2> HIDE DEF q
  <2>6. p.held \subseteq Fields /\ p.lists \subseteq Lists /\ Lists \subseteq Fields
        /\ "purchaseOrderId" \notin Lists
    BY DEF RequestType, Lists, Fields, Columns
  <2>7. ASSUME NEW f \in p.held \ {"purchaseOrderId"}, <<p.app, f>> \notin exposed'
        PROVE  IF f = "status" /\ p.op \in {"submit", "card"} THEN rows'[p.app]["status"] = "ACTIVE"
               ELSE IF f = p.op THEN f # "security" => rows'[p.app][f] = 0
               ELSE f # "supplier" => p.copy[f] = rows'[p.app][f]
    <3>1. p.held = q.held /\ p.copy = q.copy /\ q.held # {}
      BY <2>3
    <3>2. q.app \in Applications /\ q.op \notin CompanyOperations
      BY <2>1, <2>4, <3>1, AppIsCreated, HeldIs
    <3>3. "saveApplication" \in StepsOf(Tail(q.rest))
      BY <2>3 DEF HandsOK, InHand, HasLoaded
    <3>4. Head(q.rest) # "saveApplication"
      BY <2>1, <3>3 DEF Situated, Situation
    <3>5. CASE f = "supplier"
      BY <2>3, <3>2, <3>5 DEF CompanyOperations
    <3>6. CASE f # "supplier"
      <4>1. rows'[q.app][f] = rows[q.app][f]
        <5>1. ASSUME rows'[q.app][f] # rows[q.app][f] PROVE FALSE
          <6>1. Rightly(q, q.app, f, rows[q.app][f], rows'[q.app][f])
            BY <2>3, <2>5, <2>6, <2>7, <3>2, <5>1
          <6>2. QED  BY <3>2, <3>4, <3>6, <6>1 DEF Rightly, CompanyOperations
        <5>2. QED  BY <5>1
      <4>2. <<q.app, f>> \notin exposed
        BY <2>3, <2>4, <2>7
      <4>3. IF f = "status" /\ q.op \in {"submit", "card"} THEN rows[q.app]["status"] = "ACTIVE"
            ELSE IF f = q.op THEN f # "security" => rows[q.app][f] = 0
            ELSE f # "supplier" => q.copy[f] = rows[q.app][f]
        BY <2>2, <3>1, <4>2 DEF CopyFresh
      <4>4. QED  BY <2>3, <3>1, <4>1, <4>3
    <3>7. QED  BY <3>5, <3>6
  <2>8. ASSUME NEW f \in p.lists, NEW a \in Applications, <<a, f>> \notin exposed',
               ~ (f = "supplier" /\ p.op = "updateSupplier" /\ a = p.app)
        PROVE  a \in p.listed[f] <=> rows'[a][f] = TRUE
    <3>1. f \in q.lists /\ p.listed[f] = q.listed[f] /\ <<a, f>> \notin exposed
          /\ f \in Fields /\ f # "purchaseOrderId" /\ f \in {"company", "supplier"}
      BY <2>3, <2>4, <2>6, <2>8 DEF Lists
    <3>2. rows'[a][f] = rows[a][f]
      <4>1. ASSUME rows'[a][f] # rows[a][f] PROVE FALSE
        <5>1. Rightly(q, a, f, rows[a][f], rows'[a][f])
          BY <2>5, <2>8, <3>1, <4>1
        <5>2. /\ f = "company" => {"saveCompany", "saveRelationship"} \cap StepsOf(Tail(q.rest)) # {}
              /\ f = "supplier" => {"saveSupplier", "saveRelationship"} \cap StepsOf(Tail(q.rest)) # {}
          BY <2>3, <2>8, LeftLists
        <5>3. CASE f = "company"
          <6>1. q.op = "create" /\ Head(q.rest) = "saveCompany"
            BY <5>1, <5>3 DEF Rightly, PartNames
          <6>2. StepsOf(Tail(q.rest)) = {}
            BY <2>1, <6>1 DEF Situated, Situation
          <6>3. QED  BY <5>2, <5>3, <6>2
        <5>4. CASE f = "supplier"
          <6>1. q.op = "supplierInformation" /\ Head(q.rest) \in {"saveApplication", "saveSupplier"}
            BY <2>3, <2>8, <5>1, <5>4 DEF Rightly, PartNames
          <6>2. {"saveSupplier", "saveRelationship"} \cap StepsOf(Tail(q.rest)) = {}
            BY <2>1, <6>1 DEF Situated, Situation
          <6>3. QED  BY <5>2, <5>4, <6>2
        <5>5. QED  BY <3>1, <5>3, <5>4
      <4>2. QED  BY <4>1
    <3>3. a \in q.listed[f] <=> rows[a][f] = TRUE
      BY <2>2, <2>3, <2>8, <3>1 DEF ListFresh
    <3>4. QED  BY <3>1, <3>2, <3>3
  <2>9. CopyFresh(p, rows', exposed')
    BY <2>7 DEF CopyFresh
  <2>10. ListFresh(p, rows', exposed')
    BY <2>8 DEF ListFresh
  <2>11. Known(p, created, rows', exposed')
    BY <2>3 DEF Known
  <2>12. QED  BY <2>9, <2>10, <2>11 DEF Fresh
<1>3. QED  BY <1>1, <1>2

(* What is written makes only that stale which it exposes.                 *)
LEMMA WriteFresh ==
  ASSUME TypedOK, FreshOK, NEW r \in Requests, WriteRows(r)
  PROVE  FreshOK'
<1>1. PICK n \in RequestType : WritesAs(requests[r], n) /\ Goes(r, n)
  BY WriteIs
<1>2. PICK p \in RequestType :
        /\ Kept(n, Tail(requests[r].rest), p) /\ HandsOK(p, created')
        /\ requests' = [requests EXCEPT ![r] = p]
  BY <1>1 DEF Goes
<1>3. created' = created /\ exposed \subseteq exposed'
  BY DEF WriteRows
<1>4. Fresh(p, created, rows', exposed')
  BY <1>1, <1>2, <1>3, WrittenIsFresh
<1>5. requests \in [Requests -> RequestType] /\ created \subseteq Applications
  BY DEF TypedOK, TablesOK
<1>6. ASSUME NEW s \in Requests PROVE Fresh(requests'[s], created, rows', exposed')
  <2>1. CASE s = r
    BY <1>2, <1>4, <1>5, <2>1
  <2>2. CASE s # r
    <3>1. requests'[s] = requests[s] /\ requests[s] \in RequestType
      BY <1>2, <1>5, <2>2
    <3>2. HandsOK(requests[s], created) /\ Fresh(requests[s], created, rows, exposed)
      BY DEF FreshOK, TypedOK, Served
    <3>3. Unwritten(requests[s], rows, rows', exposed')
      BY <2>2, WriteSpares
    <3>4. Fresh(requests[s], created, rows', exposed')
      BY <1>3, <1>5, <3>1, <3>2, <3>3, UnwrittenIsFresh
    <3>5. QED  BY <3>1, <3>4
  <2>3. QED  BY <2>1, <2>2
<1>7. QED  BY <1>3, <1>6 DEF FreshOK

(* At first nothing is held.                                               *)
LEMMA FirstFresh == Init => FreshOK
<1> SUFFICES ASSUME Init PROVE FreshOK
  OBVIOUS
<1>1. \A r \in Requests : requests[r] = NoRequest
  BY DEF Init
<1>2. QED  BY <1>1, IdleIsFresh DEF FreshOK

(* Every step leaves what is held fresh, or exposed.                       *)
LEMMA NextFresh ==
  ASSUME TypedOK, FreshOK, [Next]_vars
  PROVE  FreshOK'
<1>1. CASE UNCHANGED vars
  <2>1. UNCHANGED <<created, rows, requests, exposed>>
    BY <1>1 DEF vars, tables
  <2>2. QED  BY <2>1 DEF FreshOK
<1>2. ASSUME NEW r \in Requests, Receive(r) \/ ReceiveForCompany(r) PROVE FreshOK'
  BY <1>2, ServeFresh
<1>3. ASSUME NEW r \in Requests, Step(r) PROVE FreshOK'
  <2>1. CASE LoadCompany(r)
    <3>1. UNCHANGED <<rows, created, exposed>> /\ "company" \in Lists
      BY <2>1 DEF LoadCompany, tables, Lists
    <3>2. QED  BY <2>1, <3>1, LoadCompanyIs, FreshList
  <2>2. CASE LoadSupplier(r)
    <3>1. UNCHANGED <<rows, created, exposed>> /\ "supplier" \in Lists
      BY <2>2 DEF LoadSupplier, tables, Lists
    <3>2. QED  BY <2>2, <3>1, LoadSupplierIs, FreshList
  <2>3. QED
    BY <1>3, <2>1, <2>2, LoadFresh, CheckFresh, InsertFresh, PartFresh, InvoiceFresh,
       ReadFresh, WriteFresh DEF Step
<1>4. CASE Fault
  BY <1>4, FaultFresh
<1>5. QED  BY <1>1, <1>2, <1>3, <1>4 DEF Next

(* A request holds what is in the rows, but for what was written while it   *)
(* held it, or by a request that failed.                                   *)
THEOREM CopiesAreFresh == Spec => [](TypedOK /\ FreshOK)
<1>1. Init => TypedOK /\ FreshOK
  BY FirstTyped, FirstFresh
<1>2. TypedOK /\ FreshOK /\ [Next]_vars => (TypedOK /\ FreshOK)'
  BY NextTyped, NextFresh
<1>3. QED  BY <1>1, <1>2, PTL DEF Spec

-----------------------------------------------------------------------------
(* What stays *)

(* Rows are only changed by a save.                                        *)
LEMMA RowsChange ==
  ASSUME [Next]_vars
  PROVE  rows' = rows \/ \E r \in Requests : WriteRows(r)
<1>1. CASE UNCHANGED vars
  BY <1>1 DEF vars, tables
<1>2. ASSUME NEW r \in Requests, Receive(r) \/ ReceiveForCompany(r)
      PROVE  rows' = rows
  BY <1>2 DEF Receive, ReceiveForCompany, Serve, tables
<1>3. ASSUME NEW r \in Requests, Step(r), ~ WriteRows(r)
      PROVE  rows' = rows
  BY <1>3 DEF Step, Load, LoadCompany, LoadSupplier, CheckActive, Insert, CreatePart,
     SendInvoice, ReadRows, tables
<1>4. CASE Fault
  BY <1>4 DEF Fault, Crash, StripeFails, StatementFails, tables
<1>5. QED  BY <1>1, <1>2, <1>3, <1>4 DEF Next

(* What a step changes in a field that is not exposed.                     *)
LEMMA Changes ==
  ASSUME TypedOK, FreshOK, [Next]_vars, NEW a \in Applications, NEW f \in Fields,
         f # "purchaseOrderId", <<a, f>> \notin exposed', rows'[a][f] # rows[a][f]
  PROVE  \E r \in Requests : Rightly(requests[r], a, f, rows[a][f], rows'[a][f])
<1>1. PICK r \in Requests : WriteRows(r)
  BY RowsChange
<1>2. Rightly(requests[r], a, f, rows[a][f], rows'[a][f])
  BY <1>1, WriteKeeps
<1>3. QED  BY <1>2

(* A part that was filled in stays the one that was filled in.             *)
THEOREM PartsAlwaysStay == Spec => PartsStay
<1>1. TypedOK /\ FreshOK /\ [Next]_vars =>
        [\A a \in created, p \in PartNames \ {"security"} :
           rows[a][p] # 0 => rows'[a][p] = rows[a][p] \/ <<a, p>> \in exposed']_vars
  <2> SUFFICES ASSUME TypedOK, FreshOK, [Next]_vars, NEW a \in created,
                      NEW p \in PartNames \ {"security"}, rows[a][p] # 0,
                      rows'[a][p] # rows[a][p], <<a, p>> \notin exposed'
               PROVE  FALSE
    OBVIOUS
  <2>1. a \in Applications /\ p \in Fields /\ p # "purchaseOrderId"
    BY DEF TypedOK, TablesOK, PartNames, Fields
  <2>2. PICK r \in Requests : Rightly(requests[r], a, p, rows[a][p], rows'[a][p])
    BY <2>1, Changes
  <2>3. QED  BY <2>2 DEF Rightly, PartNames
<1>2. QED  BY <1>1, CopiesAreFresh, PTL DEF Spec, PartsStay

(* What was submitted is not opened again.                                 *)
THEOREM SubmittedAlwaysStays == Spec => SubmittedStays
<1>1. TypedOK /\ FreshOK /\ [Next]_vars =>
        [\A a \in created :
           IsSubmitted(rows[a]) =>
             IsSubmitted(rows'[a]) \/ <<a, "status">> \in exposed']_vars
  <2> SUFFICES ASSUME TypedOK, FreshOK, [Next]_vars, NEW a \in created,
                      IsSubmitted(rows[a]), ~ IsSubmitted(rows'[a]),
                      <<a, "status">> \notin exposed'
               PROVE  FALSE
    OBVIOUS
  <2>1. a \in Applications /\ "status" \in Fields
    BY DEF TypedOK, TablesOK, Fields, Columns
  <2>2. rows[a]["status"] = "IN_REVIEW" /\ rows'[a]["status"] # rows[a]["status"]
    BY DEF IsSubmitted
  <2>3. PICK r \in Requests : Rightly(requests[r], a, "status", rows[a]["status"], rows'[a]["status"])
    BY <2>1, <2>2, Changes
  <2>4. QED  BY <2>2, <2>3 DEF Rightly, PartNames
<1>2. QED  BY <1>1, CopiesAreFresh, PTL DEF Spec, SubmittedStays

(* A supplier that was chosen stays, unless it is updated.                 *)
THEOREM SupplierAlwaysStays == Spec => SupplierStays
<1>1. TypedOK /\ FreshOK /\ [Next]_vars =>
        [\A a \in created :
           rows[a].supplier =>
             rows'[a].supplier \/ Updating(a) \/ <<a, "supplier">> \in exposed']_vars
  <2> SUFFICES ASSUME TypedOK, FreshOK, [Next]_vars, NEW a \in created,
                      rows[a].supplier, ~ rows'[a].supplier, ~ Updating(a),
                      <<a, "supplier">> \notin exposed'
               PROVE  FALSE
    OBVIOUS
  <2>1. a \in Applications /\ "supplier" \in Fields
    BY DEF TypedOK, TablesOK, Fields
  <2>2. rows'[a]["supplier"] # rows[a]["supplier"]
    OBVIOUS
  <2>3. PICK r \in Requests : Rightly(requests[r], a, "supplier", rows[a]["supplier"], rows'[a]["supplier"])
    BY <2>1, <2>2, Changes
  <2>4. requests[r].app = a
        /\ (requests[r].op = "updateSupplier" \/ rows'[a]["supplier"] = TRUE)
    BY <2>3 DEF Rightly, PartNames
  <2>5. QED  BY <2>4 DEF Updating
<1>2. QED  BY <1>1, CopiesAreFresh, PTL DEF Spec, SupplierStays

(* What was exposed stays exposed.                                         *)
LEMMA ExposedGrows ==
  ASSUME [Next]_vars
  PROVE  exposed \subseteq exposed'
<1>1. CASE UNCHANGED vars
  BY <1>1 DEF vars
<1>2. ASSUME NEW r \in Requests, Receive(r) \/ ReceiveForCompany(r)
      PROVE  exposed' = exposed
  BY <1>2 DEF Receive, ReceiveForCompany, Serve
<1>3. ASSUME NEW r \in Requests, Step(r)
      PROVE  exposed \subseteq exposed'
  BY <1>3 DEF Step, Load, LoadCompany, LoadSupplier, CheckActive, Insert, CreatePart,
     SendInvoice, ReadRows, WriteRows
<1>4. CASE Fault
  BY <1>4 DEF Fault, Crash, StripeFails, StatementFails
<1>5. QED  BY <1>1, <1>2, <1>3, <1>4 DEF Next

-----------------------------------------------------------------------------
(* One active application *)

(* The statements of a request to create an application.                   *)
LEMMA CreateSteps ==
  ASSUME NEW q \in RequestType, Planned(q), q.op = "create"
  PROVE  /\ q.rest # <<>>
         /\ \/ Head(q.rest) = "loadCompany" /\ StepsOf(Tail(q.rest)) = {"check", "insert", "saveCompany"}
            \/ Head(q.rest) = "check" /\ StepsOf(Tail(q.rest)) = {"insert", "saveCompany"}
            \/ Head(q.rest) = "insert" /\ StepsOf(Tail(q.rest)) = {"saveCompany"}
            \/ Head(q.rest) = "saveCompany" /\ StepsOf(Tail(q.rest)) = {} /\ Tail(q.rest) = <<>>
         /\ StepsOf(q.rest) = {Head(q.rest)} \cup StepsOf(Tail(q.rest))
         /\ Tail(q.rest) = <<>> => Head(q.rest) = "saveCompany"
<1> DEFINE s == <<"loadCompany", "check", "insert", "saveCompany">>
<1>1. q # NoRequest /\ "create" \in OperationNames
  BY NoRequestIs DEF OperationNames
<1>2. q.rest # <<>>
  BY <1>1, RestIs
<1>3. PICK p \in Plans("create") : \E k \in 1 .. Len(p) : q.rest = From(p, k)
  BY <1>1 DEF Planned
<1>4. PICK k \in 1 .. Len(p) : q.rest = From(p, k)
  BY <1>3
<1>5. p = s
  <2>1. Programs("create") = {s}
    BY Zenon DEF Programs
  <2>2. QED  BY <2>1 DEF Plans
<1>6. Len(p) = 4 /\ p[1] = "loadCompany" /\ p[2] = "check" /\ p[3] = "insert" /\ p[4] = "saveCompany"
  BY <1>5
<1>7. /\ Head(q.rest) = p[k]
      /\ StepsOf(q.rest) = {p[j] : j \in k .. Len(p)}
      /\ StepsOf(Tail(q.rest)) = {p[j] : j \in k + 1 .. Len(p)}
      /\ k = Len(p) => Tail(q.rest) = <<>>
  BY <1>1, <1>3, <1>4, TakesOneStep
<1>8. k = 1 \/ k = 2 \/ k = 3 \/ k = 4
  BY <1>6
<1>9. StepsOf(<<>>) = {}
  BY DEF StepsOf
<1>10. CASE k = 1
  <2>1. \A j \in 2 .. 4 : j = 2 \/ j = 3 \/ j = 4
    OBVIOUS
  <2>2. Head(q.rest) = "loadCompany" /\ StepsOf(Tail(q.rest)) = {"check", "insert", "saveCompany"}
    BY <1>6, <1>7, <1>10, <2>1
  <2>3. \A j : j \in 1 .. 4 <=> j = 1 \/ j \in 2 .. 4
    OBVIOUS
  <2>4. StepsOf(q.rest) = {Head(q.rest)} \cup StepsOf(Tail(q.rest))
    BY <1>6, <1>7, <1>10, <2>3
  <2>5. QED  BY <1>2, <1>9, <2>2, <2>4
<1>11. CASE k = 2
  <2>1. \A j \in 3 .. 4 : j = 3 \/ j = 4
    OBVIOUS
  <2>2. Head(q.rest) = "check" /\ StepsOf(Tail(q.rest)) = {"insert", "saveCompany"}
    BY <1>6, <1>7, <1>11, <2>1
  <2>3. \A j : j \in 2 .. 4 <=> j = 2 \/ j \in 3 .. 4
    OBVIOUS
  <2>4. StepsOf(q.rest) = {Head(q.rest)} \cup StepsOf(Tail(q.rest))
    BY <1>6, <1>7, <1>11, <2>3
  <2>5. QED  BY <1>2, <1>9, <2>2, <2>4
<1>12. CASE k = 3
  <2>1. \A j \in 4 .. 4 : j = 4
    OBVIOUS
  <2>2. Head(q.rest) = "insert" /\ StepsOf(Tail(q.rest)) = {"saveCompany"}
    BY <1>6, <1>7, <1>12, <2>1
  <2>3. \A j : j \in 3 .. 4 <=> j = 3 \/ j \in 4 .. 4
    OBVIOUS
  <2>4. StepsOf(q.rest) = {Head(q.rest)} \cup StepsOf(Tail(q.rest))
    BY <1>6, <1>7, <1>12, <2>3
  <2>5. QED  BY <1>2, <1>9, <2>2, <2>4
<1>13. CASE k = 4
  <2>1. Head(q.rest) = "saveCompany" /\ Tail(q.rest) = <<>>
    BY <1>6, <1>7, <1>13
  <2>2. StepsOf(q.rest) = {"saveCompany"}
    <3>1. \A j \in 4 .. 4 : j = 4
      OBVIOUS
    <3>2. QED  BY <1>6, <1>7, <1>13, <3>1
  <2>3. QED  BY <1>2, <1>9, <2>1, <2>2
<1>14. QED  BY <1>8, <1>10, <1>11, <1>12, <1>13

(* A request that goes on with the same application.                       *)
LEMMA KeptCreates ==
  ASSUME NEW R, NEW E, NEW q \in RequestType, Planned(q), NEW n, n.op = q.op, n.app = q.app,
         NEW rest, rest = Tail(q.rest) \/ q.op = "buyerInformation",
         NEW p, Kept(n, rest, p), CreateOK(q, R, E),
         Head(q.rest) \notin {"check"}
  PROVE  CreateOK(p, R, E)
<1>1. CASE p = NoRequest
  BY <1>1, NoRequestIs DEF CreateOK
<1>2. CASE p # NoRequest
  <2>1. SUFFICES ASSUME p.op = "create" PROVE CreateOK(p, R, E)
    BY DEF CreateOK
  <2>2. p.rest = Tail(q.rest) /\ p.app = q.app /\ q.op = "create"
    BY <1>2, <2>1 DEF Kept
  <2>3. StepsOf(q.rest) = {Head(q.rest)} \cup StepsOf(p.rest)
    BY <2>2, CreateSteps
  <2>4. QED  BY <2>2, <2>3 DEF CreateOK
<1>3. QED  BY <1>1, <1>2

(* A request that is not served creates nothing.                           *)
LEMMA IdleCreates ==
  ASSUME NEW R, NEW E
  PROVE  CreateOK(NoRequest, R, E)
  BY NoRequestIs DEF CreateOK

(* It is enough to look at the request that a step is of.                  *)
LEMMA CreateOne ==
  ASSUME TypedOK, CreateAlone, UNCHANGED <<rows, exposed>>, NEW r \in Requests, NEW p,
         requests' = [requests EXCEPT ![r] = p], CreateOK(p, rows, exposed)
  PROVE  CreateAlone'
<1>1. requests \in [Requests -> RequestType]
  BY DEF TypedOK, TablesOK
<1>2. ASSUME NEW s \in Requests PROVE CreateOK(requests'[s], rows, exposed)
  <2>1. CASE s = r
    BY <1>1, <2>1
  <2>2. CASE s # r
    BY <1>1, <2>2 DEF CreateAlone
  <2>3. QED  BY <2>1, <2>2
<1>3. QED  BY <1>2 DEF CreateAlone

(* A request goes on creating, once it has checked, alone.                 *)
LEMMA CreateGoes ==
  ASSUME TypedOK, CreateAlone, UNCHANGED <<rows, exposed>>, NEW r \in Requests, NEW n,
         Goes(r, n), n.op = requests[r].op, n.app = requests[r].app,
         Head(requests[r].rest) # "check"
  PROVE  CreateAlone'
<1>1. PICK p : Kept(n, Tail(requests[r].rest), p) /\ requests' = [requests EXCEPT ![r] = p]
  BY DEF Goes
<1>2. requests[r] \in RequestType /\ Planned(requests[r]) /\ CreateOK(requests[r], rows, exposed)
  BY DEF TypedOK, TablesOK, Served, HandsOK, CreateAlone
<1>3. CreateOK(p, rows, exposed)
  BY <1>1, <1>2, KeptCreates
<1>4. QED  BY <1>1, <1>3, CreateOne

(* It is no matter what lists are loaded.                                  *)
LEMMA CreateList ==
  ASSUME TypedOK, CreateAlone, UNCHANGED <<rows, exposed>>, NEW r \in Requests, NEW f,
         ListLoaded(r, f), Head(requests[r].rest) # "check"
  PROVE  CreateAlone'
<1>1. PICK n \in RequestType, p \in RequestType, rest \in Seq(Steps) :
        /\ ListsAs(requests[r], f, ListOf(f), n) /\ Kept(n, rest, p)
        /\ rest = Tail(requests[r].rest) \/ requests[r].op = "buyerInformation"
        /\ requests' = [requests EXCEPT ![r] = p]
  BY DEF ListLoaded
<1>2. requests[r] \in RequestType /\ Planned(requests[r]) /\ CreateOK(requests[r], rows, exposed)
  BY DEF TypedOK, TablesOK, Served, HandsOK, CreateAlone
<1>3. CreateOK(p, rows, exposed)
  BY <1>1, <1>2, KeptCreates DEF ListsAs
<1>4. QED  BY <1>1, <1>3, CreateOne

(* A request that has checked has found no active application.             *)
LEMMA CreateChecks ==
  ASSUME TypedOK, CreateAlone, NEW r \in Requests, CheckActive(r)
  PROVE  CreateAlone'
<1>1. UNCHANGED <<rows, exposed>>
  BY DEF CheckActive, tables
<1>2. CASE requests' = [requests EXCEPT ![r] = NoRequest]
  BY <1>1, <1>2, IdleCreates, CreateOne
<1>3. CASE ~ HasActive /\ Goes(r, requests[r])
  <2> DEFINE q == requests[r]
  <2>1. PICK p : Kept(q, Tail(q.rest), p) /\ requests' = [requests EXCEPT ![r] = p]
    BY <1>3 DEF Goes
  <2>2. q \in RequestType /\ Planned(q) /\ CreateOK(q, rows, exposed)
    BY DEF TypedOK, TablesOK, Served, HandsOK, CreateAlone
  <2>3. \A a \in Applications : ~ (rows[a]["company"] = TRUE /\ rows[a]["status"] = "ACTIVE")
    <3>1. \A a \in ListOf("company") : rows[a]["status"] # "ACTIVE"
      BY <1>3 DEF HasActive
    <3>2. ASSUME NEW a \in Applications, rows[a]["company"] = TRUE PROVE a \in ListOf("company")
      <4>1. a \in created
        BY <3>2, NewRowIs DEF TypedOK, TablesOK
      <4>2. QED  BY <3>2, <4>1 DEF ListOf
    <3>3. QED  BY <3>1, <3>2
  <2> HIDE DEF q
  <2>4. CreateOK(p, rows, exposed)
    <3>1. CASE p = NoRequest
      BY <3>1, IdleCreates
    <3>2. CASE p # NoRequest /\ p.op = "create"
      <4>1. p.rest = Tail(q.rest) /\ p.app = q.app /\ q.op = "create"
        BY <2>1, <3>2 DEF Kept
      <4>2. StepsOf(q.rest) = {Head(q.rest)} \cup StepsOf(p.rest)
        BY <2>2, <4>1, CreateSteps
      <4>3. QED  BY <2>2, <2>3, <4>1, <4>2 DEF CreateOK
    <3>3. CASE p.op # "create"
      BY <3>3 DEF CreateOK
    <3>4. QED  BY <3>1, <3>2, <3>3
  <2>5. QED  BY <1>1, <2>1, <2>4, CreateOne
<1>4. QED  BY <1>2, <1>3, CheckIs

(* The application that is created is that of the request.                 *)
LEMMA CreateInserts ==
  ASSUME TypedOK, CreateAlone, NEW r \in Requests, Insert(r)
  PROVE  CreateAlone'
<1> DEFINE q == requests[r]
<1>1. UNCHANGED <<rows, exposed>>
  BY DEF Insert
<1>2. PICK a \in Applications \ created, n \in RequestType : InsertsAs(q, a, n) /\ Goes(r, n)
  BY InsertIs
<1>3. PICK p : Kept(n, Tail(q.rest), p) /\ requests' = [requests EXCEPT ![r] = p]
  BY <1>2 DEF Goes
<1>4. q \in RequestType /\ Planned(q) /\ CreateOK(q, rows, exposed) /\ Head(q.rest) = "insert"
  BY AtIs DEF Insert, HandsOK, CreateAlone
<1>5. NoApplication \notin Applications
  BY ApplicationsAssumption
<1> HIDE DEF q
<1>6. CreateOK(p, rows, exposed)
  <2>1. CASE p = NoRequest
    BY <2>1, IdleCreates
  <2>2. CASE p # NoRequest /\ p.op = "create"
    <3>1. p.rest = Tail(q.rest) /\ q.op = "create"
      BY <1>2, <1>3, <2>2 DEF Kept, InsertsAs, Same
    <3>2. StepsOf(p.rest) = {"saveCompany"} /\ StepsOf(q.rest) = {"insert", "saveCompany"}
      BY <1>4, <3>1, CreateSteps
    <3>3. QED  BY <1>4, <1>5, <3>1, <3>2 DEF CreateOK
  <2>3. CASE p.op # "create"
    BY <2>3 DEF CreateOK
  <2>4. QED  BY <2>1, <2>2, <2>3
<1>7. QED  BY <1>1, <1>3, <1>6, CreateOne

(* What a request is to do at first.                                       *)
LEMMA BeginsWith ==
  ASSUME NEW op \in OperationNames, NEW p, NEW a, Begins(p, op, a)
  PROVE  /\ p.rest \in Seq(Steps) /\ Composed(op, p.rest)
         /\ \A s : s \in StepsOf(p.rest) <=> Occurs(p.rest, s)
<1>1. p.rest \in Plans(op)
  BY DEF Begins, Plans
<1>2. p.rest \in Seq(Steps) /\ Composed(op, p.rest)
  BY <1>1, PlansAreOrderly DEF Orderly
<1>3. QED  BY <1>2 DEF StepsOf, Occurs

(* A request that is served has checked nothing yet.                       *)
LEMMA CreateServes ==
  ASSUME TypedOK, CreateAlone, NEW r \in Requests, Receive(r) \/ ReceiveForCompany(r)
  PROVE  CreateAlone'
<1>1. PICK op \in Operations, a \in created \cup {NoApplication} :
        /\ op \notin CompanyOperations => a \in created
        /\ op \in CompanyOperations => a = NoApplication
        /\ Serve(r, op, a)
  BY ReceiveIs
<1>2. PICK p \in RequestType :
        requests' = [requests EXCEPT ![r] = p] /\ Begins(p, op, a)
  BY <1>1, ServeIs
<1>3. UNCHANGED <<rows, exposed>>
  BY <1>1 DEF Serve, tables
<1>4. op \in OperationNames
  BY ApplicationsAssumption
<1>5. p.op = op /\ p.app = a
  BY <1>2 DEF Begins
<1>6. op = "create" => "check" \in StepsOf(p.rest) /\ a = NoApplication
  BY <1>1, <1>2, <1>4, BeginsWith DEF Composed, CompanyOperations
<1>7. CreateOK(p, rows, exposed)
  BY <1>5, <1>6 DEF CreateOK
<1>8. QED  BY <1>2, <1>3, <1>7, CreateOne

(* An application that is active and listed after a save was so before, or *)
(* it is the one that the request created.                                 *)
LEMMA ActiveBefore ==
  ASSUME TypedOK, FreshOK, NEW r \in Requests, WriteRows(r), NEW q, q = requests[r],
         NEW a \in Applications, rows'[a]["company"] = TRUE, rows'[a]["status"] = "ACTIVE",
         \A f \in {"status", "company"} : <<a, f>> \notin exposed'
  PROVE  /\ rows[a]["status"] = "ACTIVE"
         /\ \/ rows[a]["company"] = TRUE
            \/ q.op = "create" /\ Head(q.rest) = "saveCompany" /\ a = q.app
<1>1. "status" \in Fields /\ "company" \in Fields /\ "status" \notin PartNames /\ "company" \notin PartNames
  BY DEF Fields, Columns, PartNames
<1>2. rows'[a]["status"] # rows[a]["status"] => FALSE
  <2>1. SUFFICES ASSUME rows'[a]["status"] # rows[a]["status"] PROVE FALSE
    OBVIOUS
  <2>2. Rightly(q, a, "status", rows[a]["status"], rows'[a]["status"])
    BY <1>1, <2>1, WriteKeeps
  <2>3. QED  BY <1>1, <2>2 DEF Rightly
<1>3. rows'[a]["company"] # rows[a]["company"] =>
        q.op = "create" /\ Head(q.rest) = "saveCompany" /\ a = q.app
  <2>1. SUFFICES ASSUME rows'[a]["company"] # rows[a]["company"]
                 PROVE  q.op = "create" /\ Head(q.rest) = "saveCompany" /\ a = q.app
    OBVIOUS
  <2>2. Rightly(q, a, "company", rows[a]["company"], rows'[a]["company"])
    BY <1>1, <2>1, WriteKeeps
  <2>3. QED  BY <1>1, <2>2 DEF Rightly
<1>4. QED  BY <1>2, <1>3

(* What a request that creates has left once it has checked or inserted.    *)
LEMMA CreateLeft ==
  ASSUME NEW q \in RequestType, Planned(q), q.op = "create"
  PROVE  /\ "check" \notin StepsOf(q.rest) \/ "insert" \notin StepsOf(q.rest) =>
              /\ Head(q.rest) \in {"insert", "saveCompany"}
              /\ "saveCompany" \in StepsOf(q.rest) /\ "loadCompany" \notin StepsOf(q.rest)
         /\ "insert" \notin StepsOf(q.rest) => Head(q.rest) = "saveCompany"
         /\ Head(q.rest) = "saveCompany" =>
              /\ "check" \notin StepsOf(q.rest) /\ "insert" \notin StepsOf(q.rest)
              /\ Tail(q.rest) = <<>>
<1> DEFINE h == Head(q.rest)
           A == StepsOf(q.rest)
           B == StepsOf(Tail(q.rest))
<1>1. A = {h} \cup B
  BY CreateSteps
<1>2. \/ h = "loadCompany" /\ B = {"check", "insert", "saveCompany"}
      \/ h = "check" /\ B = {"insert", "saveCompany"}
      \/ h = "insert" /\ B = {"saveCompany"}
      \/ h = "saveCompany" /\ B = {} /\ Tail(q.rest) = <<>>
  BY CreateSteps
<1> HIDE DEF h, A, B
<1>3. CASE h = "loadCompany" /\ B = {"check", "insert", "saveCompany"}
  <2>1. "check" \in A /\ "insert" \in A
    BY <1>1, <1>3
  <2>2. QED  BY <1>3, <2>1 DEF h, A
<1>4. CASE h = "check" /\ B = {"insert", "saveCompany"}
  <2>1. "check" \in A /\ "insert" \in A
    BY <1>1, <1>4
  <2>2. QED  BY <1>4, <2>1 DEF h, A
<1>5. CASE h = "insert" /\ B = {"saveCompany"}
  <2>1. "insert" \in A /\ "saveCompany" \in A /\ "loadCompany" \notin A
    BY <1>1, <1>5
  <2>2. QED  BY <1>5, <2>1 DEF h, A
<1>6. CASE h = "saveCompany" /\ B = {} /\ Tail(q.rest) = <<>>
  <2>1. /\ "insert" \notin A /\ "check" \notin A
        /\ "saveCompany" \in A /\ "loadCompany" \notin A
    BY <1>1, <1>6
  <2>2. QED  BY <1>6, <2>1 DEF h, A
<1>7. QED  BY <1>2, <1>3, <1>4, <1>5, <1>6

(* A request that has checked, or has inserted, holds the company's list.   *)
LEMMA CreatorHolds ==
  ASSUME NEW C, NEW q \in RequestType, HandsOK(q, C), q.op = "create",
         "check" \notin StepsOf(q.rest) \/ "insert" \notin StepsOf(q.rest)
  PROVE  "company" \in q.lists
<1>1. Head(q.rest) \in {"insert", "saveCompany"}
      /\ "saveCompany" \in StepsOf(q.rest) /\ "loadCompany" \notin StepsOf(q.rest)
  BY CreateLeft DEF HandsOK
<1>2. "company" \in ListsOf(q.rest)
  BY <1>1, SavedListsAre DEF ListsOf
<1>3. QED  BY <1>1, <1>2 DEF HandsOK, InHand, LoadOf

(* No other application becomes an active one of the company when a        *)
(* request has checked, or it is exposed.                                  *)
LEMMA CreateWrites ==
  ASSUME TypedOK, FreshOK, CreateAlone, NEW r \in Requests, WriteRows(r)
  PROVE  CreateAlone'
<1> DEFINE q == requests[r]
<1>1. PICK n \in RequestType : WritesAs(q, n) /\ Goes(r, n)
  BY WriteIs
<1>2. PICK p : Kept(n, Tail(q.rest), p) /\ requests' = [requests EXCEPT ![r] = p]
  BY <1>1 DEF Goes
<1>3. requests \in [Requests -> RequestType] /\ exposed \subseteq exposed'
  BY DEF TypedOK, TablesOK, WriteRows
<1>4. ASSUME NEW s \in Requests PROVE CreateOK(requests'[s], rows', exposed')
  <2>1. CASE s = r
    <3>1. requests'[s] = p /\ q \in RequestType /\ HandsOK(q, created) /\ CreateOK(q, rows, exposed)
      BY <1>2, <1>3, <2>1 DEF TypedOK, Served, CreateAlone
    <3>2. /\ Head(q.rest) \in Saves /\ q.rest # <<>>
      BY SaveIs DEF WriteRows
    <3>3. CASE p = NoRequest
      BY <3>1, <3>3, IdleCreates
    <3>4. CASE p # NoRequest
      <4>1. p.rest # <<>> /\ p.rest = Tail(q.rest) /\ p.op = q.op
        BY <1>1, <1>2, <3>4 DEF Kept, WritesAs, Same
      <4>2. q.op # "create"
        BY <3>1, <3>2, <4>1, CreateSteps DEF HandsOK, Saves
      <4>3. QED  BY <3>1, <4>1, <4>2 DEF CreateOK
    <3>5. QED  BY <3>3, <3>4
  <2>2. CASE s # r
    <3>1. requests'[s] = requests[s] /\ requests[s] \in RequestType
      BY <1>2, <1>3, <2>2
    <3>2. CreateOK(requests[s], rows, exposed) /\ HandsOK(requests[s], created)
      BY DEF CreateAlone, TypedOK, Served
    <3>3. Unwritten(requests[s], rows, rows', exposed')
      BY <2>2, WriteSpares
    <3>4. ASSUME requests[s].op = "create", "check" \notin StepsOf(requests[s].rest),
                 NEW a \in Applications, rows'[a]["company"] = TRUE,
                 rows'[a]["status"] = "ACTIVE", a # requests[s].app,
                 \A f \in {"status", "company"} : <<a, f>> \notin exposed'
          PROVE  FALSE
      <4>1. rows[a]["status"] = "ACTIVE"
        BY <3>4, ActiveBefore
      <4>2. "company" \in requests[s].lists
        BY <3>1, <3>2, <3>4, CreatorHolds
      <4>3. rows'[a]["company"] = rows[a]["company"]
        <5>1. "company" \in Fields \ {"purchaseOrderId"}
          BY DEF Fields, Columns
        <5>2. QED  BY <3>3, <3>4, <4>2, <5>1 DEF Unwritten, HoldsField
      <4>4. \E f \in {"status", "company"} : <<a, f>> \in exposed
        BY <3>2, <3>4, <4>1, <4>3 DEF CreateOK
      <4>5. QED  BY <1>3, <3>4, <4>4
    <3>5. CreateOK(requests[s], rows', exposed')
      BY <3>2, <3>4 DEF CreateOK
    <3>6. QED  BY <3>1, <3>5
  <2>3. QED  BY <2>1, <2>2
<1>5. QED  BY <1>4 DEF CreateAlone

(* Reading the rows makes none active.                                     *)
LEMMA CreateReads ==
  ASSUME TypedOK, CreateAlone, NEW r \in Requests, ReadRows(r)
  PROVE  CreateAlone'
<1> DEFINE q == requests[r]
<1>1. UNCHANGED <<rows, exposed>>
  BY DEF ReadRows, tables
<1>2. Head(q.rest) \in Saves
  BY SaveIs DEF ReadRows
<1>3. CASE Goes(r, q)
  BY <1>1, <1>2, <1>3, CreateGoes DEF Saves
<1>4. CASE ~ Goes(r, q)
  <2>1. PICK p : ReadAs(q, Differ(q), p) /\ requests' = [requests EXCEPT ![r] = p]
    BY <1>4, ReadIs
  <2>2. CreateOK(q, rows, exposed)
    BY DEF CreateAlone
  <2>3. CreateOK(p, rows, exposed)
    BY <2>1, <2>2 DEF CreateOK, ReadAs
  <2>4. QED  BY <1>1, <2>1, <2>3, CreateOne
<1>5. QED  BY <1>3, <1>4

(* Nor does a failure.                                                     *)
LEMMA CreateFaults ==
  ASSUME TypedOK, CreateAlone, Fault
  PROVE  CreateAlone'
<1>1. /\ rows' = rows /\ exposed \subseteq exposed'
      /\ \A r \in Requests : requests'[r] = requests[r] \/ requests'[r] = NoRequest
  BY FaultIs
<1>2. ASSUME NEW r \in Requests PROVE CreateOK(requests'[r], rows, exposed')
  <2>1. CASE requests'[r] = NoRequest
    BY <2>1, IdleCreates
  <2>2. CASE requests'[r] = requests[r]
    BY <1>1, <2>2 DEF CreateAlone, CreateOK
  <2>3. QED  BY <1>1, <2>1, <2>2
<1>3. QED  BY <1>1, <1>2 DEF CreateAlone

(* A request that has checked, creates alone, whatever the step.           *)
LEMMA NextCreates ==
  ASSUME TypedOK, FreshOK, CreateAlone, [Next]_vars
  PROVE  CreateAlone'
<1>1. CASE UNCHANGED vars
  <2>1. UNCHANGED <<rows, requests, exposed>>
    BY <1>1 DEF vars, tables
  <2>2. QED  BY <2>1 DEF CreateAlone
<1>2. ASSUME NEW r \in Requests, Receive(r) \/ ReceiveForCompany(r) PROVE CreateAlone'
  BY <1>2, CreateServes
<1>3. ASSUME NEW r \in Requests, Step(r) PROVE CreateAlone'
  <2>1. CASE Load(r)
    <3>1. UNCHANGED <<rows, exposed>> /\ Head(requests[r].rest) = "load"
      BY <2>1 DEF Load, At, tables
    <3>2. CASE requests' = [requests EXCEPT ![r] = NoRequest]
      BY <3>1, <3>2, IdleCreates, CreateOne
    <3>3. CASE \E n \in RequestType :
                 LoadsAs(requests[r], rows[requests[r].app], n) /\ Goes(r, n)
      BY <3>1, <3>3, CreateGoes DEF LoadsAs, Same
    <3>4. QED  BY <2>1, <3>2, <3>3, LoadIs
  <2>2. CASE LoadCompany(r)
    <3>1. UNCHANGED <<rows, exposed>> /\ Head(requests[r].rest) = "loadCompany"
      BY <2>2 DEF LoadCompany, At, tables
    <3>2. QED  BY <2>2, <3>1, LoadCompanyIs, CreateList
  <2>3. CASE LoadSupplier(r)
    <3>1. UNCHANGED <<rows, exposed>> /\ Head(requests[r].rest) = "loadSupplier"
      BY <2>3 DEF LoadSupplier, At, tables
    <3>2. QED  BY <2>3, <3>1, LoadSupplierIs, CreateList
  <2>4. CASE CreatePart(r)
    <3>1. UNCHANGED <<rows, exposed>> /\ Head(requests[r].rest) = "createPart"
      BY <2>4 DEF CreatePart, At
    <3>2. QED  BY <2>4, <3>1, PartIs, CreateGoes DEF PartsAs
  <2>5. CASE SendInvoice(r)
    <3>1. UNCHANGED <<rows, exposed>> /\ Head(requests[r].rest) = "invoice"
      BY <2>5 DEF SendInvoice, At
    <3>2. QED  BY <2>5, <3>1, InvoiceIs, CreateGoes DEF InvoicesAs, Same
  <2>6. QED
    BY <1>3, <2>1, <2>2, <2>3, <2>4, <2>5, CreateChecks, CreateInserts, CreateReads,
       CreateWrites DEF Step
<1>4. CASE Fault
  BY <1>4, CreateFaults
<1>5. QED  BY <1>1, <1>2, <1>3, <1>4 DEF Next

(* At first nothing is being created.                                      *)
LEMMA FirstCreates == Init => CreateAlone
<1> SUFFICES ASSUME Init PROVE CreateAlone
  OBVIOUS
<1>1. \A r \in Requests : requests[r] = NoRequest
  BY DEF Init
<1>2. QED  BY <1>1, IdleCreates DEF CreateAlone

(* Two applications that are active and listed are the same one.            *)
LEMMA FirstApart == Init => Apart
<1> SUFFICES ASSUME Init PROVE Apart
  OBVIOUS
<1>1. CASE created = {} /\ rows = [a \in Applications |-> NewRow]
  BY <1>1, NewRowIs DEF Apart
<1>2. ASSUME NEW filling \in Fillings,
             rows = [a \in Applications |-> IF a = NextOf(Applications) THEN FirstRow(filling) ELSE NewRow]
      PROVE  Apart
  <2>1. \A a \in Applications : rows[a]["company"] = TRUE => a = NextOf(Applications)
    <3>1. ASSUME NEW a \in Applications, a # NextOf(Applications) PROVE rows[a] = NewRow
      BY <1>2, <3>1
    <3>2. QED  BY <3>1, NewRowIs
  <2>2. QED  BY <2>1 DEF Apart
<1>3. QED  BY <1>1, <1>2 DEF Init

(* Only a request that has checked adds an application to the list.        *)
LEMMA NextApart ==
  ASSUME TypedOK, FreshOK, CreateAlone, Apart, [Next]_vars
  PROVE  Apart'
<1>1. exposed \subseteq exposed'
  BY ExposedGrows
<1>2. CASE rows' = rows
  <2>1. SUFFICES ASSUME NEW a \in Applications, NEW b \in Applications,
                        rows[a]["company"] = TRUE, rows[a]["status"] = "ACTIVE",
                        rows[b]["company"] = TRUE, rows[b]["status"] = "ACTIVE", a # b
                 PROVE  \E x \in {a, b}, f \in {"status", "company"} : <<x, f>> \in exposed'
    BY <1>2 DEF Apart
  <2>2. \E x \in {a, b}, f \in {"status", "company"} : <<x, f>> \in exposed
    BY <2>1 DEF Apart
  <2>3. QED  BY <1>1, <2>2
<1>3. ASSUME NEW r \in Requests, WriteRows(r) PROVE Apart'
  <2> DEFINE q == requests[r]
  <2>1. SUFFICES ASSUME NEW a \in Applications, NEW b \in Applications,
                        rows'[a]["company"] = TRUE, rows'[a]["status"] = "ACTIVE",
                        rows'[b]["company"] = TRUE, rows'[b]["status"] = "ACTIVE", a # b,
                        ~ \E x \in {a, b}, f \in {"status", "company"} : <<x, f>> \in exposed'
                 PROVE  FALSE
    BY DEF Apart
  <2>2. /\ \A f \in {"status", "company"} : <<a, f>> \notin exposed'
        /\ \A f \in {"status", "company"} : <<b, f>> \notin exposed'
    BY <2>1
  <2>3. /\ rows[a]["status"] = "ACTIVE"
        /\ \/ rows[a]["company"] = TRUE
           \/ q.op = "create" /\ Head(q.rest) = "saveCompany" /\ a = q.app
    BY <1>3, <2>1, <2>2, ActiveBefore
  <2>4. /\ rows[b]["status"] = "ACTIVE"
        /\ \/ rows[b]["company"] = TRUE
           \/ q.op = "create" /\ Head(q.rest) = "saveCompany" /\ b = q.app
    BY <1>3, <2>1, <2>2, ActiveBefore
  <2>5. CASE rows[a]["company"] = TRUE /\ rows[b]["company"] = TRUE
    <3>1. \E x \in {a, b}, f \in {"status", "company"} : <<x, f>> \in exposed
      BY <2>1, <2>3, <2>4, <2>5 DEF Apart
    <3>2. QED  BY <1>1, <2>1, <3>1
  <2>6. ASSUME q.op = "create", Head(q.rest) = "saveCompany", NEW c \in Applications, c # q.app,
               rows[c]["company"] = TRUE, rows[c]["status"] = "ACTIVE",
               \A f \in {"status", "company"} : <<c, f>> \notin exposed'
        PROVE  FALSE
    <3>1. CreateOK(q, rows, exposed) /\ q \in RequestType /\ Planned(q)
      BY DEF CreateAlone, TypedOK, TablesOK, Served, HandsOK
    <3>2. "check" \notin StepsOf(q.rest)
      BY <2>6, <3>1, CreateLeft
    <3>3. \E f \in {"status", "company"} : <<c, f>> \in exposed
      BY <2>6, <3>1, <3>2 DEF CreateOK
    <3>4. QED  BY <1>1, <2>6, <3>3
  <2>7. QED  BY <2>1, <2>2, <2>3, <2>4, <2>5, <2>6
<1>4. QED  BY <1>2, <1>3, RowsChange

(* A company has one active application at a time, unless its list or a    *)
(* status was exposed: checkActiveApplicationExists has the say.           *)
THEOREM OneActiveAlways == Spec => []OneActive
<1>1. Init => TypedOK /\ FreshOK /\ CreateAlone /\ Apart
  BY FirstTyped, FirstFresh, FirstCreates, FirstApart
<1>2. TypedOK /\ FreshOK /\ CreateAlone /\ Apart /\ [Next]_vars
        => (TypedOK /\ FreshOK /\ CreateAlone /\ Apart)'
  BY NextTyped, NextFresh, NextCreates, NextApart
<1>3. TypedOK /\ Apart => OneActive
  <2> SUFFICES ASSUME TypedOK, Apart, NEW a \in ListOf("company"), NEW b \in ListOf("company"),
                      rows[a].status = "ACTIVE" /\ rows[b].status = "ACTIVE"
               PROVE  \/ a = b
                      \/ \E x \in {a, b}, f \in {"status", "company"} : <<x, f>> \in exposed
    BY DEF OneActive
  <2>1. ASSUME NEW c \in ListOf("company"), rows[c].status = "ACTIVE"
        PROVE  c \in Applications /\ rows[c]["company"] = TRUE /\ rows[c]["status"] = "ACTIVE"
    <3>1. c \in Applications /\ rows[c] \in Rows /\ rows[c]["company"]
      BY DEF ListOf, TypedOK, TablesOK
    <3>2. rows[c]["company"] = TRUE
      BY <3>1 DEF Rows
    <3>3. rows[c]["status"] = "ACTIVE"
      BY <2>1
    <3>4. QED  BY <3>1, <3>2, <3>3
  <2>2. QED  BY <2>1 DEF Apart
<1>4. QED  BY <1>1, <1>2, <1>3, PTL DEF Spec

-----------------------------------------------------------------------------
(* Created applications are listed *)

(* A step is one request's.                                                *)
LEMMA StepChanges ==
  ASSUME NEW r \in Requests, Step(r)
  PROVE  \E p : requests' = [requests EXCEPT ![r] = p]
BY DEF Step, Load, LoadCompany, LoadSupplier, CheckActive, Insert, CreatePart, SendInvoice,
       ReadRows, WriteRows, Proceed, Continue, Finish, Update

(* No step but those of a request, and failures, changes what it is doing. *)
LEMMA OthersStay ==
  ASSUME TypedOK, NEW r \in Requests, requests[r].rest # <<>>, [Next]_vars,
         requests'[r] # requests[r]
  PROVE  Step(r) \/ Fault
<1>1. requests \in [Requests -> RequestType]
  BY DEF TypedOK, TablesOK
<1>2. ~ UNCHANGED vars
  BY DEF vars
<1>3. ASSUME NEW s \in Requests, Receive(s) \/ ReceiveForCompany(s) PROVE FALSE
  <2>1. requests[s].rest = <<>> /\ \E p : requests' = [requests EXCEPT ![s] = p]
    BY <1>3 DEF Receive, ReceiveForCompany, Serve, Idle, Update
  <2>2. QED  BY <1>1, <2>1
<1>4. ASSUME NEW s \in Requests, Step(s) PROVE s = r
  BY <1>1, <1>4, StepChanges
<1>5. QED  BY <1>2, <1>3, <1>4 DEF Next

(* The request that created an application is about to list it. *)
LEMMA CreatorIsAt ==
  ASSUME TypedOK, CreateAlone, NEW r \in Requests, NEW q, q = requests[r],
         q.op = "create", q.app \in created
  PROVE  /\ q \in RequestType /\ HandsOK(q, created) /\ q.rest # <<>>
         /\ Head(q.rest) = "saveCompany" /\ Tail(q.rest) = <<>>
         /\ "company" \in q.lists
<1>1. /\ q \in RequestType /\ HandsOK(q, created) /\ Planned(q) /\ CreateOK(q, rows, exposed)
      /\ created \subseteq Applications
  BY DEF TypedOK, TablesOK, Served, HandsOK, CreateAlone
<1>2. q.app # NoApplication
  BY <1>1, ApplicationsAssumption
<1>3. "insert" \notin StepsOf(q.rest)
  BY <1>1, <1>2 DEF CreateOK
<1>4. Head(q.rest) = "saveCompany"
  BY <1>1, <1>3, CreateLeft
<1>5. Tail(q.rest) = <<>>
  BY <1>1, <1>4, CreateLeft
<1>6. q.rest # <<>>
  BY <1>1, CreateSteps
<1>7. "company" \in q.lists
  BY <1>1, <1>3, CreatorHolds
<1>8. QED  BY <1>1, <1>4, <1>5, <1>6, <1>7

(* What that save is to write. *)
LEMMA CreatorWrites ==
  ASSUME NEW C, NEW q, q.op = "create", Head(q.rest) = "saveCompany", q.app \in C
  PROVE  /\ Compared(q, C) = C \X {"company"}
         /\ Value(q, q.app, "company") = TRUE
<1>1. SavedLists("saveCompany") = {"company"}
  BY SavedListsAre
<1>2. q.app \in ToList(q, "company")
  BY DEF ToList, WithApplication
<1>3. Value(q, q.app, "company") = (q.app \in ToList(q, "company"))
  BY <1>1, ListValueIs
<1>4. QED  BY <1>1, <1>2, <1>3 DEF Compared

(* The request that created an application goes on until the company lists *)
(* it, or the list it is to be in is exposed.                              *)
LEMMA CreatorGoesOn ==
  ASSUME TypedOK, FreshOK, CreateAlone, [Next]_vars, NEW r \in Requests, NEW a \in created,
         requests[r].op = "create", requests[r].app = a
  PROVE  rows'[a]["company"] = TRUE \/ Creating(a)' \/ <<a, "company">> \in exposed'
<1> DEFINE q == requests[r]
<1>1. q = requests[r]
  OBVIOUS
<1>2. /\ q \in RequestType /\ HandsOK(q, created) /\ q.rest # <<>>
      /\ Head(q.rest) = "saveCompany" /\ Tail(q.rest) = <<>> /\ "company" \in q.lists
  BY CreatorIsAt
<1>3. /\ Compared(q, created) = created \X {"company"}
      /\ Value(q, a, "company") = TRUE
  BY <1>2, CreatorWrites
<1>4. a \in Applications /\ requests \in [Requests -> RequestType] /\ "company" \in Fields
  BY DEF TypedOK, TablesOK, Fields, Columns
<1>5. CASE requests'[r] = q
  BY <1>5 DEF Creating
<1>6. CASE Step(r)
  <2>1. ReadRows(r) \/ WriteRows(r)
    BY <1>2, <1>6 DEF Step, Load, LoadCompany, LoadSupplier, CheckActive, Insert, CreatePart,
       SendInvoice, At
  <2>2. CASE ReadRows(r)
    <3>1. UNCHANGED rows /\ Saved(q) = Compared(q, created)
      BY <2>2, SaveIs DEF ReadRows, tables
    <3>2. CASE Differ(q) = {}
      <4>1. <<a, "company">> \in Saved(q)
        BY <1>3, <3>1
      <4>2. Value(q, a, "company") = rows[a]["company"]
        BY <3>2, <4>1 DEF Differ
      <4>3. QED  BY <1>3, <3>1, <4>2
    <3>3. CASE \E p \in RequestType :
                 ReadAs(q, Differ(q), p) /\ requests' = [requests EXCEPT ![r] = p]
      BY <1>4, <3>3 DEF ReadAs, Creating
    <3>4. QED  BY <2>2, <3>2, <3>3, ReadIs
  <2>3. CASE WriteRows(r)
    <3>1. rows'[a]["company"] = IF <<a, "company">> \in q.changes
                                  THEN Value(q, a, "company") ELSE rows[a]["company"]
      BY <1>4, <2>3, WriteIs
    <3>2. ASSUME <<a, "company">> \notin q.changes, <<a, "company">> \notin exposed'
          PROVE  rows[a]["company"] = TRUE
      <4>1. Known(q, created, rows, exposed) /\ q.read /\ exposed \subseteq exposed'
        BY <2>3, IsFresh DEF WriteRows
      <4>2. <<a, "company">> \in Compared(q, created) \ (q.changes \cup exposed)
        BY <1>3, <3>2, <4>1
      <4>3. Value(q, a, "company") = rows[a]["company"]
        BY <4>1, <4>2 DEF Known
      <4>4. QED  BY <1>3, <4>3
    <3>3. QED  BY <1>3, <3>1, <3>2
  <2>4. QED  BY <2>1, <2>2, <2>3
<1>7. CASE Fault /\ requests'[r] # q
  <2>1. HeldBy({r}) \subseteq exposed' \/ At(r, "invoice")
    BY <1>7, FaultIs
  <2>2. ~ At(r, "invoice")
    BY <1>2 DEF At
  <2>3. <<a, "company">> \in HeldBy({r})
    <3>1. Holds(r, a, "company")
      BY <1>2 DEF Holds
    <3>2. "company" \in Fields \ {"purchaseOrderId"}
      BY DEF Fields, Columns
    <3>3. QED  BY <1>4, <3>1, <3>2 DEF HeldBy
  <2>4. QED  BY <2>1, <2>2, <2>3
<1>8. QED  BY <1>2, <1>5, <1>6, <1>7, OthersStay

(* What was just created is about to be listed. *)
LEMMA NewIsCreating ==
  ASSUME TypedOK, [Next]_vars, NEW a \in created', a \notin created
  PROVE  Creating(a)'
<1>1. PICK r \in Requests : Insert(r)
  <2>1. ASSUME NEW r \in Requests, Step(r), ~ Insert(r) PROVE created' = created
    BY <2>1 DEF Step, Load, LoadCompany, LoadSupplier, CheckActive, CreatePart, SendInvoice,
       ReadRows, WriteRows, tables
  <2>2. ASSUME NEW r \in Requests, Receive(r) \/ ReceiveForCompany(r) PROVE created' = created
    BY <2>2 DEF Receive, ReceiveForCompany, Serve, tables
  <2>3. Fault => created' = created
    BY FaultIs
  <2>4. UNCHANGED vars => created' = created
    BY DEF vars, tables
  <2>5. QED  BY <2>1, <2>2, <2>3, <2>4 DEF Next
<1> DEFINE q == requests[r]
<1>2. PICK b \in Applications \ created, n \in RequestType :
        created' = created \cup {b} /\ InsertsAs(q, b, n) /\ Goes(r, n)
  BY <1>1, InsertIs
<1>3. PICK p : Kept(n, Tail(q.rest), p) /\ requests' = [requests EXCEPT ![r] = p]
  BY <1>2 DEF Goes
<1>4. At(r, "insert")
  BY <1>1 DEF Insert
<1>5. /\ q \in RequestType /\ Planned(q) /\ q.rest # <<>> /\ Head(q.rest) = "insert"
      /\ requests \in [Requests -> RequestType]
  BY <1>4, AtIs DEF HandsOK, TypedOK, TablesOK
<1>6. q.op = "create"
  BY <1>5, SituatedHolds DEF Situated, Situation
<1>7. Tail(q.rest) # <<>>
  BY <1>5, <1>6, CreateSteps
<1>8. p.op = "create" /\ p.app = b
  BY <1>2, <1>3, <1>6, <1>7 DEF Kept, InsertsAs, Same
<1>9. requests'[r] = p /\ a = b
  BY <1>2, <1>3, <1>5
<1>10. QED  BY <1>8, <1>9 DEF Creating

(* The first application is listed.                                        *)
LEMMA FirstListing == Init => Listing
<1> SUFFICES ASSUME Init, NEW a \in created PROVE rows[a]["company"] = TRUE
  BY DEF Listing
<1>1. PICK filling \in Fillings :
        rows = [b \in Applications |-> IF b = NextOf(Applications) THEN FirstRow(filling) ELSE NewRow]
        /\ created = {NextOf(Applications)}
  BY DEF Init
<1>2. NextOf(Applications) \in Applications
  BY ApplicationsAssumption DEF NextOf
<1>3. FirstRow(filling)["company"] = TRUE
  BY FirstRowIs, ApplicationsAssumption
<1>4. QED  BY <1>1, <1>2, <1>3

(* An application that was created is listed, or about to be.              *)
LEMMA NextListing ==
  ASSUME TypedOK, FreshOK, CreateAlone, Listing, [Next]_vars
  PROVE  Listing'
<1> SUFFICES ASSUME NEW a \in created'
             PROVE  rows'[a]["company"] = TRUE \/ Creating(a)' \/ <<a, "company">> \in exposed'
  BY DEF Listing
<1>1. CASE a \notin created
  BY <1>1, NewIsCreating
<1>2. CASE a \in created /\ Creating(a)
  BY <1>2, CreatorGoesOn DEF Creating
<1>3. CASE a \in created /\ <<a, "company">> \in exposed
  BY <1>3, ExposedGrows
<1>4. CASE a \in created /\ rows[a]["company"] = TRUE
  <2>1. a \in Applications /\ "company" \in Fields /\ "company" \notin PartNames
    BY <1>4 DEF TypedOK, TablesOK, Fields, Columns, PartNames
  <2>2. ASSUME rows'[a]["company"] # rows[a]["company"], <<a, "company">> \notin exposed'
        PROVE  rows'[a]["company"] = TRUE
    <3>1. PICK r \in Requests :
            Rightly(requests[r], a, "company", rows[a]["company"], rows'[a]["company"])
      BY <2>1, <2>2, Changes
    <3>2. QED  BY <2>1, <3>1 DEF Rightly
  <2>3. QED  BY <1>4, <2>2
<1>5. QED  BY <1>1, <1>2, <1>3, <1>4 DEF Listing

(* Every application is listed by its company once create has saved it,    *)
(* whatever else saves the company, unless the list was exposed.           *)
THEOREM CreatedAlwaysListed == Spec => []CreatedIsListed
<1>1. Init => TypedOK /\ FreshOK /\ CreateAlone /\ Listing
  BY FirstTyped, FirstFresh, FirstCreates, FirstListing
<1>2. TypedOK /\ FreshOK /\ CreateAlone /\ Listing /\ [Next]_vars
        => (TypedOK /\ FreshOK /\ CreateAlone /\ Listing)'
  BY NextTyped, NextFresh, NextCreates, NextListing
<1>3. Listing => CreatedIsListed
  BY DEF Listing, CreatedIsListed
<1>4. QED  BY <1>1, <1>2, <1>3, PTL DEF Spec

-----------------------------------------------------------------------------
(* What is submitted is complete *)

(* What a request may make of the copy it holds, once it has loaded it, and *)
(* what it makes of the row when it loads it.                              *)
HoldsOn(q, p) ==
  \/ p.held = {}
  \/ /\ p.op = q.op /\ p.app = q.app /\ p.held = q.held
     /\ p.copy["status"] = q.copy["status"] \/ q.op = "card"

LoadsOn(q, row, p) ==
  \/ p.held = {}
  \/ /\ ~ RefusesSubmission(q.op, row)
     /\ p.op = q.op /\ p.app = q.app /\ p.copy = Changed(q, row)

(* What a request keeps is what it held, but for the status that is paid   *)
(* by card.                                                                *)
LEMMA KeptHolds ==
  ASSUME NEW q, NEW n, NEW rest, NEW p, Kept(n, rest, p),
         n.op = q.op, n.app = q.app, n.held = q.held,
         n.copy["status"] = q.copy["status"] \/ q.op = "card"
  PROVE  HoldsOn(q, p)
BY NoRequestIs DEF Kept, HoldsOn

(* So it is for a request that goes on.                                    *)
LEMMA GoesHolds ==
  ASSUME TypedOK, NEW r \in Requests, NEW n, Goes(r, n), NEW q, q = requests[r],
         n.op = q.op, n.app = q.app, n.held = q.held,
         n.copy["status"] = q.copy["status"] \/ q.op = "card"
  PROVE  HoldsOn(q, requests'[r])
<1>1. PICK p : Kept(n, Tail(q.rest), p) /\ requests' = [requests EXCEPT ![r] = p]
  BY DEF Goes
<1>2. requests'[r] = p
  BY <1>1 DEF TypedOK, TablesOK
<1>3. QED  BY <1>1, <1>2, KeptHolds

(* A request that ended holds nothing.                                     *)
LEMMA IdleHolds ==
  ASSUME NEW q
  PROVE  HoldsOn(q, NoRequest) /\ HoldsOn(q, q)
BY NoRequestIs DEF HoldsOn

(* What a step does to the copy of its request.                            *)
LEMMA StepHolds ==
  ASSUME TypedOK, NEW r \in Requests, Step(r), NEW q, q = requests[r]
  PROVE  \/ HoldsOn(q, requests'[r])
         \/ At(r, "load") /\ rows' = rows /\ LoadsOn(q, rows[q.app], requests'[r])
<1>1. requests \in [Requests -> RequestType] /\ q \in RequestType
  BY DEF TypedOK, TablesOK
<1>2. CASE requests' = [requests EXCEPT ![r] = NoRequest]
  BY <1>1, <1>2, IdleHolds
<1>3. CASE Load(r)
  <2>1. ASSUME NEW n \in RequestType, LoadsAs(q, rows[q.app], n), Goes(r, n)
        PROVE  LoadsOn(q, rows[q.app], requests'[r])
    <3>1. PICK p : Kept(n, Tail(q.rest), p) /\ requests' = [requests EXCEPT ![r] = p]
      BY <2>1 DEF Goes
    <3>2. requests'[r] = p
      BY <1>1, <3>1
    <3>3. LoadsOn(q, rows[q.app], p)
      BY <2>1, <3>1, NoRequestIs DEF Kept, LoadsOn, LoadsAs, Same
    <3>4. QED  BY <3>2, <3>3
  <2>2. At(r, "load") /\ rows' = rows
    BY <1>3 DEF Load, tables
  <2>3. QED  BY <1>2, <1>3, <2>1, <2>2, LoadIs
<1>4. ASSUME NEW f, ListLoaded(r, f) PROVE HoldsOn(q, requests'[r])
  <2>1. PICK n \in RequestType, p \in RequestType, rest \in Seq(Steps) :
          ListsAs(q, f, ListOf(f), n) /\ Kept(n, rest, p) /\ requests' = [requests EXCEPT ![r] = p]
    BY <1>4 DEF ListLoaded
  <2>2. HoldsOn(q, p)
    BY <2>1, KeptHolds DEF ListsAs
  <2>3. QED  BY <1>1, <2>1, <2>2
<1>5. CASE CheckActive(r)
  BY <1>2, <1>5, CheckIs, GoesHolds
<1>6. CASE Insert(r)
  <2>1. PICK a \in Applications \ created, n \in RequestType : InsertsAs(q, a, n) /\ Goes(r, n)
    BY <1>6, InsertIs
  <2>2. PICK p : Kept(n, Tail(q.rest), p) /\ requests' = [requests EXCEPT ![r] = p]
    BY <2>1 DEF Goes
  <2>3. HandsOK(q, created) /\ q.rest # <<>> /\ Head(q.rest) = "insert"
    BY <1>6, AtIs DEF Insert
  <2>4. q.op = "create"
    BY <1>1, <2>3, SituatedHolds DEF HandsOK, Situated, Situation
  <2>5. q.held = {}
    BY <1>1, <2>3, <2>4, HeldIs DEF CompanyOperations
  <2>6. p.held = {}
    BY <2>1, <2>2, <2>5, NoRequestIs DEF Kept, InsertsAs
  <2>7. QED  BY <1>1, <2>2, <2>6 DEF HoldsOn
<1>7. CASE CreatePart(r)
  <2>1. PICK n \in RequestType : PartsAs(q, lastPart + 1, n) /\ Goes(r, n) /\ q.op \in PartNames
    BY <1>7, PartIs
  <2>2. q.copy \in Rows
    BY <1>1 DEF RequestType
  <2>3. n.copy["status"] = q.copy["status"]
    BY <2>1, <2>2 DEF PartsAs, PartNames, Rows
  <2>4. QED  BY <2>1, <2>3, GoesHolds DEF PartsAs
<1>8. CASE SendInvoice(r)
  <2>1. PICK n \in RequestType : InvoicesAs(q, n) /\ Goes(r, n) /\ q.op = "card"
    BY <1>8, InvoiceIs
  <2>2. QED  BY <2>1, GoesHolds DEF InvoicesAs, Same
<1>9. CASE ReadRows(r)
  <2>1. CASE \E p \in RequestType : ReadAs(q, Differ(q), p) /\ requests' = [requests EXCEPT ![r] = p]
    BY <1>1, <2>1 DEF ReadAs, HoldsOn
  <2>2. CASE Goes(r, q)
    BY <2>2, GoesHolds
  <2>3. QED  BY <1>9, <2>1, <2>2, ReadIs
<1>10. CASE WriteRows(r)
  <2>1. PICK n \in RequestType : WritesAs(q, n) /\ Goes(r, n)
    BY <1>10, WriteIs
  <2>2. QED  BY <2>1, GoesHolds DEF WritesAs, Same
<1>11. QED
  BY <1>3, <1>4, <1>5, <1>6, <1>7, <1>8, <1>9, <1>10, LoadCompanyIs, LoadSupplierIs DEF Step

(* What any step does to the copy of a request.                            *)
LEMMA CopyMoves ==
  ASSUME TypedOK, [Next]_vars, NEW r \in Requests, NEW q, q = requests[r]
  PROVE  \/ HoldsOn(q, requests'[r])
         \/ At(r, "load") /\ rows' = rows /\ LoadsOn(q, rows[q.app], requests'[r])
<1>1. requests \in [Requests -> RequestType]
  BY DEF TypedOK, TablesOK
<1>2. CASE requests'[r] = q
  BY <1>2, IdleHolds
<1>3. CASE q.rest # <<>> /\ requests'[r] # q
  <2>1. CASE Step(r)
    BY <2>1, StepHolds
  <2>2. CASE Fault
    <3>1. requests'[r] = NoRequest
      BY <1>3, <2>2, FaultIs
    <3>2. QED  BY <3>1, IdleHolds
  <2>3. QED  BY <1>3, <2>1, <2>2, OthersStay
<1>4. CASE q.rest = <<>> /\ requests'[r] # q
  <2>1. \/ \E s \in Requests : Receive(s) \/ ReceiveForCompany(s)
        \/ requests'[r] = NoRequest
    <3>1. ASSUME NEW s \in Requests, Step(s) PROVE FALSE
      <4>1. requests[s].rest # <<>>
        BY <3>1 DEF Step, Load, LoadCompany, LoadSupplier, CheckActive, Insert, CreatePart,
           SendInvoice, ReadRows, WriteRows, AtSave, At
      <4>2. QED  BY <1>1, <1>4, <3>1, <4>1, StepChanges
    <3>2. Fault => requests'[r] = NoRequest
      BY <1>4, FaultIs
    <3>3. UNCHANGED vars => requests' = requests
      BY DEF vars
    <3>4. QED  BY <1>4, <3>1, <3>2, <3>3 DEF Next
  <2>2. ASSUME NEW s \in Requests, Receive(s) \/ ReceiveForCompany(s) PROVE HoldsOn(q, requests'[r])
    <3>1. PICK op \in Operations, a \in created \cup {NoApplication} :
            (op \notin CompanyOperations => a \in created) /\ Serve(s, op, a)
      BY <2>2, ReceiveIs
    <3>2. PICK p \in RequestType : requests' = [requests EXCEPT ![s] = p] /\ Begins(p, op, a)
      BY <3>1, ServeIs
    <3>3. requests'[r] = p
      BY <1>1, <1>4, <3>2
    <3>4. QED  BY <3>2, <3>3 DEF Begins, HoldsOn
  <2>3. QED  BY <2>1, <2>2, IdleHolds
<1>5. QED  BY <1>2, <1>3, <1>4

(* The form of the application has been filled in.                          *)
CoveredIn(R, E, a) ==
  (\A p \in PartNames : R[a][p] # 0) \/ \E p \in PartNames : <<a, p>> \in E

Covered ==
  \A a \in created : rows[a]["status"] = "IN_REVIEW" => CoveredIn(rows, exposed, a)

(* Whoever is to submit an application has found its form filled in. *)
Submits(q) ==
  q.held # {} /\ (q.op \in {"submit", "card"} \/ q.copy["status"] = "IN_REVIEW")

SubmitsCovered ==
  \A r \in Requests : Submits(requests[r]) => CoveredIn(rows, exposed, requests[r].app)

(* A part that is there stays there. *)
LEMMA CoveredStays ==
  ASSUME TypedOK, FreshOK, [Next]_vars, NEW a \in Applications, CoveredIn(rows, exposed, a)
  PROVE  CoveredIn(rows', exposed', a)
<1>1. exposed \subseteq exposed'
  BY ExposedGrows
<1>2. ASSUME NEW p \in PartNames, rows[a][p] # 0, <<a, p>> \notin exposed', rows'[a][p] = 0
      PROVE  FALSE
  <2>1. p \in Fields /\ p \notin {"status", "company", "supplier", "purchaseOrderId"}
    BY DEF Fields, PartNames
  <2>2. PICK r \in Requests : Rightly(requests[r], a, p, rows[a][p], rows'[a][p])
    BY <1>2, <2>1, Changes
  <2>3. rows'[a][p] \in Nat \ {0}
    BY <2>1, <2>2 DEF Rightly
  <2>4. QED  BY <1>2, <2>3
<1>3. QED  BY <1>1, <1>2 DEF CoveredIn

(* Who loads an application to submit it, or one in review, finds its form *)
(* filled in.                                                              *)
LEMMA LoadCovers ==
  ASSUME TypedOK, Covered, NEW q \in RequestType, q.app \in created, NEW p,
         LoadsOn(q, rows[q.app], p), Submits(p)
  PROVE  p.app = q.app /\ CoveredIn(rows, exposed, q.app)
<1> DEFINE row == rows[q.app]
<1>1. row \in Rows /\ q.part \in Nat
  BY DEF TypedOK, TablesOK, RequestType
<1>2. /\ ~ RefusesSubmission(q.op, row)
      /\ p.op = q.op /\ p.app = q.app /\ p.copy = Changed(q, row)
  BY DEF LoadsOn, Submits
<1>3. CASE q.op \in {"submit", "card"}
  <2>1. Complete(row)
    BY <1>2, <1>3 DEF RefusesSubmission
  <2>2. QED  BY <1>2, <2>1 DEF Complete, CoveredIn
<1>4. CASE q.op \notin {"submit", "card"}
  <2>1. Changed(q, row)["status"] = row["status"]
    BY <1>1, <1>4, ChangedIs
  <2>2. row["status"] = "IN_REVIEW"
    BY <1>2, <1>4, <2>1 DEF Submits
  <2>3. QED  BY <1>2, <2>2 DEF Covered
<1>5. QED  BY <1>3, <1>4

(* The form stays filled in while a request is to submit it.               *)
LEMMA NextSubmits ==
  ASSUME TypedOK, FreshOK, Covered, SubmitsCovered, [Next]_vars
  PROVE  SubmitsCovered'
<1> SUFFICES ASSUME NEW r \in Requests, Submits(requests'[r])
             PROVE  CoveredIn(rows', exposed', requests'[r].app)
  BY DEF SubmitsCovered
<1> DEFINE q == requests[r]
           p == requests'[r]
<1>1. /\ q \in RequestType /\ HandsOK(q, created) /\ created \subseteq Applications
  BY DEF TypedOK, TablesOK, Served
<1>2. q = requests[r] /\ p = requests'[r] /\ Submits(p)
  OBVIOUS
<1>3. Submits(q) => CoveredIn(rows, exposed, q.app)
  BY DEF SubmitsCovered
<1>4. \/ HoldsOn(q, p)
      \/ At(r, "load") /\ LoadsOn(q, rows[q.app], p)
  BY <1>2, CopyMoves
<1>5. ASSUME q.rest # <<>>, Head(q.rest) = "load" \/ q.held # {} PROVE q.app \in created
  BY <1>1, <1>5, AppIsCreated
<1>6. At(r, "load") => q.rest # <<>> /\ Head(q.rest) = "load"
  BY DEF At
<1> HIDE DEF p, q
<1>7. CASE HoldsOn(q, p)
  <2>1. Submits(q) /\ p.app = q.app
    BY <1>2, <1>7 DEF Submits, HoldsOn
  <2>2. q.held # {} /\ NoRequest.held = {}
    BY <2>1, NoRequestIs DEF Submits
  <2>3. q.rest # <<>>
    BY <1>1, <2>2, RestIs DEF HandsOK
  <2>4. q.app \in Applications
    BY <1>1, <1>5, <2>2, <2>3
  <2>5. CoveredIn(rows', exposed', q.app)
    BY <1>3, <2>1, <2>4, CoveredStays
  <2>6. QED  BY <1>2, <2>1, <2>5
<1>8. CASE At(r, "load") /\ LoadsOn(q, rows[q.app], p)
  <2>1. q.app \in created
    BY <1>5, <1>6, <1>8
  <2>2. p.app = q.app /\ CoveredIn(rows, exposed, q.app)
    BY <1>1, <1>2, <1>8, <2>1, LoadCovers
  <2>3. CoveredIn(rows', exposed', q.app)
    BY <1>1, <2>1, <2>2, CoveredStays
  <2>4. QED  BY <1>2, <2>2, <2>3
<1>9. QED  BY <1>4, <1>7, <1>8

(* An application is only put in review by a request that submits it. *)
LEMMA WhoSubmits ==
  ASSUME TypedOK, NEW r \in Requests, WriteRows(r), NEW q, q = requests[r],
         NEW a \in Applications, rows'[a]["status"] = "IN_REVIEW",
         rows[a]["status"] # "IN_REVIEW"
  PROVE  Submits(q) /\ a = q.app /\ Head(q.rest) = "saveApplication"
<1>1. "status" \in Fields /\ "status" \notin Lists
  BY DEF Fields, Columns, Lists
<1>2. rows'[a]["status"] = IF <<a, "status">> \in q.changes THEN Value(q, a, "status")
                                                          ELSE rows[a]["status"]
  BY <1>1, WriteIs
<1>3. <<a, "status">> \in q.changes /\ Value(q, a, "status") = "IN_REVIEW"
  BY <1>2
<1>4. /\ q \in RequestType /\ HandsOK(q, created) /\ Notes(q, created) /\ q.read
      /\ q.rest # <<>> /\ Head(q.rest) \in Saves
  BY SaveIs DEF WriteRows
<1>5. <<a, "status">> \in Compared(q, created)
  BY <1>3, <1>4 DEF Notes
<1>6. CopyWritten(q, a, "status") \/ ListWritten(q, a, "status")
  BY <1>4, <1>5, ValueIs
<1>7. CopyWritten(q, a, "status")
  BY <1>1, <1>6 DEF ListWritten
<1>8. QED  BY <1>3, <1>7 DEF CopyWritten, Submits

(* An application in review has its form filled in.                        *)
LEMMA NextCovered ==
  ASSUME TypedOK, FreshOK, Covered, SubmitsCovered, [Next]_vars
  PROVE  Covered'
<1> SUFFICES ASSUME NEW a \in created', rows'[a]["status"] = "IN_REVIEW"
             PROVE  CoveredIn(rows', exposed', a)
  BY DEF Covered
<1>1. a \in Applications /\ created \subseteq Applications
  <2>1. created' \subseteq Applications
    BY NextTyped DEF TypedOK, TablesOK
  <2>2. QED  BY <2>1 DEF TypedOK, TablesOK
<1>2. CASE rows[a]["status"] = "IN_REVIEW"
  <2>1. a \in created
    <3>1. a \notin created => rows[a] = NewRow
      BY <1>1 DEF TypedOK, TablesOK
    <3>2. QED  BY <1>2, <3>1, NewRowIs
  <2>2. QED  BY <1>1, <1>2, <2>1, CoveredStays DEF Covered
<1>3. CASE rows[a]["status"] # "IN_REVIEW"
  <2>1. PICK r \in Requests : WriteRows(r)
    BY <1>3, RowsChange
  <2>2. Submits(requests[r]) /\ a = requests[r].app
    BY <1>1, <1>3, <2>1, WhoSubmits
  <2>3. CoveredIn(rows, exposed, a)
    BY <2>2 DEF SubmitsCovered
  <2>4. QED  BY <1>1, <2>3, CoveredStays
<1>4. QED  BY <1>2, <1>3

(* At first no application is in review.                                   *)
LEMMA FirstCovered == Init => Covered /\ SubmitsCovered
<1> SUFFICES ASSUME Init PROVE Covered /\ SubmitsCovered
  OBVIOUS
<1>1. SubmitsCovered
  BY NoRequestIs DEF Init, SubmitsCovered, Submits
<1>2. ASSUME NEW a \in created PROVE rows[a]["status"] = "ACTIVE"
  <2>1. PICK filling \in Fillings :
          rows = [b \in Applications |-> IF b = NextOf(Applications) THEN FirstRow(filling) ELSE NewRow]
          /\ created = {NextOf(Applications)}
    BY <1>2 DEF Init
  <2>2. NextOf(Applications) \in Applications
    BY ApplicationsAssumption DEF NextOf
  <2>3. FirstRow(filling)["status"] = "ACTIVE"
    BY FirstRowIs, ApplicationsAssumption
  <2>4. QED  BY <1>2, <2>1, <2>2, <2>3
<1>3. QED  BY <1>1, <1>2 DEF Covered

(* An application in review has all the parts of its form, unless one was  *)
(* exposed: they are looked at before a submission, and no save takes one  *)
(* away.                                                                   *)
THEOREM SubmittedAlwaysComplete == Spec => []SubmittedIsComplete
<1>1. Init => TypedOK /\ FreshOK /\ Covered /\ SubmitsCovered
  BY FirstTyped, FirstFresh, FirstCovered
<1>2. TypedOK /\ FreshOK /\ Covered /\ SubmitsCovered /\ [Next]_vars
        => (TypedOK /\ FreshOK /\ Covered /\ SubmitsCovered)'
  BY NextTyped, NextFresh, NextCovered, NextSubmits
<1>3. Covered => SubmittedIsComplete
  BY DEF Covered, CoveredIn, SubmittedIsComplete, IsSubmitted, Complete
<1>4. QED  BY <1>1, <1>2, <1>3, PTL DEF Spec

-----------------------------------------------------------------------------
(* One invoice *)

(* A request that has had an invoice sent and is to submit the application. *)
Charging(r, a) ==
  requests[r].app = a /\ requests[r].op = "card" /\ At(r, "saveApplication")

InvoicesKnown ==
  \A a \in Applications :
    <<a, "status">> \notin exposed =>
      /\ \/ invoices[a] = 0 \/ rows[a]["status"] = "IN_REVIEW"
         \/ \E r \in Requests : Charging(r, a)
      /\ \/ invoices[a] < 2
         \/ \E r, s \in Requests : r # s /\ Charging(r, a) /\ Charging(s, a)

(* Until it does, the application is as it was when it was loaded. *)
LEMMA ChargingIs ==
  ASSUME TypedOK, FreshOK, NEW r \in Requests, NEW q, q = requests[r], NEW a, Charging(r, a)
  PROVE  /\ q \in RequestType /\ HandsOK(q, created) /\ q.rest # <<>>
         /\ Head(q.rest) = "saveApplication" /\ q.op = "card" /\ q.app = a
         /\ a \in created /\ "status" \in q.held /\ q.copy["status"] = "IN_REVIEW"
         /\ <<a, "status">> \notin exposed => rows[a]["status"] = "ACTIVE"
<1>1. /\ q \in RequestType /\ HandsOK(q, created) /\ q.rest # <<>>
      /\ Head(q.rest) = "saveApplication" /\ q.op = "card" /\ q.app = a
  BY AtIs DEF Charging
<1>2. HasLoaded(q.op, q.rest) /\ "invoice" \notin StepsOf(q.rest)
  <2>1. Situated(q)
    BY <1>1, SituatedHolds DEF HandsOK
  <2>2. QED  BY <1>1, <2>1 DEF Situated, Situation, HasLoaded
<1>3. q.copy["status"] = "IN_REVIEW"
  BY <1>1, <1>2 DEF HandsOK, InHand
<1>4. a \in created
  BY <1>1, AppIsCreated
<1>5. "status" \in q.held
  <2>1. q.held = Columns \cup Loaded(q.op)
    BY <1>1, HeldIs
  <2>2. QED  BY <2>1 DEF Columns
<1>6. <<a, "status">> \notin exposed => rows[a]["status"] = "ACTIVE"
  <2>1. CopyFresh(q, rows, exposed)
    BY IsFresh
  <2>2. QED  BY <1>1, <1>5, <2>1 DEF CopyFresh
<1>7. QED  BY <1>1, <1>3, <1>4, <1>5, <1>6

(* What that save is to write. *)
LEMMA ChargingWrites ==
  ASSUME NEW C, NEW q \in RequestType, HandsOK(q, C), q.rest # <<>>,
         Head(q.rest) = "saveApplication", "status" \in q.held
  PROVE  <<q.app, "status">> \in Compared(q, C) /\ Value(q, q.app, "status") = q.copy["status"]
BY SavedListsAre DEF Compared, Value, Steps

(* It goes on until the application is in review, unless the status is     *)
(* exposed.                                                                *)
LEMMA ChargingGoesOn ==
  ASSUME TypedOK, FreshOK, [Next]_vars, NEW r \in Requests, NEW a \in Applications,
         Charging(r, a), <<a, "status">> \notin exposed'
  PROVE  Charging(r, a)' \/ (WriteRows(r) /\ rows'[a]["status"] = "IN_REVIEW")
<1> DEFINE q == requests[r]
<1>1. q = requests[r] /\ requests \in [Requests -> RequestType] /\ "status" \in Fields
  BY DEF TypedOK, TablesOK, Fields, Columns
<1>2. <<a, "status">> \notin exposed
  BY ExposedGrows
<1>3. /\ q \in RequestType /\ HandsOK(q, created) /\ q.rest # <<>>
      /\ Head(q.rest) = "saveApplication" /\ q.op = "card" /\ q.app = a
      /\ "status" \in q.held /\ q.copy["status"] = "IN_REVIEW"
      /\ rows[a]["status"] = "ACTIVE"
  BY <1>1, <1>2, ChargingIs
<1>4. <<a, "status">> \in Compared(q, created) /\ Value(q, a, "status") = "IN_REVIEW"
  BY <1>3, ChargingWrites
<1>5. CASE requests'[r] = q
  BY <1>3, <1>5 DEF Charging, At
<1>6. CASE Step(r)
  <2>1. ReadRows(r) \/ WriteRows(r)
    BY <1>3, <1>6 DEF Step, Load, LoadCompany, LoadSupplier, CheckActive, Insert, CreatePart,
       SendInvoice, At
  <2>2. CASE ReadRows(r)
    <3>1. <<a, "status">> \in Saved(q)
      BY <1>4, <2>2, SaveIs DEF ReadRows
    <3>2. Differ(q) # {}
      BY <1>3, <1>4, <3>1 DEF Differ
    <3>3. PICK p \in RequestType : ReadAs(q, Differ(q), p) /\ requests' = [requests EXCEPT ![r] = p]
      BY <2>2, <3>2, ReadIs
    <3>4. requests'[r] = p /\ p.app = a /\ p.op = "card" /\ p.rest = q.rest
      BY <1>1, <1>3, <3>3 DEF ReadAs
    <3>5. QED  BY <1>3, <3>4 DEF Charging, At
  <2>3. CASE WriteRows(r)
    <3>1. rows'[a]["status"] = IF <<a, "status">> \in q.changes
                                 THEN Value(q, a, "status") ELSE rows[a]["status"]
      BY <1>1, <2>3, WriteIs
    <3>2. <<a, "status">> \in q.changes
      <4>1. Known(q, created, rows, exposed) /\ q.read
        BY <2>3, IsFresh DEF WriteRows
      <4>2. ASSUME <<a, "status">> \notin q.changes PROVE FALSE
        <5>1. <<a, "status">> \in Compared(q, created) \ (q.changes \cup exposed)
          BY <1>2, <1>4, <4>2
        <5>2. Value(q, a, "status") = rows[a]["status"]
          BY <4>1, <5>1 DEF Known
        <5>3. QED  BY <1>3, <1>4, <5>2
      <4>3. QED  BY <4>2
    <3>3. QED  BY <1>4, <2>3, <3>1, <3>2
  <2>4. QED  BY <2>1, <2>2, <2>3
<1>7. CASE Fault /\ requests'[r] # q
  <2>1. HeldBy({r}) \subseteq exposed' \/ At(r, "invoice")
    BY <1>7, FaultIs
  <2>2. ~ At(r, "invoice")
    BY <1>3 DEF At
  <2>3. <<a, "status">> \in HeldBy({r})
    <3>1. Holds(r, a, "status")
      BY <1>3 DEF Holds
    <3>2. "status" \in Fields \ {"purchaseOrderId"}
      BY DEF Fields, Columns
    <3>3. QED  BY <3>1, <3>2 DEF HeldBy
  <2>4. QED  BY <2>1, <2>2, <2>3
<1>8. QED  BY <1>3, <1>5, <1>6, <1>7, OthersStay

(* Only one of two that are to submit it can, if the status is not exposed. *)
LEMMA ChargingAlone ==
  ASSUME TypedOK, FreshOK, NEW r \in Requests, NEW s \in Requests, r # s, NEW a \in Applications,
         Charging(r, a), Charging(s, a), WriteRows(r), rows'[a]["status"] = "IN_REVIEW"
  PROVE  <<a, "status">> \in exposed'
<1> SUFFICES ASSUME <<a, "status">> \notin exposed' PROVE FALSE
  OBVIOUS
<1>1. exposed \subseteq exposed'
  BY DEF WriteRows
<1>2. Unwritten(requests[s], rows, rows', exposed')
  BY WriteSpares
<1>3. requests[s].app = a /\ "status" \in requests[s].held /\ rows[a]["status"] = "ACTIVE"
  BY <1>1, ChargingIs
<1>4. "status" \in Fields \ {"purchaseOrderId"}
  BY DEF Fields, Columns
<1>5. rows'[a]["status"] = rows[a]["status"]
  BY <1>2, <1>3, <1>4 DEF Unwritten, HoldsField
<1>6. QED  BY <1>3, <1>5

(* Nothing else sends an invoice.                                          *)
LEMMA InvoicesChange ==
  ASSUME [Next]_vars
  PROVE  invoices' = invoices \/ \E r \in Requests : SendInvoice(r)
<1>1. UNCHANGED vars => invoices' = invoices
  BY DEF vars, tables
<1>2. ASSUME NEW r \in Requests, Receive(r) \/ ReceiveForCompany(r)
      PROVE  invoices' = invoices
  BY <1>2 DEF Receive, ReceiveForCompany, Serve, tables
<1>3. ASSUME NEW r \in Requests, Step(r), ~ SendInvoice(r)
      PROVE  invoices' = invoices
  BY <1>3 DEF Step, Load, LoadCompany, LoadSupplier, CheckActive, Insert, CreatePart,
     ReadRows, WriteRows, tables
<1>4. Fault => invoices' = invoices
  BY DEF Fault, Crash, StripeFails, StatementFails, tables
<1>5. QED  BY <1>1, <1>2, <1>3, <1>4 DEF Next

(* An invoice is sent for an application that is not submitted, and by a   *)
(* request that is going to submit it.                                     *)
LEMMA InvoiceCharges ==
  ASSUME TypedOK, FreshOK, NEW r \in Requests, SendInvoice(r), NEW a, a = requests[r].app
  PROVE  /\ ~ Charging(r, a) /\ Charging(r, a)' /\ a \in created
         /\ <<a, "status">> \notin exposed => rows[a]["status"] = "ACTIVE"
<1> DEFINE q == requests[r]
<1>1. PICK n \in RequestType : InvoicesAs(q, n) /\ Goes(r, n) /\ q.op = "card"
  BY InvoiceIs
<1>2. PICK p \in RequestType :
        /\ Kept(n, Tail(q.rest), p) /\ HandsOK(p, created')
        /\ requests' = [requests EXCEPT ![r] = p]
  BY <1>1 DEF Goes
<1>3. At(r, "invoice")
  BY DEF SendInvoice
<1>4. /\ q \in RequestType /\ HandsOK(q, created) /\ q.rest # <<>> /\ Head(q.rest) = "invoice"
      /\ requests \in [Requests -> RequestType]
  BY <1>3, AtIs DEF TypedOK, TablesOK
<1>5. Situated(q) /\ Tail(q.rest) \in Seq(Steps)
  BY <1>4, SituatedHolds DEF HandsOK
<1>6. /\ "saveApplication" \in StepsOf(Tail(q.rest))
      /\ StepsOf(Tail(q.rest)) \subseteq {"load", "invoice", "saveApplication"}
      /\ "invoice" \notin StepsOf(Tail(q.rest)) /\ "load" \notin StepsOf(Tail(q.rest))
  BY <1>1, <1>4, <1>5 DEF Situated, Situation
<1>7. Tail(q.rest) # <<>> /\ Head(Tail(q.rest)) = "saveApplication"
  <2> DEFINE t == Tail(q.rest)
  <2>1. t \in Seq(Steps) /\ StepsOf(t) = {"saveApplication"}
    BY <1>5, <1>6
  <2> HIDE DEF t
  <2>2. t # <<>>
    BY <2>1 DEF StepsOf
  <2>3. 1 \in DOMAIN t /\ Head(t) = t[1]
    BY <2>1, <2>2
  <2>4. Head(t) \in StepsOf(t)
    BY <2>3 DEF StepsOf
  <2>5. QED  BY <2>1, <2>2, <2>4 DEF t
<1>8. p.op = "card" /\ p.app = a /\ p.rest = Tail(q.rest)
  BY <1>1, <1>2, <1>7 DEF Kept, InvoicesAs, Same
<1>9. requests'[r] = p
  BY <1>2, <1>4
<1>10. Charging(r, a)'
  BY <1>7, <1>8, <1>9 DEF Charging, At
<1>11. ~ Charging(r, a)
  BY <1>4 DEF Charging, At
<1>12. a \in created
  BY <1>4, AppIsCreated
<1>13. <<a, "status">> \notin exposed => rows[a]["status"] = "ACTIVE"
  <2>1. q.held = Columns \cup Loaded(q.op)
    BY <1>4, HeldIs
  <2>2. CopyFresh(q, rows, exposed)
    BY IsFresh
  <2>3. QED  BY <1>1, <2>1, <2>2 DEF CopyFresh, Columns
<1>14. QED  BY <1>10, <1>11, <1>12, <1>13

(* An invoice was sent for an application in review, or one that a request *)
(* is about to submit.                                                     *)
LEMMA NextInvoices ==
  ASSUME TypedOK, FreshOK, InvoicesKnown, [Next]_vars
  PROVE  InvoicesKnown'
<1> SUFFICES ASSUME NEW a \in Applications, <<a, "status">> \notin exposed'
             PROVE  /\ \/ invoices'[a] = 0 \/ rows'[a]["status"] = "IN_REVIEW"
                       \/ \E r \in Requests : Charging(r, a)'
                    /\ \/ invoices'[a] < 2
                       \/ \E r, s \in Requests : r # s /\ Charging(r, a)' /\ Charging(s, a)'
  BY DEF InvoicesKnown
<1>1. /\ <<a, "status">> \notin exposed
      /\ invoices[a] \in Nat /\ invoices \in [Applications -> Nat]
  BY ExposedGrows DEF TypedOK, TablesOK
<1>2. /\ \/ invoices[a] = 0 \/ rows[a]["status"] = "IN_REVIEW"
         \/ \E r \in Requests : Charging(r, a)
      /\ \/ invoices[a] < 2
         \/ \E r, s \in Requests : r # s /\ Charging(r, a) /\ Charging(s, a)
  BY <1>1 DEF InvoicesKnown
<1>3. ASSUME NEW r \in Requests, Charging(r, a)
      PROVE  Charging(r, a)' \/ (WriteRows(r) /\ rows'[a]["status"] = "IN_REVIEW")
  BY <1>3, ChargingGoesOn
<1>4. CASE invoices'[a] = invoices[a]
  <2>1. rows[a]["status"] = "IN_REVIEW" => rows'[a]["status"] = "IN_REVIEW"
    <3>1. ASSUME rows[a]["status"] = "IN_REVIEW", rows'[a]["status"] # rows[a]["status"] PROVE FALSE
      <4>1. "status" \in Fields /\ "status" \notin PartNames
        BY DEF Fields, Columns, PartNames
      <4>2. PICK r \in Requests :
              Rightly(requests[r], a, "status", rows[a]["status"], rows'[a]["status"])
        BY <3>1, <4>1, Changes
      <4>3. QED  BY <3>1, <4>1, <4>2 DEF Rightly
    <3>2. QED  BY <3>1
  <2>2. ASSUME NEW r \in Requests, NEW s \in Requests, r # s, Charging(r, a), Charging(s, a)
        PROVE  Charging(r, a)'
    <3>1. ~ (WriteRows(r) /\ rows'[a]["status"] = "IN_REVIEW")
      BY <2>2, ChargingAlone
    <3>2. QED  BY <1>3, <2>2, <3>1
  <2>3. \/ invoices[a] = 0 \/ rows'[a]["status"] = "IN_REVIEW"
        \/ \E r \in Requests : Charging(r, a)'
    BY <1>2, <1>3, <2>1
  <2>4. \/ invoices[a] < 2
        \/ \E r, s \in Requests : r # s /\ Charging(r, a)' /\ Charging(s, a)'
    BY <1>2, <2>2
  <2>5. QED  BY <1>4, <2>3, <2>4
<1>5. CASE invoices'[a] # invoices[a]
  <2>1. PICK r \in Requests : SendInvoice(r)
    BY <1>5, InvoicesChange
  <2>2. a = requests[r].app /\ invoices'[a] = invoices[a] + 1
    BY <1>1, <1>5, <2>1 DEF SendInvoice
  <2>3. ~ Charging(r, a) /\ Charging(r, a)' /\ rows[a]["status"] = "ACTIVE"
    BY <1>1, <2>1, <2>2, InvoiceCharges
  <2>4. ~ \E s \in Requests : WriteRows(s)
    <3>1. invoices' # invoices
      BY <1>5
    <3>2. QED  BY <3>1 DEF WriteRows
  <2>5. CASE invoices[a] = 0
    BY <2>2, <2>3, <2>5
  <2>6. CASE invoices[a] # 0
    <3>1. PICK s \in Requests : Charging(s, a)
      BY <1>2, <2>3, <2>6
    <3>2. Charging(s, a)' /\ s # r
      BY <1>3, <2>3, <2>4, <3>1
    <3>3. QED  BY <2>3, <3>2
  <2>7. QED  BY <2>5, <2>6
<1>6. QED  BY <1>4, <1>5

(* A single invoice is sent for an application, unless two requests hold   *)
(* its status at a time, or did: a request that has one sent puts the      *)
(* application in review, and no other is sent for it then.                *)
THEOREM OneInvoiceAlways == Spec => []OneInvoice
<1>1. Init => TypedOK /\ FreshOK /\ InvoicesKnown
  <2>1. Init => InvoicesKnown
    BY DEF Init, InvoicesKnown
  <2>2. QED  BY <2>1, FirstTyped, FirstFresh
<1>2. TypedOK /\ FreshOK /\ InvoicesKnown /\ [Next]_vars
        => (TypedOK /\ FreshOK /\ InvoicesKnown)'
  BY NextTyped, NextFresh, NextInvoices
<1>3. TypedOK /\ FreshOK /\ InvoicesKnown => OneInvoice
  <2> SUFFICES ASSUME TypedOK, FreshOK, InvoicesKnown, NEW a \in Applications,
                      invoices[a] > 1, <<a, "status">> \notin exposed
               PROVE  Contended(a, "status")
    BY DEF OneInvoice
  <2>1. invoices[a] \in Nat
    BY DEF TypedOK, TablesOK
  <2>2. PICK r \in Requests, s \in Requests : r # s /\ Charging(r, a) /\ Charging(s, a)
    BY <2>1 DEF InvoicesKnown
  <2>3. ASSUME NEW q \in Requests, Charging(q, a) PROVE Holds(q, a, "status")
    BY <2>3, ChargingIs DEF Holds
  <2>4. QED  BY <2>2, <2>3 DEF Contended
<1>4. QED  BY <1>1, <1>2, <1>3, PTL DEF Spec
=============================================================================
