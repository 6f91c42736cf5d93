SPECIFICATION FairSpec
CONSTANTS
  first = first
  second = second
  none = none
  alice = alice
  bob = bob
  Applications = {first, second}
  NoApplication = none
  Requests = {alice, bob}
  Operations = {"buyerInformation", "orderDetails", "paymentTerms", "security", "supplierInformation", "updateSupplier", "updateTerms", "transaction", "submit", "card", "create", "company", "supplier"}
  Fillings = {{"paymentTerms", "orderDetails", "security"}, {"buyerInformation", "paymentTerms", "orderDetails", "security", "supplier"}}
  MaxRequests = 3
  MaxFaults = 1
INVARIANTS
  TypeOK
  OneInvoice
  SubmittedIsComplete
  OneActive
  CreatedIsListed
PROPERTIES
  PartsStay
  SupplierStays
  SubmittedStays
  SubmissionTakesEffect
CHECK_DEADLOCK FALSE
