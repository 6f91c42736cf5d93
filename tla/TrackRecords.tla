---------------------------- MODULE TrackRecords ----------------------------
(***************************************************************************)
(* The three registries of traders: taral-importer.clar (with its storage),*)
(* taral-exporter.clar (with its storage) and taral-lender.clar.  Each     *)
(* keeps, for a registered principal, how many of its transactions ended   *)
(* well and how many did not.  Names, categories, hashes and the           *)
(* registration numbers are left out: nothing that changes state reads     *)
(* them.                                                                   *)
(***************************************************************************)
EXTENDS Naturals, Principals

CONSTANTS
  Importers, Exporters, Lenders,  \* the wallets that ever register as such
  MaxDirectUpdates                \* bound: counts a direct call may reach

ASSUME TrackRecordsAssumption ==
  /\ Importers \subseteq Wallets
  /\ Exporters \subseteq Wallets
  /\ Lenders \subseteq Wallets
  /\ MaxDirectUpdates \in Nat

VARIABLE trackRecords   \* role -> wallet -> its entry in that registry

Roles == {"importer", "exporter", "lender"}

TrackRecord == [registered : BOOLEAN, successful : Nat, failed : Nat]

TrackRecordsTypeOK == trackRecords \in [Roles -> [Wallets -> TrackRecord]]

Entry(registered) ==
  [registered |-> registered, successful |-> 0, failed |-> 0]

TrackRecordsInit ==
  trackRecords = [r \in Roles |-> [w \in Wallets |-> Entry(FALSE)]]

(* update-*-track-record, called by a wallet or by the bank: it needs the  *)
(* profile to exist, and counts one transaction more.                      *)
CanCredit(records, role, w) == records[role][w].registered

Credited(records, role, w, success) ==
  IF success THEN [records EXCEPT ![role][w].successful = @ + 1]
             ELSE [records EXCEPT ![role][w].failed = @ + 1]

Again_RegisterTrader(role, w) ==
  trackRecords' = [trackRecords EXCEPT ![role][w] = Entry(TRUE)]

(* register of taral-importer and taral-exporter: once per principal. *)
RegisterTrader(role, w) ==
  /\ ~trackRecords[role][w].registered
  /\ trackRecords' = [trackRecords EXCEPT ![role][w] = Entry(TRUE)]

(* register-lender overwrites the entry, counts included. *)
RegisterLender(w) ==
  trackRecords' = [trackRecords EXCEPT !["lender"][w] = Entry(TRUE)]

(* The update functions are public: a wallet may call them directly. *)
UpdateTrackRecord(role, w, success) ==
  /\ CanCredit(trackRecords, role, w)
  /\ trackRecords[role][w].successful + trackRecords[role][w].failed
       < MaxDirectUpdates
  /\ trackRecords' = Credited(trackRecords, role, w, success)

TrackRecordsNext ==
  \/ \E w \in Importers : RegisterTrader("importer", w)
  \/ \E w \in Exporters : RegisterTrader("exporter", w)
  \/ \E w \in Lenders : RegisterLender(w)
  \/ \E r \in Roles, w \in Wallets, success \in BOOLEAN :
       UpdateTrackRecord(r, w, success)
=============================================================================
