--------------------------- MODULE JournalBinding ---------------------------
(***************************************************************************)
(* How a server takes the call journal into service, and how the journal   *)
(* and the database agree on what neither stores alone: which file belongs *)
(* to the installation (bindLimitJournal, BindInstallation) and in which   *)
(* time zone its months are counted (validateQuotaJournal,                 *)
(* ensureQuotaActive, WriteQuotaSettings).                                 *)
(*                                                                         *)
(* The row and the file are written by transactions of their own; a start  *)
(* may fail or die between any two of them, and a commit may take place    *)
(* although it is answered by an error.  One process serves at a time.  An *)
(* operator may start it on a missing file, which Open creates empty: a    *)
(* file that the database knows of is then merely elsewhere and may be put *)
(* back, an earlier one is gone.                                           *)
(***************************************************************************)
CONSTANTS Zones, FirstZone, NoZone

ASSUME BindingAssumption == FirstZone \in Zones /\ NoZone \notin Zones

VARIABLES
  recorder,      \* how far StartCallRecorder is: "down" to "up"
  path,          \* the file it finds: the installation's "own" or an "other" one
  bound,         \* the own file carries the installation's identity
  installation,  \* the limit_installation row: "none", "named", "initialized"
  setting,       \* the quota_settings row: zone, and whether it is frozen
  ledgerZone,    \* the zone of the ledger in the own file, or NoZone
  accounting     \* the zone an ensureQuotaActive has frozen, or NoZone

bindingVars == <<recorder, path, bound, installation, setting, ledgerZone, accounting>>
zoneVars == <<setting, ledgerZone, accounting>>

BindingInit ==
  /\ recorder = "down" /\ path = "own" /\ bound = FALSE
  /\ installation = "none"
  /\ setting = [zone |-> FirstZone, frozen |-> FALSE]
  /\ ledgerZone = NoZone /\ accounting = NoZone

Up == recorder = "up"
Established == installation = "initialized"

-----------------------------------------------------------------------------
\* eventqueue.Open; what it does to pending calls is GatewayCall's.
OpenQueue ==
  /\ recorder = "down" /\ recorder' = "opened"
  /\ UNCHANGED <<path, bound, installation, zoneVars>>

\* The identity is committed before it is written to the file.
NameInstallation(heard) ==
  /\ recorder = "opened" /\ recorder' = (IF heard THEN "named" ELSE "down")
  /\ installation' = IF installation = "none" THEN "named" ELSE installation
  /\ UNCHANGED <<path, bound, zoneVars>>

\* A defect: an empty file is bound, established or not.
BindInstallation_AnyFile ==
  /\ recorder = "named" /\ recorder' = "bound"
  /\ bound' = (path = "own" \/ bound)
  /\ UNCHANGED <<path, installation, zoneVars>>

\* A file without an identity is bound only before the first service.
BindInstallation ==
  /\ recorder = "named" /\ recorder' = "bound"
  /\ (path = "own" /\ bound) \/ ~Established
  /\ bound' = TRUE
  /\ UNCHANGED <<path, installation, zoneVars>>

\* The transaction around it commits.
InitializeInstallation(heard) ==
  /\ recorder = "bound" /\ recorder' = (IF heard THEN "established" ELSE "down")
  /\ installation' = "initialized"
  /\ UNCHANGED <<path, bound, zoneVars>>

\* Then the recorder serves.
validateQuotaJournal ==
  /\ recorder = "established"
  /\ path = "own" => ledgerZone \in {NoZone, setting.zone}
  /\ recorder' = "up"
  /\ UNCHANGED <<path, bound, installation, zoneVars>>

\* A refusal, a failure or the death of the process; the file keeps what was
\* written to it, the transaction around BindInstallation is rolled back.
StartFails ==
  /\ recorder \in {"opened", "named", "bound", "established"} /\ recorder' = "down"
  /\ UNCHANGED <<path, bound, installation, zoneVars>>

StartCallRecorder ==
  \/ BindInstallation \/ validateQuotaJournal \/ StartFails
  \/ \E heard \in BOOLEAN : NameInstallation(heard) \/ InitializeInstallation(heard)

\* The next start finds an empty file, or the own one again.
ReplaceFile ==
  /\ recorder = "down"
  /\ IF Established
       THEN path' = (IF path = "own" THEN "other" ELSE "own") /\ UNCHANGED bound
       ELSE bound' = FALSE /\ UNCHANGED path
  /\ UNCHANGED <<recorder, installation, zoneVars>>

-----------------------------------------------------------------------------
\* ensureQuotaActive, its transaction: the zone of the request, which may be an
\* old one, must be the stored one, which is then frozen.
FreezeAccounting(zone, heard) ==
  /\ Up /\ accounting = NoZone /\ ledgerZone = NoZone
  /\ setting.zone = zone
  /\ setting' = [setting EXCEPT !.frozen = TRUE]
  /\ accounting' = IF heard THEN zone ELSE NoZone
  /\ UNCHANGED <<recorder, path, bound, installation, ledgerZone>>

\* EnableQuota in the file; it may fail.
EnableQuota(ok) ==
  /\ Up /\ accounting # NoZone
  /\ ledgerZone' = IF ok THEN accounting ELSE ledgerZone
  /\ accounting' = NoZone
  /\ UNCHANGED <<recorder, path, bound, installation, setting>>

\* limitMu keeps it apart from admissions of its process.
WriteQuotaSettings(zone) ==
  /\ Up /\ accounting = NoZone
  /\ ledgerZone \in {NoZone, zone}
  /\ setting.frozen => setting.zone = zone
  /\ setting' = [setting EXCEPT !.zone = zone]
  /\ UNCHANGED <<recorder, path, bound, installation, ledgerZone, accounting>>

Accounting ==
  \/ \E zone \in Zones : \/ \E heard \in BOOLEAN : FreezeAccounting(zone, heard)
                         \/ WriteQuotaSettings(zone)
  \/ \E ok \in BOOLEAN : EnableQuota(ok)
=============================================================================
