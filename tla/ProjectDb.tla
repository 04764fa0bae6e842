----------------------------- MODULE ProjectDb -----------------------------
(***************************************************************************)
(* The Project DB as the commands meet it: every process first brings the  *)
(* file up to date (Migration) and then works on the vault inside (Vault). *)
(* One of the migrations carries the older wrap of the vault's key into    *)
(* the slot table (store/src/schema/project_vault_key_slots.sql).          *)
(***************************************************************************)
EXTENDS Migration, Vault

CONSTANT SlotVersion  \* the migration that creates vault_key_slot

ASSUME SlotVersionIsOne == SlotVersion \in Versions /\ Procs = Openers

projectDbVars == <<migrationVars, vaultVars>>

\* The vault found fits the ledger found: slots only where their table is, an
\* older wrap only where it is not.
ProjectDbInit ==
  /\ MigrationInit /\ VaultInit
  /\ cast.store = "established" => \A v \in 1 .. SlotVersion : ledger[v] # Absent
  /\ cast.store = "unslotted" =>
       /\ ledger[SlotVersion] = Absent
       /\ \A v \in 1 .. SlotVersion - 1 : ledger[v] # Absent

MigrateStep(p) == LookUp(p) /\ UNCHANGED vaultVars

ApplyBody(p) ==
  /\ Apply(p)
  /\ IF op[p].v = SlotVersion /\ ledger' # ledger THEN CopyOldWrap
     ELSE UNCHANGED vaultVars

\* Later opens of the same process find nothing to do.
VaultStep(p) == Opened(p) /\ Command(p) /\ UNCHANGED migrationVars

Abort(p) == GiveUp(p) /\ UNCHANGED migrationVars
Die(p) == CommandAt(p, "idle") /\ DieOpening(p) /\ UNCHANGED vaultVars

TimePasses == SessionEnds /\ UNCHANGED migrationVars

DeleteFile ==
  /\ DeleteStore
  /\ ledger' = [v \in Versions |-> Absent] /\ tables' = ledger'
  /\ op' = [p \in Openers |-> Closed]

ProjectDbNext ==
  \/ \E p \in Procs : MigrateStep(p) \/ ApplyBody(p) \/ VaultStep(p) \/ Abort(p) \/ Die(p)
  \/ TimePasses \/ DeleteFile

ProjectDbSpec == ProjectDbInit /\ [][ProjectDbNext]_projectDbVars
=============================================================================
