------------------------------ MODULE StartUp ------------------------------
(***************************************************************************)
(* The start of the coordinator up to the recovery of runs: the migrations *)
(* of the schema, of the credentials from a file to the Keychain, and of   *)
(* the planner configuration to a thinking-model profile.  A step that     *)
(* raises ends the start, a crash may come between any two steps, and the  *)
(* next start begins from what is on disk.                                 *)
(***************************************************************************)
EXTENDS Naturals

CONSTANTS
  LastVersion,   \* CURRENT_SCHEMA_VERSION
  Secrets,       \* keys of credentials
  MaxBreaks      \* bound: crashes, stops and failing steps

ASSUME StartAssumption == LastVersion \in Nat /\ MaxBreaks \in Nat

VARIABLES
  stage,      \* how far the start is
  schema,     \* in the database: the version recorded, and the one the tables have
  migration,  \* the open transaction of a migration
  file,       \* the keys in the credentials file, which has their first values
  uncopied,   \* keys that this start has yet to copy
  keychain,   \* the value of each key in the Keychain, 0 for none
  latest,     \* history: the value of each key that was stored last
  reverted,   \* history: keys that a migration has set back to their first value
  configured, \* whether there is a planner configuration
  legacy,     \* whether the profile legacy-default exists
  migrated,   \* the flag thinking_models_migrated
  breaks      \* crashes, stops and failures so far

schemaVars == <<schema, migration>>
secretVars == <<file, uncopied, keychain, latest, reverted>>
legacyVars == <<configured, legacy, migrated>>
startVars  == <<stage, schemaVars, secretVars, legacyVars, breaks>>

Stages == {"down", "schema", "migrating", "applied", "credentials", "copying", "legacy", "backed_up",
           "created", "projects", "up"}

Schema == [version: 0..LastVersion, tables: 0..LastVersion]
Closed == [version |-> LastVersion + 1, tables |-> LastVersion + 1]

At(before, after) == stage = before /\ stage' = after

-----------------------------------------------------------------------------
StartInit ==
  /\ stage = "down"
  /\ schema = [version |-> 0, tables |-> 0]
  /\ migration = Closed
  /\ file \in {{}, Secrets}
  /\ uncopied = {}
  /\ keychain = [k \in Secrets |-> 0]
  /\ latest = [k \in Secrets |-> IF k \in file THEN 1 ELSE 0]
  /\ reverted = {}
  /\ configured \in BOOLEAN
  /\ legacy = FALSE
  /\ migrated = FALSE
  /\ breaks = 0

(* The same after the first start of an installation.                      *)
Started ==
  /\ stage = "up"
  /\ schema = [version |-> LastVersion, tables |-> LastVersion]
  /\ migration = Closed
  /\ file = {} /\ uncopied = {} /\ reverted = {}
  /\ keychain = [k \in Secrets |-> 0] /\ latest = keychain
  /\ configured = FALSE /\ legacy = FALSE /\ migrated = TRUE
  /\ breaks = 0

Begin ==
  /\ At("down", "schema")
  /\ UNCHANGED <<schemaVars, secretVars, legacyVars, breaks>>

(* BEGIN IMMEDIATE, the statements of the next version, then its number and *)
(* the commit.  The mutant goes on after the last version.                 *)
BeginMigrationAgain ==
  /\ At("schema", "migrating")
  /\ migration' = schema
  /\ UNCHANGED <<schema, secretVars, legacyVars, breaks>>
BeginMigration ==
  /\ At("schema", "migrating")
  /\ schema.version < LastVersion
  /\ migration' = schema
  /\ UNCHANGED <<schema, secretVars, legacyVars, breaks>>

(* Statements that were applied before fail, and so does the start.        *)
Applied == IF migration.tables = migration.version THEN "applied" ELSE "down"

(* Mutant: the statements commit one by one.                               *)
RunStatementsAlone ==
  /\ At("migrating", Applied)
  /\ migration' = IF Applied = "down" THEN Closed ELSE [migration EXCEPT !.tables = @ + 1]
  /\ schema' = IF Applied = "down" THEN schema ELSE migration'
  /\ UNCHANGED <<secretVars, legacyVars, breaks>>
RunStatements ==
  /\ At("migrating", Applied)
  /\ migration' = IF Applied = "down" THEN Closed ELSE [migration EXCEPT !.tables = @ + 1]
  /\ UNCHANGED <<schema, secretVars, legacyVars, breaks>>

CommitMigration ==
  /\ At("applied", "schema")
  /\ schema' = [migration EXCEPT !.version = @ + 1]
  /\ migration' = Closed
  /\ UNCHANGED <<secretVars, legacyVars, breaks>>

SchemaCurrent ==
  /\ At("schema", "credentials")
  /\ schema.version = LastVersion
  /\ UNCHANGED <<schemaVars, secretVars, legacyVars, breaks>>

-----------------------------------------------------------------------------
(* migrate_credentials: an empty file is removed, a full one is copied.     *)
ReadCredentials ==
  /\ At("credentials", IF file = {} THEN "legacy" ELSE "copying")
  /\ uncopied' = file
  /\ UNCHANGED <<schemaVars, file, keychain, latest, reverted, legacyVars, breaks>>

CopySecret(k) ==
  /\ stage = "copying"
  /\ k \in uncopied
  /\ uncopied' = uncopied \ {k}
  /\ keychain' = [keychain EXCEPT ![k] = 1]
  /\ reverted' = IF latest[k] > 1 THEN reverted \cup {k} ELSE reverted
  /\ UNCHANGED <<stage, schemaVars, file, latest, legacyVars, breaks>>

(* The file is put aside when everything was read back.  The mutant does   *)
(* that although something was not copied.                                 *)
AllCopiedOrNot == TRUE
AllCopied == uncopied = {}

RetireFile ==
  /\ At("copying", "legacy")
  /\ AllCopied
  /\ file' = {}
  /\ uncopied' = {}
  /\ UNCHANGED <<schemaVars, keychain, latest, reverted, legacyVars, breaks>>

(* The file cannot be read, the Keychain refuses a value or gives another   *)
(* one back: the file stays, and the Keychain is used all the same.        *)
CopyFails ==
  /\ stage \in {"credentials", "copying"}
  /\ breaks < MaxBreaks
  /\ stage' = "legacy"
  /\ uncopied' = {}
  /\ breaks' = breaks + 1
  /\ UNCHANGED <<schemaVars, file, keychain, latest, reverted, legacyVars>>

-----------------------------------------------------------------------------
(* migrate_legacy.                                                         *)
NothingToMigrate ==
  /\ At("legacy", "projects")
  /\ migrated \/ ~configured
  /\ migrated' = TRUE
  /\ UNCHANGED <<schemaVars, secretVars, configured, legacy, breaks>>

MayMigrate == configured /\ ~migrated

BackUp ==
  /\ At("legacy", "backed_up")
  /\ MayMigrate
  /\ UNCHANGED <<schemaVars, secretVars, legacyVars, breaks>>

(* The id is fixed, so that the row cannot be inserted a second time.       *)
CreateLegacy ==
  /\ At("backed_up", IF legacy THEN "down" ELSE "created")
  /\ legacy' = TRUE
  /\ UNCHANGED <<schemaVars, secretVars, configured, migrated, breaks>>

SetFlag ==
  /\ At("created", "projects")
  /\ migrated' = TRUE
  /\ UNCHANGED <<schemaVars, secretVars, configured, legacy, breaks>>

(* The directories of all projects exist, or are made.                     *)
RegisterProjects ==
  /\ At("projects", "up")
  /\ UNCHANGED <<schemaVars, secretVars, legacyVars, breaks>>

-----------------------------------------------------------------------------
StoreSecret(k) ==
  /\ stage = "up"
  /\ keychain' = [keychain EXCEPT ![k] = 2]
  /\ latest' = [latest EXCEPT ![k] = 2]
  /\ UNCHANGED <<stage, schemaVars, file, uncopied, reverted, legacyVars, breaks>>

DeleteLegacy ==
  /\ stage = "up"
  /\ legacy
  /\ legacy' = FALSE
  /\ UNCHANGED <<stage, schemaVars, secretVars, configured, migrated, breaks>>

ConfigurePlanner ==
  /\ stage = "up"
  /\ configured' = TRUE
  /\ UNCHANGED <<stage, schemaVars, secretVars, legacy, migrated, breaks>>

(* A crash, a stop, or a step that raises: a directory that cannot be made, *)
(* a full disk, a backup that does not verify.                             *)
Break ==
  /\ stage # "down"
  /\ breaks < MaxBreaks
  /\ stage' = "down"
  /\ migration' = Closed
  /\ uncopied' = {}
  /\ breaks' = breaks + 1
  /\ UNCHANGED <<schema, file, keychain, latest, reverted, legacyVars>>

StartStep ==
  \/ Begin \/ BeginMigration \/ RunStatements \/ CommitMigration \/ SchemaCurrent
  \/ ReadCredentials \/ (\E k \in Secrets : CopySecret(k)) \/ RetireFile
  \/ NothingToMigrate \/ BackUp \/ CreateLegacy \/ SetFlag \/ RegisterProjects

StartUpStep ==
  \/ StartStep \/ CopyFails \/ Break
  \/ \E k \in Secrets : StoreSecret(k)
  \/ DeleteLegacy \/ ConfigurePlanner

StartTypeOK ==
  /\ stage \in Stages
  /\ schema \in Schema /\ migration \in Schema \cup {Closed}
  /\ file \subseteq Secrets /\ uncopied \subseteq file /\ reverted \subseteq Secrets
  /\ keychain \in [Secrets -> 0..2] /\ latest \in [Secrets -> 0..2]
  /\ configured \in BOOLEAN /\ legacy \in BOOLEAN /\ migrated \in BOOLEAN
  /\ breaks \in 0..MaxBreaks

-----------------------------------------------------------------------------
(* Every credential is in the file with its first value, or it is in the    *)
(* Keychain with the value that was stored last; wherever the copying was  *)
(* cut off.  Except that a copying that failed before is repeated over a    *)
(* value that was stored after it.                                         *)
SecretsKept ==
  \A k \in Secrets :
    k \notin file /\ k \notin reverted => keychain[k] = latest[k]

(* The coordinator comes up again after whatever cut it off: a migration is *)
(* applied and recorded or neither, a copying is repeated.  But for one     *)
(* point, between the creation of the legacy profile and its flag, from     *)
(* where on every start fails to create it a second time.                  *)
ComesUp == stage = "down" ~> stage = "up" \/ (legacy /\ ~migrated)
=============================================================================
