------------------------------ MODULE MCRecords ------------------------------
(* What the services keep: documents, job notes, accounts, tenants, the     *)
(* catalog, chunks, backups, bans and the action ledger.  A behaviour is one  *)
(* of a single component, the focus, while the others stand still.           *)
EXTENDS LocalStorage, JobTracking, Accounts, TenantStore, Catalog,
        VectorStore, DriveBackup, BanManager, ActionLedger

\* u2 only reads.
MCWrites == [u \in StoreUsers |-> IF u = "u1" THEN StoreKeys ELSE {}]

MCSession(t, tier, role) == [tenant |-> t, tier |-> tier, role |-> role]
MCSessions == {MCSession("s", "premium", "admin"), MCSession("s", "vip", "viewer"), MCSession("t", "free", "")}

\* u1 and u2 are threads of one process.
MCConnectionOf == [u \in Clerks |-> IF u = "v" THEN "q" ELSE "p"]

\* A file and a link below data, and a file of its own.
MCEntries == <<"file", "link", "db">>
MCLinkEntries == {"link"}

\* Soft, medium and hard bans.
MCThreshold == <<2, 3, 4>>
MCFailWindow == <<2, 4, 6>>
MCBanTime == <<1, 2, 4>>

\* g1 and g2 are threads of one process.
MCProcessOf == [g \in Loggers |-> IF g = "g3" THEN "q" ELSE "p"]

VARIABLE focus

vars == <<storageVars, jobVars, accountVars, tenantStoreVars, catalogVars,
          ragVars, driveVars, banVars, ledgerVars, focus>>

Foci == {"storage", "jobs", "accounts", "tenants", "catalog", "vectors",
         "backups", "bans", "ledger"}

RecordsInit ==
  /\ focus \in Foci
  /\ StorageInit /\ JobInit /\ AccountsInit /\ TenantStoreInit /\ CatalogInit
     /\ RagInit /\ DriveInit /\ BanInit /\ LedgerInit

RecordsNext ==
  \/ /\ focus = "storage" /\ StorageNext
     /\ UNCHANGED <<jobVars, accountVars, tenantStoreVars, catalogVars,
                      ragVars, driveVars, banVars, ledgerVars, focus>>
  \/ /\ focus = "jobs" /\ JobNext
     /\ UNCHANGED <<storageVars, accountVars, tenantStoreVars, catalogVars,
                      ragVars, driveVars, banVars, ledgerVars, focus>>
  \/ /\ focus = "accounts" /\ AccountsNext
     /\ UNCHANGED <<storageVars, jobVars, tenantStoreVars, catalogVars,
                      ragVars, driveVars, banVars, ledgerVars, focus>>
  \/ /\ focus = "tenants" /\ TenantStoreNext
     /\ UNCHANGED <<storageVars, jobVars, accountVars, catalogVars, ragVars,
                      driveVars, banVars, ledgerVars, focus>>
  \/ /\ focus = "catalog" /\ CatalogNext
     /\ UNCHANGED <<storageVars, jobVars, accountVars, tenantStoreVars,
                      ragVars, driveVars, banVars, ledgerVars, focus>>
  \/ /\ focus = "vectors" /\ RagNext
     /\ UNCHANGED <<storageVars, jobVars, accountVars, tenantStoreVars,
                      catalogVars, driveVars, banVars, ledgerVars, focus>>
  \/ /\ focus = "backups" /\ DriveNext
     /\ UNCHANGED <<storageVars, jobVars, accountVars, tenantStoreVars,
                      catalogVars, ragVars, banVars, ledgerVars, focus>>
  \/ /\ focus = "bans" /\ BanNext
     /\ UNCHANGED <<storageVars, jobVars, accountVars, tenantStoreVars,
                      catalogVars, ragVars, driveVars, ledgerVars, focus>>
  \/ /\ focus = "ledger" /\ LedgerNext
     /\ UNCHANGED <<storageVars, jobVars, accountVars, tenantStoreVars,
                      catalogVars, ragVars, driveVars, banVars, focus>>

RecordsSpec == RecordsInit /\ [][RecordsNext]_vars
------------------------------------------------------------------------------
\* The types of the records, each stated in its module, when it is in focus.
RecordsTypeOK ==
  /\ focus = "storage" => StorageTypeOK
  /\ focus = "jobs" => JobTypeOK
  /\ focus = "accounts" => AccountsTypeOK
  /\ focus = "tenants" => TenantStoreTypeOK
  /\ focus = "catalog" => CatalogTypeOK
  /\ focus = "vectors" => RagTypeOK
  /\ focus = "backups" => DriveTypeOK
  /\ focus = "bans" => BanTypeOK
  /\ focus = "ledger" => LedgerTypeOK
==============================================================================
