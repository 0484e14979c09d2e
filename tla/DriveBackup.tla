----------------------------- MODULE DriveBackup -----------------------------
(***************************************************************************)
(* scripts/drive_backup.py: a timer archives the sources of a host one     *)
(* after the other while the services go on writing them, encrypts the     *)
(* archive, uploads it to a folder that hosts may share, and trashes what  *)
(* is beyond the retention.  A request is tried again after an error, also *)
(* when the server had done it.  A file is restored entry by entry, with   *)
(* the key the operator has now, into whatever the target holds already.   *)
(***************************************************************************)
EXTENDS Integers, Sequences, FiniteSets, SequencesExt, FiniteSetsExt

CONSTANTS Hosts,
          Entries,        \* the names below the sources (data, config, tenants.db),
                          \* a sequence, in the order in which tar.add meets them
          LinkEntries,    \* those that tar archives as symbolic or hard links
          Retention,
          MaxAttempts,    \* _MAX_RETRIES
          MaxWrites,      \* bound: edits of the sources
          MaxUploads,     \* bound: files in the folder
          LastKey         \* bound: keys the operator goes through

ASSUME DriveBackupAssumption ==
  /\ {Retention, MaxAttempts, MaxUploads} \subseteq Nat \ {0} /\ {MaxWrites, LastKey} \subseteq Nat
  /\ Entries \in Seq(STRING) /\ Entries # <<>> /\ IsInjective(Entries)
  /\ LinkEntries \subseteq ToSet(Entries)

VARIABLES live,      \* the version of each entry of a host, if it is there
          edits,     \* how often entries changed: the newest version there is
          folder,    \* the files, in the order of their creation
          trashed,   \* the numbers of those in the trash
          backup,    \* what the run of each host is doing
          key,       \* VELAFLOW_BACKUP_KEY
          restore,   \* the restore that is running, and its target
          uploaded   \* the last archive of each host whose run ended well

driveVars == <<live, edits, folder, trashed, backup, key, restore, uploaded>>

Names == ToSet(Entries)
NotThere == -1
Nothing == [e \in Names |-> NotThere]
\* next: the place of the entry that is archived next.
NoBackup == [phase |-> "idle", next |-> 1, archive |-> Nothing, key |-> 0, attempts |-> 0, old |-> {}]
\* next: the place of the entry that is extracted next, 0 when no restore is running.
NoRestore == [file |-> 0, next |-> 0, target |-> Nothing, code |-> -1]

DriveInit ==
  /\ live = [h \in Hosts |-> [e \in Names |-> 0]]
  /\ edits = 0
  /\ folder = <<>> /\ trashed = {}
  /\ backup = [h \in Hosts |-> NoBackup]
  /\ key = 0
  /\ restore = NoRestore
  /\ uploaded = [h \in Hosts |-> Nothing]

BackupIn(h, phase) == backup[h].phase = phase
BackupIs(h, b) == backup' = [backup EXCEPT ![h] = b]
\* An error leaves the run: its exit code is not 0.
GivesUp(h) == BackupIs(h, NoBackup)
------------------------------------------------------------------------------
\* run_backup reads the key; the archive is made from the sources that exist.  (What
\* was restored before has been looked at.)
StartBackup(h) ==
  /\ BackupIn(h, "idle") /\ restore.next = 0
  /\ BackupIs(h, [NoBackup EXCEPT !.phase = "archive", !.key = key])
  /\ restore' = NoRestore
  /\ UNCHANGED <<live, edits, folder, trashed, key, uploaded>>

\* _build_tarball: the next entry, as it is by now, or nothing when it is gone; after
\* the last the archive is encrypted.  One that cannot be read ends the run.
ArchiveEntry(h) ==
  LET b == backup[h]
      e == Entries[b.next]
  IN /\ BackupIn(h, "archive")
     /\ \/ GivesUp(h)
        \/ BackupIs(h, [b EXCEPT !.archive[e] = live[h][e],
                                 !.phase = IF b.next = Len(Entries) THEN "upload" ELSE "archive",
                                 !.next = IF b.next = Len(Entries) THEN 1 ELSE @ + 1])
     /\ UNCHANGED <<live, edits, folder, trashed, key, restore, uploaded>>

\* _with_retry: after an error the same request again, until the attempts are used up;
\* some errors are not tried again.
Retried(h, asked) ==
  \/ asked.attempts + 1 < MaxAttempts /\ BackupIs(h, [asked EXCEPT !.attempts = @ + 1])
  \/ GivesUp(h)

\* upload: the request that fails may have made its file.
Upload(h) ==
  LET b == backup[h]
      file == [host |-> h, key |-> b.key, archive |-> b.archive]
  IN /\ BackupIn(h, "upload")
     /\ \/ /\ Len(folder) < MaxUploads
           /\ folder' = Append(folder, file)
           /\ BackupIs(h, [b EXCEPT !.phase = "list", !.attempts = 0]) \/ Retried(h, b)
        \/ UNCHANGED folder /\ Retried(h, b)
     /\ UNCHANGED <<live, edits, trashed, key, restore, uploaded>>

\* Slip: the list is taken to begin with the oldest file.
BeyondReversed(kept) == {f \in kept : Cardinality({g \in kept : g < f}) >= Retention}

\* existing[retention:] of a list that begins with the newest file.
Beyond(kept) == {f \in kept : Cardinality({g \in kept : g > f}) >= Retention}

ListBackups(h) ==
  /\ BackupIn(h, "list")
  /\ \/ BackupIs(h, [backup[h] EXCEPT !.phase = "trash", !.attempts = 0, !.old = Beyond(DOMAIN folder \ trashed)])
     \/ Retried(h, backup[h])
  /\ UNCHANGED <<live, edits, folder, trashed, key, restore, uploaded>>

\* Those beyond are trashed in the order of the list, the newest first.
TrashOld(h) ==
  LET b == backup[h]
  IN /\ BackupIn(h, "trash") /\ b.old # {}
     /\ \/ \E f \in b.old :
             /\ \A g \in b.old : g <= f
             /\ trashed' = trashed \cup {f}
             /\ BackupIs(h, [b EXCEPT !.old = @ \ {f}, !.attempts = 0]) \/ Retried(h, b)
        \/ UNCHANGED trashed /\ Retried(h, b)
     /\ UNCHANGED <<live, edits, folder, key, restore, uploaded>>

EndBackup(h) ==
  /\ BackupIn(h, "trash") /\ backup[h].old = {}
  /\ uploaded' = [uploaded EXCEPT ![h] = backup[h].archive]
  /\ BackupIs(h, NoBackup)
  /\ UNCHANGED <<live, edits, folder, trashed, key, restore>>
------------------------------------------------------------------------------
\* run_restore: a file that the key does not open, or with an unsafe member, leaves
\* the target as it is; otherwise its entries are written one after the other.  The
\* file has been downloaded before, so that backups meanwhile would make no difference
\* and the model has none.
StartRestore(f) ==
  /\ \A h \in Hosts : BackupIn(h, "idle")
  /\ restore.next = 0 /\ f \notin trashed
  /\ restore' = IF folder[f].key = key
                THEN [restore EXCEPT !.file = f, !.next = 1, !.code = -1]
                ELSE [restore EXCEPT !.file = f, !.code = 1]
  /\ UNCHANGED <<live, edits, folder, trashed, backup, key, uploaded>>

\* A regular file is written over what the target has under its name.  A link is
\* skipped, and what the archive does not have stays as it was.
ExtractEntry ==
  LET e == Entries[restore.next]
      archived == folder[restore.file].archive[e]
      last == restore.next = Len(Entries)
  IN /\ restore.next # 0
     /\ restore' = [restore EXCEPT !.target[e] = IF e \in LinkEntries \/ archived = NotThere THEN @ ELSE archived,
                                   !.next = IF last THEN 0 ELSE @ + 1, !.code = IF last THEN 0 ELSE -1]
     /\ UNCHANGED <<live, edits, folder, trashed, backup, key, uploaded>>

\* The disk is full, or the process dies.
RestoreBreaks ==
  /\ restore.next # 0
  /\ restore' = [restore EXCEPT !.next = 0, !.code = 1]
  /\ UNCHANGED <<live, edits, folder, trashed, backup, key, uploaded>>
------------------------------------------------------------------------------
\* The services write or remove an entry; the operator edits the key (while nothing
\* runs: a process reads it once, when it starts).
WriteEntry(h, e) ==
  /\ edits < MaxWrites
  /\ edits' = edits + 1
  /\ \E version \in {edits + 1, NotThere} : live' = [live EXCEPT ![h][e] = version]
  /\ UNCHANGED <<folder, trashed, backup, key, restore, uploaded>>

RotateKey ==
  /\ key < LastKey /\ restore.next = 0 /\ \A h \in Hosts : BackupIn(h, "idle")
  /\ key' = key + 1
  /\ UNCHANGED <<live, edits, folder, trashed, backup, restore, uploaded>>

DriveNext ==
  \/ \E h \in Hosts :
       \/ StartBackup(h) \/ ArchiveEntry(h) \/ Upload(h) \/ ListBackups(h) \/ TrashOld(h) \/ EndBackup(h)
       \/ \E e \in Names : WriteEntry(h, e)
  \/ \E f \in DOMAIN folder : StartRestore(f)
  \/ ExtractEntry \/ RestoreBreaks \/ RotateKey

DriveSpec == DriveInit /\ [][DriveNext]_driveVars
------------------------------------------------------------------------------
DriveTypeOK ==
  /\ \A i \in DOMAIN folder : folder[i].host \in Hosts /\ folder[i].key \in 0..LastKey
  /\ Len(folder) <= MaxUploads /\ trashed \subseteq DOMAIN folder
  /\ \A h \in Hosts : backup[h].attempts < MaxAttempts

\* run_backup and run_restore, "the oldest are trashed beyond VELAFLOW_BACKUP_RETENTION":
\* whatever fails or is done twice, and however runs of several hosts overlap, the
\* newest files are never in the trash; a run that ended well left its archive in the
\* folder, and it is only gone when that many newer ones have come; and a restore
\* that ended well gave back every regular file of its archive, whatever an earlier
\* or broken one had left in the target (no more than that: see RestoreIsExact).
BackupsSurvive ==
  /\ \A f \in trashed : Cardinality({g \in DOMAIN folder : g > f}) >= Retention
  /\ \A h \in Hosts : uploaded[h] # Nothing =>
       \E f \in DOMAIN folder :
         /\ folder[f].host = h /\ folder[f].archive = uploaded[h]
         /\ f \in trashed => Cardinality({g \in DOMAIN folder : g > f}) >= Retention
  /\ restore.code = 0 =>
       LET archive == folder[restore.file].archive
       IN  \A e \in Names \ LinkEntries : archive[e] # NotThere => restore.target[e] = archive[e]
------------------------------------------------------------------------------
(* What the repository's documents say of a restore and its code does not.   *)

\* README.md: "Service-account Google Drive uploads with envelope encryption;
\* zero-touch restore".  The exit code is 0 although links are missing and files of
\* an earlier restore are still there, which somebody has to put right.
RestoreIsExact ==
  restore.code = 0 => restore.target = folder[restore.file].archive
==============================================================================
