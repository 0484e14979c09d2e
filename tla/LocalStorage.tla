---------------------------- MODULE LocalStorage ----------------------------
(***************************************************************************)
(* brain/storage/local.py: one JSON file for each key, written to a        *)
(* temporary file of the key and renamed over it.  The users are threads   *)
(* of any process.  A file name leads to an inode; an open handle keeps    *)
(* the inode whatever happens to the name.                                 *)
(***************************************************************************)
EXTENDS Integers, FiniteSets

CONSTANTS StoreUsers, StoreKeys, Documents, Absent,
          Writes,        \* Writes[u]: the keys user u may write or delete
          Inodes, NoInode

Torn == "torn"           \* what a file holds that is not one document

ASSUME StoreAssumption ==
  /\ Writes \in [StoreUsers -> SUBSET StoreKeys]
  /\ Absent \notin Documents /\ Torn \notin Documents \cup {Absent}
  /\ NoInode \notin Inodes

VARIABLES file,     \* the inode each key's path leads to
          temp,     \* the inode of each key's temporary file
          halves,   \* what each inode holds; a long document takes two writes
          user,     \* what each user is doing: operation, key, document, handle
          got       \* what each user's last read returned

storageVars == <<file, temp, halves, user, got>>

Empty == <<Absent, Absent>>

Ready == [op |-> "none", key |-> Absent, doc |-> Absent, inode |-> NoInode]

StorageInit ==
  /\ file = [k \in StoreKeys |-> NoInode]
  /\ temp = [k \in StoreKeys |-> NoInode]
  /\ halves = [i \in Inodes |-> Empty]
  /\ user = [u \in StoreUsers |-> Ready]
  /\ got = [u \in StoreUsers |-> Absent]

Referenced ==
  {file[k] : k \in StoreKeys} \cup {temp[k] : k \in StoreKeys} \cup {user[u].inode : u \in StoreUsers}

\* What a reader of the inode finds.
Read(i) ==
  IF i = NoInode THEN Absent
  ELSE IF halves[i][1] \in Documents /\ halves[i][2] = halves[i][1] THEN halves[i][1] ELSE Torn

Doing(u, op) == user[u].op = op
Turn(u, op) == user' = [user EXCEPT ![u].op = op]
Finish(u) == user' = [user EXCEPT ![u] = Ready]
------------------------------------------------------------------------------
\* Slip: the document is written to the path itself.
OpenPath(u, k, d) ==
  /\ Doing(u, "none")
  /\ k \in Writes[u]
  /\ \E i \in Inodes :
       /\ IF file[k] # NoInode THEN i = file[k] ELSE i \notin Referenced
       /\ file' = [file EXCEPT ![k] = i]
       /\ temp' = [temp EXCEPT ![k] = i]
       /\ halves' = [halves EXCEPT ![i] = Empty]
       /\ user' = [user EXCEPT ![u] = [op |-> "write", key |-> k, doc |-> d, inode |-> i]]
  /\ UNCHANGED got

\* open(tmp_path, "w"): an existing temporary file is truncated, not replaced.
OpenTemp(u, k, d) ==
  /\ Doing(u, "none")
  /\ k \in Writes[u]
  /\ \E i \in Inodes :
       /\ IF temp[k] # NoInode THEN i = temp[k] ELSE i \notin Referenced
       /\ temp' = [temp EXCEPT ![k] = i]
       /\ halves' = [halves EXCEPT ![i] = Empty]
       /\ user' = [user EXCEPT ![u] = [op |-> "write", key |-> k, doc |-> d, inode |-> i]]
  /\ UNCHANGED <<file, got>>

\* json.dump and fsync: the first half, then the second.
WriteHalf(u) ==
  /\ \/ Doing(u, "write") /\ halves' = [halves EXCEPT ![user[u].inode][1] = user[u].doc]
        /\ Turn(u, "more")
     \/ Doing(u, "more") /\ halves' = [halves EXCEPT ![user[u].inode][2] = user[u].doc]
        /\ Turn(u, "replace")
  /\ UNCHANGED <<file, temp, got>>

\* os.replace(tmp_path, path); without the temporary file it raises.
Replace(u) ==
  LET k == user[u].key
  IN /\ Doing(u, "replace")
     /\ temp[k] # NoInode
     /\ file' = [file EXCEPT ![k] = temp[k]]
     /\ temp' = [temp EXCEPT ![k] = NoInode]
     /\ Finish(u)
     /\ UNCHANGED <<halves, got>>

\* A full disk, or no temporary file to rename: the temporary file goes.
WriteFails(u) ==
  /\ user[u].op \in {"write", "more", "replace"}
  /\ temp' = [temp EXCEPT ![user[u].key] = NoInode]
  /\ Finish(u)
  /\ UNCHANGED <<file, halves, got>>

\* read_json: open the file, if there is one, and load it.
OpenForRead(u, k) ==
  /\ Doing(u, "none")
  /\ IF file[k] = NoInode
     THEN got' = [got EXCEPT ![u] = Absent] /\ UNCHANGED user
     ELSE /\ user' = [user EXCEPT ![u] = [op |-> "read", key |-> k, doc |-> Absent, inode |-> file[k]]]
          /\ UNCHANGED got
  /\ UNCHANGED <<file, temp, halves>>

Load(u) ==
  /\ Doing(u, "read")
  /\ got' = [got EXCEPT ![u] = Read(user[u].inode)]
  /\ Finish(u)
  /\ UNCHANGED <<file, temp, halves>>

\* delete: unlink, which keeps the inode for those who have it open.
Delete(u, k) ==
  /\ Doing(u, "none")
  /\ k \in Writes[u]
  /\ file[k] # NoInode
  /\ file' = [file EXCEPT ![k] = NoInode]
  /\ UNCHANGED <<temp, halves, user, got>>

\* A writer's process dies: what it had begun stays on the disk.
Die(u) ==
  /\ user[u].op \in {"write", "more", "replace"}
  /\ Finish(u)
  /\ UNCHANGED <<file, temp, halves, got>>
------------------------------------------------------------------------------
StorageNext ==
  \E u \in StoreUsers :
    \/ \E k \in StoreKeys : OpenForRead(u, k) \/ Delete(u, k) \/ \E d \in Documents : OpenTemp(u, k, d)
    \/ WriteHalf(u) \/ Replace(u) \/ WriteFails(u) \/ Load(u) \/ Die(u)

StorageSpec == StorageInit /\ [][StorageNext]_storageVars
------------------------------------------------------------------------------
StorageTypeOK ==
  /\ file \in [StoreKeys -> Inodes \cup {NoInode}]
  /\ temp \in [StoreKeys -> Inodes \cup {NoInode}]
  /\ halves \in [Inodes -> (Documents \cup {Absent}) \X (Documents \cup {Absent})]
  /\ \A u \in StoreUsers :
       /\ user[u].op \in {"none", "write", "more", "replace", "read"}
       /\ user[u].inode \in Inodes \cup {NoInode}
  /\ got \in [StoreUsers -> Documents \cup {Absent, Torn}]

Visible == [k \in StoreKeys |-> Read(file[k])]

Answered == [u \in StoreUsers |-> IF Doing(u, "read") THEN Read(user[u].inode) ELSE got[u]]

Atomic == INSTANCE AtomicStore WITH content <- Visible, answer <- Answered

\* Comment of write_json: "Atomic write: write to temp file then rename".  As long
\* as no two users write one key at once, readers anywhere find a whole document, the
\* one before or the one after, through crashes half-way, left-over temporary files,
\* failed writes and deletions under an open handle.
StorageIsAtomic == Atomic!StoreSpec

\* The same comment, of any number of writers: nobody reads half a document.
NobodyReadsTorn == \A u \in StoreUsers : got[u] # Torn
==============================================================================
