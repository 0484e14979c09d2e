--------------------------- MODULE Storage_proofs ----------------------------
(***************************************************************************)
(* Proofs about what is kept: documents, tenant records, the catalog and   *)
(* the backups, for any threads, keys, records, connections and archives.  *)
(***************************************************************************)
EXTENDS LocalStorage, TenantStore, Catalog, DriveBackup, SequenceTheorems,
        FiniteSetTheorems, TLAPS

------------------------------------------------------------------------------
(***************************************************************************)
(* brain/storage/local.py keeps documents atomically for any number of     *)
(* users that write any keys, in every behaviour in which no two of them   *)
(* are in the middle of a write of the same key at once.                   *)
(***************************************************************************)

Writing == {"write", "more", "replace"}

\* Nobody opens the temporary file of a key that another user has open: a key may
\* have many writers, who come one after the other, or over what a dead one left.
WritersTakeTurns ==
  \A u, v \in StoreUsers :
    u # v /\ user[u].op \in Writing /\ user[v].op \in Writing => user[u].key # user[v].key

Whole(i) == halves[i][1] \in Documents /\ halves[i][2] = halves[i][1]

\* The shapes of names, inodes and what users are doing.
Shapes ==
  /\ file \in [StoreKeys -> Inodes \cup {NoInode}]
  /\ temp \in [StoreKeys -> Inodes \cup {NoInode}]
  /\ halves \in [Inodes -> (Documents \cup {Absent}) \X (Documents \cup {Absent})]
  /\ user \in [StoreUsers -> [op : {"none", "read"} \cup Writing, key : StoreKeys \cup {Absent},
                              doc : Documents \cup {Absent}, inode : Inodes \cup {NoInode}]]
  /\ got \in [StoreUsers -> Documents \cup {Absent, Torn}]

\* What a name leads to, and what a reader has open, is a whole document.
FilesWhole == \A k \in StoreKeys : file[k] # NoInode => Whole(file[k])
ReadersWhole == \A u \in StoreUsers : Doing(u, "read") => user[u].inode \in Inodes /\ Whole(user[u].inode)

\* A writer has the temporary file of its key open, and what it has
\* written so far is there.
WriterAt(u) ==
  /\ user[u].key \in StoreKeys /\ user[u].doc \in Documents
  /\ user[u].inode \in Inodes /\ temp[user[u].key] = user[u].inode
  /\ user[u].op \in {"more", "replace"} => halves[user[u].inode][1] = user[u].doc
  /\ Doing(u, "replace") => halves[user[u].inode][2] = user[u].doc

WritersAt == \A u \in StoreUsers : user[u].op \in Writing => WriterAt(u)

\* Nobody sees a temporary file, and no two keys share one.
TempsApart ==
  \A k \in StoreKeys :
    temp[k] # NoInode =>
      /\ \A j \in StoreKeys : file[j] # temp[k]
      /\ \A j \in StoreKeys : j # k => temp[j] # temp[k]
      /\ \A u \in StoreUsers : Doing(u, "read") => user[u].inode # temp[k]

StorageInv == Shapes /\ FilesWhole /\ ReadersWhole /\ WritersAt /\ TempsApart
------------------------------------------------------------------------------
\* What a reader of a whole document finds.
LEMMA ReadOfWhole ==
  ASSUME StoreAssumption, NEW i \in Inodes, Whole(i)
  PROVE  Read(i) = halves[i][1] /\ Read(i) \in Documents
BY DEF StoreAssumption, Read, Whole

\* Two users that are writing have different temporary files open.
LEMMA WritersApart ==
  ASSUME WritersTakeTurns, StorageInv, NEW u \in StoreUsers, NEW v \in StoreUsers, u # v,
         user[u].op \in Writing, user[v].op \in Writing
  PROVE  user[u].key # user[v].key /\ user[u].inode # user[v].inode
<1>1. WriterAt(u) /\ WriterAt(v)
  BY DEF StorageInv, WritersAt
<1>2. user[u].key # user[v].key
  BY DEF WritersTakeTurns
<1>3. StoreAssumption => temp[user[v].key] # temp[user[u].key]
  BY <1>1, <1>2 DEF StorageInv, TempsApart, WriterAt, StoreAssumption
<1>4. QED
  BY <1>1, <1>2, <1>3, StoreAssumption DEF WriterAt
------------------------------------------------------------------------------
\* An empty directory is whole.
LEMMA InitEstablishes == StoreAssumption /\ StorageInit => StorageInv
BY DEF StoreAssumption, StorageInit, StorageInv, Shapes, FilesWhole, ReadersWhole, WritersAt, TempsApart,
       Doing, Ready, Empty, Writing

\* open(tmp_path, "w") takes an inode that no name and no handle but the key's
\* own temporary file leads to.
LEMMA OpenTempPreserves ==
  ASSUME WritersTakeTurns', StorageInv, NEW u \in StoreUsers, NEW k \in StoreKeys, NEW d \in Documents,
         OpenTemp(u, k, d)
  PROVE  StorageInv'
<1>1. PICK i \in Inodes :
        /\ IF temp[k] # NoInode THEN i = temp[k] ELSE i \notin Referenced
        /\ temp' = [temp EXCEPT ![k] = i]
        /\ halves' = [halves EXCEPT ![i] = Empty]
        /\ user' = [user EXCEPT ![u] = [op |-> "write", key |-> k, doc |-> d, inode |-> i]]
  BY DEF OpenTemp
<1>2. k \in Writes[u] /\ Doing(u, "none") /\ file' = file /\ got' = got /\ i # NoInode
  BY StoreAssumption DEF OpenTemp, StoreAssumption
<1>3. /\ \A j \in StoreKeys : file[j] # i
      /\ \A j \in StoreKeys : j # k => temp[j] # i
      /\ \A v \in StoreUsers : Doing(v, "read") => user[v].inode # i
  BY <1>1, <1>2 DEF Referenced, StorageInv, TempsApart
<1>4. Shapes'
  BY <1>1, <1>2 DEF StorageInv, Shapes, Empty, Writing
<1>5. FilesWhole'
  BY <1>1, <1>2, <1>3 DEF StorageInv, Shapes, FilesWhole, Whole
<1>6. ReadersWhole'
  BY <1>1, <1>2, <1>3 DEF StorageInv, Shapes, ReadersWhole, Whole, Doing
<1>7. WritersAt'
  <2> SUFFICES ASSUME NEW v \in StoreUsers, user'[v].op \in Writing PROVE WriterAt(v)'
    BY DEF WritersAt
  <2>1. CASE v = u
    BY <1>1, <1>2, <2>1 DEF StorageInv, Shapes, WriterAt, Doing
  <2>2. CASE v # u
    <3>1. user'[v] = user[v] /\ WriterAt(v)
      BY <1>1, <2>2 DEF StorageInv, Shapes, WritersAt
    <3>2. user[v].key # k /\ user[v].inode # i
      BY <1>1, <1>3, <2>2, <3>1 DEF WritersTakeTurns, WriterAt, Writing, StorageInv, Shapes
    <3>3. QED
      BY <1>1, <3>1, <3>2 DEF StorageInv, Shapes, WriterAt, Doing
  <2>3. QED
    BY <2>1, <2>2
<1>8. TempsApart'
  BY <1>1, <1>2, <1>3 DEF StorageInv, Shapes, TempsApart, Doing
<1>9. QED
  BY <1>4, <1>5, <1>6, <1>7, <1>8 DEF StorageInv

\* One half of a pair is replaced.
LEMMA HalfReplaced ==
  ASSUME NEW S, NEW x \in S \X S, NEW d \in S
  PROVE  [x EXCEPT ![1] = d] = <<d, x[2]>> /\ [x EXCEPT ![2] = d] = <<x[1], d>>
<1>1. PICK a \in S, b \in S : x = <<a, b>>
  OBVIOUS
<1>2. [<<a, b>> EXCEPT ![1] = d] = <<d, b>> /\ [<<a, b>> EXCEPT ![2] = d] = <<a, d>>
  OBVIOUS
<1>3. QED
  BY <1>1, <1>2

\* json.dump writes to an inode that only the writer has open.
LEMMA WriteHalfPreserves ==
  ASSUME WritersTakeTurns, StorageInv, NEW u \in StoreUsers, WriteHalf(u)
  PROVE  StorageInv'
<1> DEFINE i == user[u].inode
           d == user[u].doc
<1>1. /\ user[u].op \in {"write", "more"}
      /\ file' = file /\ temp' = temp /\ got' = got
      /\ user' = [user EXCEPT ![u].op = IF Doing(u, "write") THEN "more" ELSE "replace"]
      /\ halves' = IF Doing(u, "write") THEN [halves EXCEPT ![i][1] = d] ELSE [halves EXCEPT ![i][2] = d]
  BY DEF WriteHalf, Turn, Doing
<1>2. WriterAt(u)
  BY <1>1 DEF StorageInv, WritersAt, Writing
<1>3. /\ i \in Inodes /\ d \in Documents /\ i # NoInode /\ temp[user[u].key] = i /\ user[u].key \in StoreKeys
      /\ halves[i] \in (Documents \cup {Absent}) \X (Documents \cup {Absent})
  BY <1>2, StoreAssumption DEF WriterAt, StoreAssumption, StorageInv, Shapes
<1>4. /\ \A j \in StoreKeys : file[j] # i
      /\ \A v \in StoreUsers : Doing(v, "read") => user[v].inode # i
  BY <1>3 DEF StorageInv, TempsApart
<1>5. halves' = [halves EXCEPT ![i] = IF Doing(u, "write") THEN <<d, halves[i][2]>> ELSE <<halves[i][1], d>>]
  <2> DEFINE S == Documents \cup {Absent}
  <2>1. [halves[i] EXCEPT ![1] = d] = <<d, halves[i][2]>> /\ [halves[i] EXCEPT ![2] = d] = <<halves[i][1], d>>
    <3>1. halves[i] \in S \X S /\ d \in S
      BY <1>3
    <3>2. QED
      BY ONLY <3>1, HalfReplaced
  <2>2. CASE Doing(u, "write")
    <3>1. halves' = [halves EXCEPT ![i][1] = d]
      BY <1>1, <2>2
    <3>2. halves' = [halves EXCEPT ![i] = [halves[i] EXCEPT ![1] = d]]
      BY <3>1, Zenon
    <3>3. QED
      BY <2>1, <2>2, <3>2
  <2>3. CASE ~Doing(u, "write")
    <3>1. halves' = [halves EXCEPT ![i][2] = d]
      BY <1>1, <2>3
    <3>2. halves' = [halves EXCEPT ![i] = [halves[i] EXCEPT ![2] = d]]
      BY <3>1, Zenon
    <3>3. QED
      BY <2>1, <2>3, <3>2
  <2>4. QED
    BY <2>2, <2>3
<1>6. /\ halves'[i] = IF Doing(u, "write") THEN <<d, halves[i][2]>> ELSE <<halves[i][1], d>>
      /\ halves' \in [Inodes -> (Documents \cup {Absent}) \X (Documents \cup {Absent})]
      /\ \A j \in Inodes : j # i => halves'[j] = halves[j]
  BY <1>3, <1>5 DEF StorageInv, Shapes
<1>7. Shapes'
  <2> DEFINE T == {"none", "read"} \cup Writing
             R == [op : T, key : StoreKeys \cup {Absent}, doc : Documents \cup {Absent},
                   inode : Inodes \cup {NoInode}]
  <2>1. PICK o \in T : user' = [user EXCEPT ![u] = [user[u] EXCEPT !.op = o]]
    BY <1>1 DEF Writing
  <2>2. user \in [StoreUsers -> R]
    BY DEF StorageInv, Shapes
  <2>3. [user[u] EXCEPT !.op = o] \in R
    BY <2>2
  <2>4. user' \in [StoreUsers -> R]
    BY <2>1, <2>2, <2>3
  <2>5. QED
    BY <1>1, <1>6, <2>4 DEF StorageInv, Shapes
<1>8. FilesWhole'
  <2> SUFFICES ASSUME NEW k \in StoreKeys, file[k] # NoInode PROVE Whole(file[k])'
    BY <1>1 DEF FilesWhole
  <2>1. file[k] \in Inodes /\ Whole(file[k]) /\ file[k] # i
    BY <1>4 DEF StorageInv, Shapes, FilesWhole
  <2>2. QED
    BY <1>1, <1>6, <2>1 DEF Whole
<1>9. ReadersWhole'
  <2> SUFFICES ASSUME NEW v \in StoreUsers, Doing(v, "read")' PROVE user'[v].inode \in Inodes /\ Whole(user[v].inode)'
    BY DEF ReadersWhole
  <2>1. v # u /\ user'[v] = user[v]
    BY <1>1 DEF StorageInv, Shapes, Doing
  <2>2. user[v].inode \in Inodes /\ Whole(user[v].inode) /\ user[v].inode # i
    BY <1>4, <2>1 DEF StorageInv, ReadersWhole, Doing
  <2>3. QED
    BY <1>6, <2>1, <2>2 DEF Whole
<1>10. WritersAt'
  <2> SUFFICES ASSUME NEW v \in StoreUsers, user'[v].op \in Writing PROVE WriterAt(v)'
    BY DEF WritersAt
  <2>1. CASE v = u
    <3>1. /\ user'[u].key = user[u].key /\ user'[u].doc = d /\ user'[u].inode = i
          /\ user'[u].op = IF Doing(u, "write") THEN "more" ELSE "replace"
      BY <1>1 DEF StorageInv, Shapes
    <3>2. /\ halves'[i][1] = d
          /\ ~Doing(u, "write") => halves'[i][2] = d
      BY <1>1, <1>2, <1>6 DEF WriterAt, Doing
    <3>3. QED
      BY <1>1, <1>2, <2>1, <3>1, <3>2 DEF WriterAt, Doing
  <2>2. CASE v # u
    <3>1. user'[v] = user[v] /\ WriterAt(v) /\ user[v].inode # i
      BY <1>1, <2>2, WritersApart DEF StorageInv, Shapes, WritersAt, Writing
    <3>2. QED
      BY <1>1, <1>6, <3>1 DEF WriterAt, Doing
  <2>3. QED
    BY <2>1, <2>2
<1>11. TempsApart'
  BY <1>1 DEF StorageInv, Shapes, TempsApart, Doing
<1>12. QED
  BY <1>7, <1>8, <1>9, <1>10, <1>11 DEF StorageInv

\* os.replace: what the temporary file was is now the file, whole.
LEMMA ReplacePreserves ==
  ASSUME WritersTakeTurns, StorageInv, NEW u \in StoreUsers, Replace(u)
  PROVE  StorageInv'
<1> DEFINE k == user[u].key
           i == user[u].inode
<1>1. /\ Doing(u, "replace")
      /\ file' = [file EXCEPT ![k] = temp[k]]
      /\ temp' = [temp EXCEPT ![k] = NoInode]
      /\ user' = [user EXCEPT ![u] = Ready]
      /\ halves' = halves /\ got' = got
  BY DEF Replace, Finish
<1>2. WriterAt(u)
  BY <1>1 DEF StorageInv, WritersAt, Writing, Doing
<1>3. /\ k \in StoreKeys /\ temp[k] = i /\ i \in Inodes /\ i # NoInode /\ Whole(i)
  BY <1>1, <1>2, StoreAssumption DEF WriterAt, Whole, StoreAssumption, Doing
<1>4. Shapes'
  BY <1>1, <1>3 DEF StorageInv, Shapes, Ready
<1>5. FilesWhole'
  BY <1>1, <1>3 DEF StorageInv, Shapes, FilesWhole, Whole
<1>6. ReadersWhole'
  BY <1>1, <1>3 DEF StorageInv, Shapes, ReadersWhole, Whole, Doing, Ready
<1>7. WritersAt'
  <2> SUFFICES ASSUME NEW v \in StoreUsers, user'[v].op \in Writing PROVE WriterAt(v)'
    BY DEF WritersAt
  <2>1. v # u /\ user'[v] = user[v]
    BY <1>1 DEF StorageInv, Shapes, Ready, Writing
  <2>2. WriterAt(v) /\ user[v].key # k
    BY <1>1, <2>1, WritersApart DEF StorageInv, WritersAt, Writing, Doing
  <2>3. QED
    BY <1>1, <2>1, <2>2 DEF StorageInv, Shapes, WriterAt, Doing
<1>8. TempsApart'
  BY <1>1, <1>3 DEF StorageInv, Shapes, TempsApart, Doing, Ready
<1>9. QED
  BY <1>4, <1>5, <1>6, <1>7, <1>8 DEF StorageInv

\* A write that fails or dies: the name of the temporary file goes or stays, and
\* the writer has nothing open any more.
LEMMA EndsPreserve ==
  ASSUME WritersTakeTurns, StorageInv, NEW u \in StoreUsers, WriteFails(u) \/ Die(u)
  PROVE  StorageInv'
<1> DEFINE k == user[u].key
<1>1. /\ user[u].op \in Writing
      /\ temp' = temp \/ temp' = [temp EXCEPT ![k] = NoInode]
      /\ user' = [user EXCEPT ![u] = Ready]
      /\ file' = file /\ halves' = halves /\ got' = got
  BY DEF WriteFails, Die, Finish, Writing
<1>2. Shapes'
  BY <1>1 DEF StorageInv, Shapes, Ready
<1>3. FilesWhole'
  BY <1>1 DEF StorageInv, FilesWhole, Whole
<1>4. ReadersWhole'
  BY <1>1 DEF StorageInv, Shapes, ReadersWhole, Whole, Doing, Ready
<1>5. WritersAt'
  <2> SUFFICES ASSUME NEW v \in StoreUsers, user'[v].op \in Writing PROVE WriterAt(v)'
    BY DEF WritersAt
  <2>1. v # u /\ user'[v] = user[v]
    BY <1>1 DEF StorageInv, Shapes, Ready, Writing
  <2>2. WriterAt(v) /\ user[v].key # k
    BY <1>1, <2>1, WritersApart DEF StorageInv, WritersAt
  <2>3. QED
    BY <1>1, <2>1, <2>2 DEF StorageInv, Shapes, WriterAt, Doing
<1>6. TempsApart'
  BY <1>1 DEF StorageInv, Shapes, TempsApart, Doing, Ready
<1>7. QED
  BY <1>2, <1>3, <1>4, <1>5, <1>6 DEF StorageInv

\* A reader opens what the name leads to and keeps it.
LEMMA ReaderPreserves ==
  ASSUME StorageInv, NEW u \in StoreUsers, Load(u) \/ \E k \in StoreKeys : OpenForRead(u, k)
  PROVE  StorageInv'
<1>1. file' = file /\ temp' = temp /\ halves' = halves
  BY DEF Load, OpenForRead
<1>2. CASE Load(u)
  <2>1. /\ Doing(u, "read") /\ user' = [user EXCEPT ![u] = Ready]
        /\ got' = [got EXCEPT ![u] = Read(user[u].inode)]
    BY <1>2 DEF Load, Finish
  <2>2. Read(user[u].inode) \in Documents
    BY <2>1, ReadOfWhole, StoreAssumption DEF StorageInv, ReadersWhole
  <2>3. Shapes'
    BY <1>1, <2>1, <2>2 DEF StorageInv, Shapes, Ready
  <2>4. FilesWhole' /\ ReadersWhole' /\ WritersAt' /\ TempsApart'
    BY <1>1, <2>1 DEF StorageInv, Shapes, FilesWhole, ReadersWhole, WritersAt, WriterAt, TempsApart,
                      Whole, Doing, Ready, Writing
  <2>5. QED
    BY <2>3, <2>4 DEF StorageInv
<1>3. ASSUME NEW k \in StoreKeys, OpenForRead(u, k) PROVE StorageInv'
  <2>1. CASE file[k] = NoInode
    <3>1. user' = user /\ got' = [got EXCEPT ![u] = Absent]
      BY <1>3, <2>1 DEF OpenForRead
    <3>2. QED
      BY <1>1, <3>1 DEF StorageInv, Shapes, FilesWhole, ReadersWhole, WritersAt, WriterAt, TempsApart,
                        Whole, Doing
  <2>2. CASE file[k] # NoInode
    <3>1. /\ got' = got
          /\ user' = [user EXCEPT ![u] = [op |-> "read", key |-> k, doc |-> Absent, inode |-> file[k]]]
      BY <1>3, <2>2 DEF OpenForRead
    <3>2. file[k] \in Inodes /\ Whole(file[k])
      BY <2>2 DEF StorageInv, Shapes, FilesWhole
    <3>3. Shapes'
      BY <1>1, <3>1, <3>2 DEF StorageInv, Shapes
    <3>4. FilesWhole' /\ ReadersWhole' /\ WritersAt' /\ TempsApart'
      BY <1>1, <3>1, <3>2 DEF StorageInv, Shapes, FilesWhole, ReadersWhole, WritersAt, WriterAt, TempsApart,
                              Whole, Doing, Writing
    <3>5. QED
      BY <3>3, <3>4 DEF StorageInv
  <2>3. QED
    BY <2>1, <2>2
<1>4. QED
  BY <1>2, <1>3

\* Unlinking a name leaves the inodes of the others whole.
LEMMA DeletePreserves ==
  ASSUME StorageInv, NEW u \in StoreUsers, NEW k \in StoreKeys, Delete(u, k)
  PROVE  StorageInv'
<1>1. /\ file' = [file EXCEPT ![k] = NoInode]
      /\ temp' = temp /\ halves' = halves /\ user' = user /\ got' = got
  BY DEF Delete
<1>2. QED
  BY <1>1 DEF StorageInv, Shapes, FilesWhole, ReadersWhole, WritersAt, WriterAt, TempsApart, Whole, Doing

\* Every step of the storage keeps what its names lead to whole.
LEMMA StoragePreserves ==
  ASSUME WritersTakeTurns, WritersTakeTurns', StorageInv, [StorageNext]_storageVars
  PROVE  StorageInv'
<1>1. CASE StorageNext
  BY <1>1, OpenTempPreserves, WriteHalfPreserves, ReplacePreserves, EndsPreserve, ReaderPreserves,
     DeletePreserves DEF StorageNext
<1>2. CASE UNCHANGED storageVars
  BY <1>2 DEF storageVars, StorageInv, Shapes, FilesWhole, ReadersWhole, WritersAt, WriterAt, TempsApart,
              Whole, Doing
<1>3. QED
  BY <1>1, <1>2
------------------------------------------------------------------------------
\* What one user's last read stands for.
Seen(u) == IF Doing(u, "read") THEN Read(user[u].inode) ELSE got[u]

\* The answers of the atomic store are what the readers have seen.
LEMMA AnsweredIsSeen ==
  /\ Answered = [u \in StoreUsers |-> Seen(u)]
  /\ Answered' = [u \in StoreUsers |-> Seen(u)']
BY DEF Answered, Seen

\* A step that leaves handles, contents and answers alone is seen by nobody.
LEMMA SeenAlike ==
  ASSUME halves' = halves, got' = got,
         NEW v \in StoreUsers,
         user'[v] = user[v] \/ (user'[v].op # "read" /\ user[v].op # "read")
  PROVE  Seen(v)' = Seen(v)
<1>1. CASE user'[v] = user[v]
  BY <1>1 DEF Seen, Doing, Read
<1>2. CASE user'[v].op # "read" /\ user[v].op # "read"
  BY <1>2 DEF Seen, Doing
<1>3. QED
  BY <1>1, <1>2

\* The contents of a temporary file change nothing anybody sees.
LEMMA TempsUnseen ==
  ASSUME StorageInv, NEW u \in StoreUsers, user[u].op = "none" \/ user[u].op \in Writing,
         NEW i \in Inodes,
         \A j \in StoreKeys : file[j] # i,
         \A v \in StoreUsers : Doing(v, "read") => user[v].inode # i,
         file' = file, got' = got,
         \A j \in Inodes : j # i => halves'[j] = halves[j],
         \A v \in StoreUsers : v # u => user'[v] = user[v],
         user'[u].op # "read"
  PROVE  Visible' = Visible /\ Answered' = Answered
<1>1. \A k \in StoreKeys : Read(file[k])' = Read(file[k])
  BY DEF Read, StorageInv, Shapes
<1>2. ASSUME NEW v \in StoreUsers, Doing(v, "read")
      PROVE  Doing(v, "read")' /\ Read(user[v].inode)' = Read(user[v].inode)
  <2>1. v # u /\ user'[v] = user[v] /\ user[v].inode \in Inodes /\ user[v].inode # i
    BY <1>2 DEF Doing, Writing, StorageInv, ReadersWhole
  <2>2. QED
    BY <1>2, <2>1 DEF Doing, Read
<1>3. ASSUME NEW v \in StoreUsers, ~Doing(v, "read") PROVE ~Doing(v, "read")'
  BY <1>3 DEF Doing
<1>4. Visible' = Visible
  BY <1>1 DEF Visible
<1>5. Answered' = Answered
  BY <1>2, <1>3 DEF Answered
<1>6. QED
  BY <1>4, <1>5

\* A write is done when its temporary file is renamed, a read when it opens the
\* file, a deletion when the name goes; every other step is seen by nobody.
LEMMA ReplacePuts ==
  ASSUME StorageInv, NEW u \in StoreUsers, Replace(u)
  PROVE  \E k \in StoreKeys, d \in Documents : Atomic!Put(k, d)
<1> DEFINE k == user[u].key
           i == user[u].inode
           d == user[u].doc
<1>1. /\ Doing(u, "replace") /\ file' = [file EXCEPT ![k] = temp[k]]
      /\ user' = [user EXCEPT ![u] = Ready] /\ halves' = halves /\ got' = got
  BY DEF Replace, Finish
<1>2. /\ k \in StoreKeys /\ d \in Documents /\ i \in Inodes /\ temp[k] = i
      /\ halves[i][1] = d /\ halves[i][2] = d
  BY <1>1 DEF StorageInv, WritersAt, WriterAt, Writing, Doing
<1>3. Read(i) = d
  BY <1>2, StoreAssumption DEF Read, StoreAssumption
<1>4. Visible' = [Visible EXCEPT ![k] = d]
  <2>1. \A j \in StoreKeys : Read(file[j])' = IF j = k THEN d ELSE Read(file[j])
    BY <1>1, <1>2, <1>3 DEF Read, StorageInv, Shapes
  <2>2. QED
    BY <2>1 DEF Visible
<1>5. Answered' = Answered
  <2>1. \A v \in StoreUsers : user'[v] = user[v] \/ (user'[v].op # "read" /\ user[v].op # "read")
    BY <1>1 DEF Doing, Ready, StorageInv, Shapes
  <2>2. ASSUME NEW v \in StoreUsers PROVE Seen(v)' = Seen(v)
    BY <1>1, <2>1, SeenAlike
  <2>3. QED
    BY <2>2, AnsweredIsSeen
<1>6. QED
  BY <1>2, <1>4, <1>5 DEF Atomic!Put

\* Opening a file is the moment a document is read.
LEMMA OpenGets ==
  ASSUME StorageInv, NEW u \in StoreUsers, NEW k \in StoreKeys, OpenForRead(u, k)
  PROVE  Atomic!Get(u, k)
<1>1. file' = file /\ halves' = halves /\ Doing(u, "none")
  BY DEF OpenForRead
<1>2. Visible' = Visible
  BY <1>1 DEF Visible, Read
<1>3. \A v \in StoreUsers : v # u => user'[v] = user[v] /\ got'[v] = got[v]
  BY DEF OpenForRead, StorageInv, Shapes
<1>4. Seen(u)' = Read(file[k])
  BY <1>1 DEF OpenForRead, StorageInv, Shapes, Seen, Doing, Read
<1>5. \A v \in StoreUsers : v # u => Seen(v)' = Seen(v)
  BY <1>1, <1>3 DEF Seen, Doing, Read
<1>6. Answered' = [Answered EXCEPT ![u] = Read(file[k])]
  BY <1>4, <1>5, AnsweredIsSeen
<1>7. QED
  BY <1>2, <1>6 DEF Atomic!Get, Visible

\* Reading on from an open file shows nobody anything new.
LEMMA LoadUnseen ==
  ASSUME StorageInv, NEW u \in StoreUsers, Load(u)
  PROVE  Visible' = Visible /\ Answered' = Answered
<1>1. /\ file' = file /\ halves' = halves /\ Doing(u, "read")
      /\ user' = [user EXCEPT ![u] = Ready] /\ got' = [got EXCEPT ![u] = Read(user[u].inode)]
  BY DEF Load, Finish
<1>2. ~Doing(u, "read")' /\ got'[u] = Read(user[u].inode)
  BY <1>1 DEF Doing, Ready, StorageInv, Shapes
<1>3. \A v \in StoreUsers : v # u => user'[v] = user[v] /\ got'[v] = got[v]
  BY <1>1 DEF StorageInv, Shapes
<1>4. QED
  BY <1>1, <1>2, <1>3 DEF Visible, Answered, Doing, Read

\* Unlinking a name is the moment a document is removed.
LEMMA DeleteRemoves ==
  ASSUME StorageInv, NEW u \in StoreUsers, NEW k \in StoreKeys, Delete(u, k)
  PROVE  Atomic!Remove(k)
<1>1. /\ file' = [file EXCEPT ![k] = NoInode]
      /\ halves' = halves /\ user' = user /\ got' = got
  BY DEF Delete
<1>2. \A j \in StoreKeys : Read(file[j])' = IF j = k THEN Absent ELSE Read(file[j])
  BY <1>1 DEF Read, StorageInv, Shapes
<1>3. QED
  BY <1>1, <1>2 DEF Atomic!Remove, Visible, Answered, Doing, Read

\* Every step of the storage is one of the atomic store, or a stutter.
LEMMA StorageStep ==
  ASSUME StorageInv, [StorageNext]_storageVars
  PROVE  [Atomic!StoreNext]_(Atomic!storeVars)
<1> USE DEF Atomic!storeVars
<1>1. ASSUME NEW u \in StoreUsers, NEW k \in StoreKeys, NEW d \in Documents, OpenTemp(u, k, d)
      PROVE  Visible' = Visible /\ Answered' = Answered
  <2>1. PICK i \in Inodes :
          /\ IF temp[k] # NoInode THEN i = temp[k] ELSE i \notin Referenced
          /\ halves' = [halves EXCEPT ![i] = Empty]
          /\ user' = [user EXCEPT ![u] = [op |-> "write", key |-> k, doc |-> d, inode |-> i]]
    BY <1>1 DEF OpenTemp
  <2>2. /\ \A j \in StoreKeys : file[j] # i
        /\ \A v \in StoreUsers : Doing(v, "read") => user[v].inode # i
    BY <2>1 DEF Referenced, StorageInv, TempsApart
  <2>3. /\ \A j \in Inodes : j # i => halves'[j] = halves[j]
        /\ \A v \in StoreUsers : v # u => user'[v] = user[v]
        /\ user'[u].op # "read" /\ user[u].op = "none" /\ file' = file /\ got' = got
    BY <1>1, <2>1 DEF OpenTemp, Doing, StorageInv, Shapes
  <2>4. QED
    BY <2>2, <2>3, TempsUnseen
<1>2. ASSUME NEW u \in StoreUsers, WriteHalf(u)
      PROVE  Visible' = Visible /\ Answered' = Answered
  <2>0. PICK i \in Inodes : i = user[u].inode
    BY <1>2 DEF WriteHalf, Doing, Writing, StorageInv, WritersAt, WriterAt
  <2>1. user[u].op \in Writing /\ user[u].key \in StoreKeys /\ temp[user[u].key] = i
    BY <1>2, <2>0 DEF WriteHalf, Doing, Writing, StorageInv, WritersAt, WriterAt
  <2>2. /\ \A j \in StoreKeys : file[j] # i
        /\ \A v \in StoreUsers : Doing(v, "read") => user[v].inode # i
    BY <2>1, StoreAssumption DEF StoreAssumption, StorageInv, TempsApart
  <2>3. /\ \A j \in Inodes : j # i => halves'[j] = halves[j]
        /\ \A v \in StoreUsers : v # u => user'[v] = user[v]
        /\ user'[u].op # "read" /\ file' = file /\ got' = got
    BY <1>2, <2>0 DEF WriteHalf, Turn, StorageInv, Shapes
  <2>4. QED
    BY <2>1, <2>2, <2>3, TempsUnseen
<1>3. ASSUME NEW u \in StoreUsers, WriteFails(u) \/ Die(u)
      PROVE  Visible' = Visible /\ Answered' = Answered
  <2>1. /\ user[u].op \in Writing /\ user' = [user EXCEPT ![u] = Ready]
        /\ file' = file /\ halves' = halves /\ got' = got
    BY <1>3 DEF WriteFails, Die, Finish, Writing
  <2>2. \A v \in StoreUsers : user'[v] = user[v] \/ (user'[v].op # "read" /\ user[v].op # "read")
    BY <2>1 DEF Doing, Ready, Writing, StorageInv, Shapes
  <2>3. Answered' = Answered
    BY <2>1, <2>2, SeenAlike, AnsweredIsSeen
  <2>4. QED
    BY <2>1, <2>3 DEF Visible, Read
<1>4. CASE UNCHANGED storageVars
  BY <1>4 DEF storageVars, Visible, Answered, Doing, Read
<1>5. CASE StorageNext
  BY <1>1, <1>2, <1>3, <1>5, ReplacePuts, OpenGets, LoadUnseen, DeleteRemoves
     DEF StorageNext, Atomic!StoreNext
<1>6. QED
  BY <1>4, <1>5

\* Comment of write_json, "Atomic write": whoever writes which key, in a behaviour in
\* which the writers of each key take turns, readers of any process see documents
\* written, deleted and read in one step each.
THEOREM StorageImplementsDocuments ==
  StorageSpec /\ []WritersTakeTurns => StorageIsAtomic
<1>1. StorageInit => StorageInv
  BY InitEstablishes, StoreAssumption
<1>2. WritersTakeTurns /\ WritersTakeTurns' /\ StorageInv /\ [StorageNext]_storageVars => StorageInv'
  BY StoragePreserves
<1>3. StorageInit => Atomic!StoreInit
  BY DEF StorageInit, Atomic!StoreInit, Visible, Answered, Read, Doing, Ready
<1>4. StorageInv /\ [StorageNext]_storageVars => [Atomic!StoreNext]_(Atomic!storeVars)
  BY StorageStep
<1>5. QED
  BY <1>1, <1>2, <1>3, <1>4, PTL DEF StorageSpec, StorageIsAtomic, Atomic!StoreSpec

\* What users are doing, and that they write what they may.
WritesOwn ==
  /\ user \in [StoreUsers -> [op : {"none", "read"} \cup Writing, key : StoreKeys \cup {Absent},
                              doc : Documents \cup {Absent}, inode : Inodes \cup {NoInode}]]
  /\ file \in [StoreKeys -> Inodes \cup {NoInode}] /\ temp \in [StoreKeys -> Inodes \cup {NoInode}]
  /\ \A u \in StoreUsers : user[u].op \in Writing => user[u].key \in Writes[u] \cap StoreKeys

\* Keys that have one writer each take no locks: their writers cannot but take turns.
LEMMA SingleWritersTakeTurns ==
  ASSUME \A u, v \in StoreUsers : u # v => Writes[u] \cap Writes[v] = {}
  PROVE  StorageSpec => []WritersTakeTurns
<1>1. StorageInit => WritesOwn
  BY DEF StorageInit, WritesOwn, Ready, Writing
<1>2. WritesOwn /\ [StorageNext]_storageVars => WritesOwn'
  <2> SUFFICES ASSUME WritesOwn, [StorageNext]_storageVars PROVE WritesOwn'
    OBVIOUS
  <2>1. CASE UNCHANGED storageVars
    BY <2>1 DEF storageVars, WritesOwn
  <2>2. ASSUME NEW u \in StoreUsers, NEW k \in StoreKeys, NEW d \in Documents, OpenTemp(u, k, d) PROVE WritesOwn'
    BY <2>2 DEF OpenTemp, WritesOwn, Writing
  <2>3. ASSUME NEW u \in StoreUsers, NEW k \in StoreKeys, OpenForRead(u, k) \/ Delete(u, k) PROVE WritesOwn'
    BY <2>3 DEF OpenForRead, Delete, Doing, WritesOwn, Writing
  <2>4. ASSUME NEW u \in StoreUsers, WriteHalf(u) PROVE WritesOwn'
    BY <2>4 DEF WriteHalf, Turn, Doing, WritesOwn, Writing
  <2>5. ASSUME NEW u \in StoreUsers, Replace(u) \/ WriteFails(u) \/ Load(u) \/ Die(u) PROVE WritesOwn'
    <3>1. user' = [user EXCEPT ![u] = Ready]
      BY <2>5 DEF Replace, WriteFails, Load, Die, Finish
    <3>2. file' \in [StoreKeys -> Inodes \cup {NoInode}] /\ temp' \in [StoreKeys -> Inodes \cup {NoInode}]
      BY <2>5 DEF Replace, WriteFails, Load, Die, Doing, WritesOwn, Writing
    <3>3. QED
      BY <3>1, <3>2 DEF WritesOwn, Ready, Writing
  <2>6. QED
    BY <2>1, <2>2, <2>3, <2>4, <2>5 DEF StorageNext
<1>3. WritesOwn => WritersTakeTurns
  BY DEF WritesOwn, WritersTakeTurns
<1>4. QED
  BY <1>1, <1>2, <1>3, PTL DEF StorageSpec

------------------------------------------------------------------------------
(***************************************************************************)
(* Tenant records written whole: a credential stays sealed for the owner   *)
(* its record names, for any number of threads, tenants and requests.      *)
(***************************************************************************)

Steps == Updates \cup {"mark", "keep", "again", "log", "clean"}
Lines == {"register", "demo_created", "checkout", "deleted", "config", "bind", "demo_expired"}
AllTiers == Tiers \cup {"free"}
AllSubs == Subs \cup {NoOne, DemoSub}

\* What a thread that serves a request knows.
Tasks == [todo : Seq(Steps), tenant : TenantIds, tier : AllTiers, sub : AllSubs,
          copy : Records \cup Seq(Lines), line : Lines, read : BOOLEAN]

Sealed(rec) == rec.secret \in {NoOne, rec.owner}

\* The copy at hand is a sealed record, and for a binding one without an owner,
\* unless it is the log that the thread has read.
CopyAt(w) ==
  IF Head(w.todo) = "log" /\ w.read THEN w.copy \in Seq(Lines)
  ELSE /\ w.copy \in Records /\ Sealed(w.copy)
       /\ Head(w.todo) = "bind" /\ w.read => w.copy.owner = NoOne

TaskAt(w) == w \in Tasks /\ w.todo # <<>> /\ CopyAt(w)

SealedInv ==
  /\ record \in [TenantIds -> Records]
  /\ \A t \in TenantIds : Sealed(record[t])
  /\ events \in [TenantIds -> Seq(Lines)]
  /\ DOMAIN work = Offices
  /\ \A o \in Offices : work[o] = Rest \/ TaskAt(work[o])
------------------------------------------------------------------------------
\* A thread goes on with the rest of its list.
LEMMA Progress ==
  ASSUME NEW w, TaskAt(w), Len(w.todo) # 1, NEW c \in Records, Sealed(c)
  PROVE  TaskAt([w EXCEPT !.todo = Tail(w.todo), !.copy = c, !.read = FALSE])
<1> DEFINE v == [w EXCEPT !.todo = Tail(w.todo), !.copy = c, !.read = FALSE]
<1>1. w \in Tasks /\ w.todo \in Seq(Steps) /\ w.todo # <<>>
  BY DEF TaskAt, Tasks
<1>2. Tail(w.todo) \in Seq(Steps) /\ Tail(w.todo) # <<>>
  <2>1. Len(w.todo) \in Nat /\ Len(w.todo) > 0
    BY <1>1, EmptySeq, LenProperties
  <2>2. Tail(w.todo) \in Seq(Steps) /\ Len(Tail(w.todo)) = Len(w.todo) - 1
    BY <1>1, HeadTailProperties
  <2>3. Len(Tail(w.todo)) # 0
    BY <2>1, <2>2
  <2>4. QED
    BY <2>2, <2>3, EmptySeq
<1>3. v \in Tasks /\ v.todo = Tail(w.todo) /\ v.copy = c /\ v.read = FALSE
  BY <1>1, <1>2 DEF Tasks
<1> HIDE DEF v
<1>4. TaskAt(v)
  BY <1>2, <1>3 DEF TaskAt, CopyAt
<1>5. QED
  BY <1>4 DEF v

\* A thread has read what it needs.
LEMMA HasRead ==
  ASSUME NEW w, TaskAt(w), NEW c, CopyAt([w EXCEPT !.read = TRUE, !.copy = c]),
         c \in Records \cup Seq(Lines)
  PROVE  TaskAt([w EXCEPT !.read = TRUE, !.copy = c])
<1> DEFINE v == [w EXCEPT !.read = TRUE, !.copy = c]
<1>1. w \in Tasks /\ w.todo # <<>>
  BY DEF TaskAt
<1>2. v \in Tasks /\ v.todo = w.todo
  BY <1>1 DEF Tasks
<1>3. QED
  BY <1>1, <1>2 DEF TaskAt

\* Each update leaves a sealed record: a credential is encrypted for the owner of
\* the copy, and an owner is only bound where there was none.
LEMMA UpdatedSealed ==
  ASSUME NEW rec \in Records, Sealed(rec), NEW step \in Updates, NEW tier \in AllTiers,
         NEW sub \in AllSubs, step = "bind" => rec.owner = NoOne
  PROVE  Updated(step, rec, tier, sub) \in Records /\ Sealed(Updated(step, rec, tier, sub))
<1> USE DEF Records, Sealed, AllTiers, AllSubs
<1>1. CASE step = "tier"
  BY <1>1 DEF Updated, WithTier
<1>2. CASE step = "secret"
  BY <1>2 DEF Updated, WithCredential
<1>3. CASE step = "bind"
  BY <1>3 DEF Updated, WithOwner
<1>4. CASE step = "off"
  BY <1>4 DEF Updated, Deactivated
<1>5. CASE step = "demo"
  BY <1>5 DEF Updated, WithDemoFields
<1>6. CASE step = "plain"
  BY <1>6 DEF Updated
<1>7. QED
  BY <1>1, <1>2, <1>3, <1>4, <1>5, <1>6 DEF Updates
------------------------------------------------------------------------------
\* A step of one thread leaves the others as they are.
LEMMA OneThread ==
  ASSUME SealedInv, NEW o \in Offices,
         DOMAIN work' = Offices, \A p \in Offices : p # o => work'[p] = work[p],
         work'[o] = Rest \/ TaskAt(work'[o]),
         record' \in [TenantIds -> Records], \A t \in TenantIds : Sealed(record'[t]),
         events' \in [TenantIds -> Seq(Lines)]
  PROVE  SealedInv'
BY DEF SealedInv

\* A thread that goes on to its next step still knows what it should.
LEMMA Advanced ==
  ASSUME SealedInv, NEW o \in Offices, work[o] # Rest, NEW c \in Records, Sealed(c), Advance(o, c)
  PROVE  /\ DOMAIN work' = Offices
         /\ \A p \in Offices : p # o => work'[p] = work[p]
         /\ work'[o] = Rest \/ TaskAt(work'[o])
<1>1. PICK w : w = work[o]
  OBVIOUS
<1>2. TaskAt(w)
  BY <1>1 DEF SealedInv
<1>3. work' = [work EXCEPT ![o] = IF Len(w.todo) = 1 THEN Rest
                                  ELSE [w EXCEPT !.todo = Tail(w.todo), !.copy = c, !.read = FALSE]]
  <2>1. work' = [work EXCEPT ![o] = IF Len(work[o].todo) = 1 THEN Rest
                                    ELSE [work[o] EXCEPT !.todo = Tail(work[o].todo), !.copy = c, !.read = FALSE]]
    BY Zenon DEF Advance
  <2>2. QED
    BY <1>1, <2>1, Zenon
<1> DEFINE v == [w EXCEPT !.todo = Tail(w.todo), !.copy = c, !.read = FALSE]
<1>4. Len(w.todo) # 1 => TaskAt(v)
  BY <1>2, Progress
<1>5. work' = [work EXCEPT ![o] = IF Len(w.todo) = 1 THEN Rest ELSE v]
  BY <1>3
<1> HIDE DEF v
<1>6. QED
  BY <1>4, <1>5 DEF SealedInv

\* Where records and logs stay, an advance is enough.
LEMMA OnlyAdvances ==
  ASSUME SealedInv, NEW o \in Offices, work[o] # Rest, NEW c \in Records, Sealed(c), Advance(o, c),
         record' = record, events' = events
  PROVE  SealedInv'
BY Advanced, OneThread DEF SealedInv

\* An aborted request changes no record.
LEMMA AbortPreserves ==
  ASSUME SealedInv, NEW o \in Offices, Abort(o), record' = record, events' = events
  PROVE  SealedInv'
<1>1. DOMAIN work' = Offices /\ work'[o] = Rest /\ \A p \in Offices : p # o => work'[p] = work[p]
  BY DEF Abort, SealedInv
<1>2. QED
  BY <1>1, OneThread DEF SealedInv

\* A request starts with nothing at hand.
LEMMA RequestPreserves ==
  ASSUME SealedInv, NEW o \in Offices, NEW line \in Lines, NEW t \in TenantIds, NEW steps \in Seq(Steps),
         steps # <<>>, NEW tier \in AllTiers, NEW sub \in AllSubs, Request(o, line, t, steps, tier, sub)
  PROVE  SealedInv'
<1> DEFINE v == [todo |-> steps, tenant |-> t, tier |-> tier, sub |-> sub,
                 copy |-> NewRecord(tier), line |-> line, read |-> FALSE]
<1>1. NewRecord(tier) \in Records /\ Sealed(NewRecord(tier))
  BY DEF NewRecord, NoRecord, Records, Sealed, AllTiers
<1>2. v \in Tasks /\ v.todo = steps /\ v.copy = NewRecord(tier) /\ v.read = FALSE
  BY <1>1 DEF Tasks
<1>3. work' = [work EXCEPT ![o] = v] /\ record' = record /\ events' = events
  BY DEF Request
<1> HIDE DEF v
<1>4. TaskAt(v)
  BY <1>1, <1>2 DEF TaskAt, CopyAt
<1>5. DOMAIN work' = Offices /\ work'[o] = v /\ \A p \in Offices : p # o => work'[p] = work[p]
  BY <1>3 DEF SealedInv
<1>6. QED
  BY <1>3, <1>4, <1>5, OneThread DEF SealedInv

\* What a thread that is on a step of its list holds.
LEMMA AtStep ==
  ASSUME SealedInv, NEW o \in Offices, work[o] # Rest
  PROVE  /\ TaskAt(work[o]) /\ work[o] \in Tasks /\ work[o].tenant \in TenantIds
         /\ work[o].tier \in AllTiers /\ work[o].sub \in AllSubs /\ work[o].line \in Lines
         /\ ~(Head(work[o].todo) = "log" /\ work[o].read) => work[o].copy \in Records /\ Sealed(work[o].copy)
BY DEF SealedInv, TaskAt, CopyAt, Tasks

\* Marking the partitions changes no record.
LEMMA MarkPreserves ==
  ASSUME SealedInv, NEW o \in Offices, MarkPartitions(o)
  PROVE  SealedInv'
<1>1. PICK c : c = work[o].copy
  OBVIOUS
<1>2. work[o] # Rest /\ Advance(o, c) /\ record' = record /\ events' = events /\ Head(work[o].todo) = "mark"
  BY <1>1 DEF MarkPartitions, OnStep
<1>3. c \in Records /\ Sealed(c)
  BY <1>1, <1>2, AtStep
<1>4. QED
  BY <1>2, <1>3, OnlyAdvances

\* A copy that is saved is sealed for the owner it names.
LEMMA SaveCopyPreserves ==
  ASSUME SealedInv, NEW o \in Offices, SaveCopy(o)
  PROVE  SealedInv'
<1> DEFINE w == work[o]
           rec == IF OnStep(o, "again") THEN [w.copy EXCEPT !.subscription = TRUE] ELSE w.copy
<1>1. PICK c : c = rec
  OBVIOUS
<1>2. /\ w # Rest /\ Head(w.todo) \in {"keep", "again"} /\ Advance(o, c)
      /\ record' = [record EXCEPT ![w.tenant] = c] /\ events' = events
  BY <1>1 DEF SaveCopy, OnStep
<1>3. w.copy \in Records /\ Sealed(w.copy) /\ w.tenant \in TenantIds
  BY <1>2, AtStep
<1>4. c \in Records /\ Sealed(c)
  BY <1>1, <1>3 DEF Records, Sealed
<1>5. record' \in [TenantIds -> Records] /\ \A t \in TenantIds : Sealed(record'[t])
  BY <1>2, <1>3, <1>4 DEF SealedInv
<1>6. QED
  BY <1>2, <1>4, <1>5, Advanced, OneThread DEF SealedInv

\* A copy that is read is as sealed as its record.
LEMMA ReadRecordPreserves ==
  ASSUME SealedInv, NEW o \in Offices, ReadRecord(o)
  PROVE  SealedInv'
<1>1. PICK w : w = work[o]
  OBVIOUS
<1>2. PICK rec : rec = record[w.tenant]
  OBVIOUS
<1>3. w # Rest /\ record' = record /\ events' = events /\ Head(w.todo) \in Updates
  BY <1>1 DEF ReadRecord
<1>4. /\ TaskAt(w) /\ w \in Tasks /\ w.tenant \in TenantIds
      /\ w.copy \in Records /\ Sealed(w.copy) /\ rec \in Records /\ Sealed(rec)
  BY <1>1, <1>2, <1>3, AtStep DEF Updates, SealedInv
<1>5. CASE Advance(o, w.copy)
  BY <1>1, <1>3, <1>4, <1>5, OnlyAdvances
<1>6. CASE Abort(o)
  BY <1>3, <1>6, AbortPreserves
<1>7. CASE /\ work' = [work EXCEPT ![o] = [w EXCEPT !.read = TRUE, !.copy = rec]]
           /\ Head(w.todo) = "bind" => rec.owner = NoOne
  <2> DEFINE v == [w EXCEPT !.read = TRUE, !.copy = rec]
  <2>1. v.todo = w.todo /\ v.copy = rec /\ v.read = TRUE
    BY <1>4 DEF Tasks
  <2>2. CopyAt(v)
    BY <1>3, <1>4, <1>7, <2>1 DEF CopyAt, Updates
  <2>3. TaskAt(v)
    BY <1>4, <2>2, HasRead
  <2> HIDE DEF v
  <2>4. DOMAIN work' = Offices /\ work'[o] = v /\ \A p \in Offices : p # o => work'[p] = work[p]
    BY <1>7 DEF SealedInv, v
  <2>5. QED
    BY <1>3, <2>3, <2>4, OneThread DEF SealedInv
<1>8. QED
  BY <1>1, <1>2, <1>5, <1>6, <1>7 DEF ReadRecord

\* A copy that is changed before it is written stays sealed.
LEMMA WriteRecordPreserves ==
  ASSUME SealedInv, NEW o \in Offices, WriteRecord(o)
  PROVE  SealedInv'
<1>1. PICK w : w = work[o]
  OBVIOUS
<1>2. PICK c : c = Updated(Head(w.todo), w.copy, w.tier, w.sub)
  OBVIOUS
<1>3. /\ w # Rest /\ w.read /\ Head(w.todo) \in Updates /\ Advance(o, c)
      /\ record' = [record EXCEPT ![w.tenant] = c] /\ events' = events
  BY <1>1, <1>2 DEF WriteRecord
<1>4. /\ TaskAt(w) /\ w.tenant \in TenantIds /\ w.tier \in AllTiers /\ w.sub \in AllSubs
      /\ w.copy \in Records /\ Sealed(w.copy)
  BY <1>1, <1>3, AtStep DEF Updates
<1>5. Head(w.todo) = "bind" => w.copy.owner = NoOne
  BY <1>3, <1>4 DEF TaskAt, CopyAt
<1>6. c \in Records /\ Sealed(c)
  BY <1>2, <1>3, <1>4, <1>5, UpdatedSealed
<1>7. record' \in [TenantIds -> Records] /\ \A t \in TenantIds : Sealed(record'[t])
  BY <1>3, <1>4, <1>6 DEF SealedInv
<1>8. QED
  BY <1>1, <1>3, <1>6, <1>7, Advanced, OneThread DEF SealedInv

\* Cleaning a partition changes no record.
LEMMA CleanPreserves ==
  ASSUME SealedInv, NEW o \in Offices, CleanPartition(o)
  PROVE  SealedInv'
<1>1. record' = record /\ events' = events /\ (Abort(o) \/ work' = work)
  BY DEF CleanPartition
<1>2. QED
  BY <1>1, AbortPreserves DEF SealedInv

\* Reading the log touches no record.
LEMMA ReadLogPreserves ==
  ASSUME SealedInv, NEW o \in Offices, ReadLog(o)
  PROVE  SealedInv'
<1>1. PICK w : w = work[o]
  OBVIOUS
<1>2. w # Rest /\ Head(w.todo) = "log" /\ record' = record /\ events' = events
  BY <1>1 DEF ReadLog, OnStep
<1>3. TaskAt(w) /\ w \in Tasks /\ w.tenant \in TenantIds
  BY <1>1, <1>2, AtStep
<1>4. PICK old \in Seq(Lines) : work' = [work EXCEPT ![o] = [w EXCEPT !.read = TRUE, !.copy = old]]
  <2>1. events[w.tenant] \in Seq(Lines) /\ <<>> \in Seq(Lines)
    BY <1>3 DEF SealedInv
  <2>2. QED
    BY <1>1, <2>1 DEF ReadLog
<1> DEFINE v == [w EXCEPT !.read = TRUE, !.copy = old]
<1>5. v.todo = w.todo /\ v.copy = old /\ v.read = TRUE
  BY <1>3 DEF Tasks
<1>6. CopyAt(v)
  BY <1>2, <1>5 DEF CopyAt
<1>7. TaskAt(v)
  BY <1>3, <1>6, HasRead
<1> HIDE DEF v
<1>8. DOMAIN work' = Offices /\ work'[o] = v /\ \A p \in Offices : p # o => work'[p] = work[p]
  BY <1>4 DEF SealedInv, v
<1>9. QED
  BY <1>2, <1>7, <1>8, OneThread DEF SealedInv

\* Writing the log touches no record.
LEMMA WriteLogPreserves ==
  ASSUME SealedInv, NEW o \in Offices, WriteLog(o)
  PROVE  SealedInv'
<1>1. PICK w : w = work[o]
  OBVIOUS
<1>2. /\ w # Rest /\ Head(w.todo) = "log" /\ w.read /\ record' = record /\ Advance(o, NoRecord)
      /\ events' = [events EXCEPT ![w.tenant] = Append(w.copy, w.line)]
  BY <1>1 DEF WriteLog, OnStep
<1>3. w.copy \in Seq(Lines) /\ w.line \in Lines /\ w.tenant \in TenantIds
  BY <1>1, <1>2, AtStep DEF TaskAt, CopyAt
<1>4. Append(w.copy, w.line) \in Seq(Lines)
  BY <1>3
<1>5. events' \in [TenantIds -> Seq(Lines)]
  BY <1>2, <1>3, <1>4 DEF SealedInv
<1>6. NoRecord \in Records /\ Sealed(NoRecord)
  BY DEF NoRecord, Records, Sealed
<1>7. QED
  BY <1>1, <1>2, <1>5, <1>6, Advanced, OneThread DEF SealedInv

\* The lists of steps of the requests.
LEMMA KnownSteps ==
  /\ <<"mark", "keep">> \in Seq(Steps) \ {<<>>}
  /\ <<"tier">> \in Seq(Steps) \ {<<>>}
  /\ <<"tier", "again">> \in Seq(Steps) \ {<<>>}
  /\ <<"bind">> \in Seq(Steps) \ {<<>>}
  /\ <<"secret">> \in Seq(Steps) \ {<<>>}
  /\ <<"plain">> \in Seq(Steps) \ {<<>>}
  /\ <<"log", "off", "clean">> \in Seq(Steps) \ {<<>>}
  /\ <<"mark", "keep", "demo", "log">> \in Seq(Steps) \ {<<>>}
  /\ <<"mark", "keep", "demo", "bind", "secret", "log">> \in Seq(Steps) \ {<<>>}
BY DEF Steps, Updates

\* The names requests use are among those of the records.
LEMMA KnownNames ==
  /\ {"free", "vip"} \subseteq AllTiers /\ Tiers \subseteq AllTiers
  /\ {NoOne, DemoSub} \subseteq AllSubs /\ Subs \subseteq AllSubs
BY DEF AllTiers, Tiers, AllSubs

\* Every request sets its thread to work on such a list.
LEMMA RequestsPreserve ==
  ASSUME SealedInv, NEW o \in Offices, NEW t \in TenantIds,
         \/ RegisterTenant(o, t) \/ SubscriptionDeleted(o, t) \/ ExpireDemo(o, t)
         \/ \E flag \in BOOLEAN : CreateDemo(o, t, flag) \/ UpdateTenantConfig(o, t, flag)
         \/ \E tier \in Tiers : CheckoutCompleted(o, t, tier)
         \/ \E sub \in Subs : FirstBinding(o, t, sub)
  PROVE  SealedInv'
<1>1. PICK line \in Lines, steps \in Seq(Steps) \ {<<>>}, tier \in AllTiers, sub \in AllSubs :
        Request(o, line, t, steps, tier, sub)
  <2> USE KnownSteps, KnownNames DEF Lines
  <2>1. CASE RegisterTenant(o, t)
    BY <2>1 DEF RegisterTenant
  <2>2. CASE SubscriptionDeleted(o, t)
    BY <2>2 DEF SubscriptionDeleted
  <2>3. CASE ExpireDemo(o, t)
    BY <2>3 DEF ExpireDemo
  <2>4. CASE \E flag \in BOOLEAN : CreateDemo(o, t, flag)
    BY <2>4 DEF CreateDemo
  <2>5. CASE \E flag \in BOOLEAN : UpdateTenantConfig(o, t, flag)
    <3>1. PICK flag \in BOOLEAN : UpdateTenantConfig(o, t, flag)
      BY <2>5
    <3>2. CASE flag
      BY <3>1, <3>2 DEF UpdateTenantConfig
    <3>3. CASE ~flag
      BY <3>1, <3>3 DEF UpdateTenantConfig
    <3>4. QED
      BY <3>2, <3>3
  <2>6. CASE \E tier \in Tiers : CheckoutCompleted(o, t, tier)
    BY <2>6 DEF CheckoutCompleted
  <2>7. CASE \E sub \in Subs : FirstBinding(o, t, sub)
    BY <2>7 DEF FirstBinding
  <2>8. QED
    BY <2>1, <2>2, <2>3, <2>4, <2>5, <2>6, <2>7
<1>2. QED
  BY <1>1, RequestPreserves

\* Every step keeps credentials sealed for the owner their record names.
LEMMA SealedPreserved ==
  ASSUME SealedInv, [TenantStoreNext]_tenantStoreVars
  PROVE  SealedInv'
<1>1. CASE UNCHANGED tenantStoreVars
  BY <1>1 DEF tenantStoreVars, SealedInv
<1>2. ASSUME NEW t \in TenantIds, NEW l \in Layers, StoreData(t, l)
      PROVE  SealedInv'
  BY <1>2 DEF StoreData, SealedInv
<1>3. ASSUME NEW o \in Offices, OfficeDies(o)
      PROVE  SealedInv'
  BY <1>3, AbortPreserves DEF OfficeDies
<1>4. QED
  BY <1>1, <1>2, <1>3, RequestsPreserve, MarkPreserves, SaveCopyPreserves, ReadRecordPreserves,
     WriteRecordPreserves, CleanPreserves, ReadLogPreserves, WriteLogPreserves DEF TenantStoreNext

\* bind_owner_sub, "refuses to overwrite a different sub": whatever updates of a
\* tenant's record are lost, no credential is kept under another owner than the one
\* it was encrypted for, for any number of threads, tenants and requests.
THEOREM SealedForOwnerAlways == TenantStoreSpec => []SealedForOwner
<1>1. TenantStoreInit => SealedInv
  <2>1. NoRecord \in Records /\ Sealed(NoRecord) /\ <<>> \in Seq(Lines)
    BY DEF NoRecord, Records, Sealed
  <2>2. QED
    BY <2>1 DEF TenantStoreInit, SealedInv
<1>2. SealedInv /\ [TenantStoreNext]_tenantStoreVars => SealedInv'
  BY SealedPreserved
<1>3. SealedInv => SealedForOwner
  BY DEF SealedInv, SealedForOwner, Sealed
<1>4. QED
  BY <1>1, <1>2, <1>3, PTL DEF TenantStoreSpec

------------------------------------------------------------------------------
(***************************************************************************)
(* The catalog: what a call has returned is in the database, for any       *)
(* callers, statements and connections, across crashes and roll-backs.     *)
(***************************************************************************)

DbFields == {"namespace", "schemas", "tables", "rows", "grants", "lineage"}
Statements == {NoCall} \cup Calls \cup {Bootstrap[n] : n \in 1..5}
Kinds == {"namespace", "schema", "table"}

\* What a caller may count on is there.
Holds(db, x) ==
  CASE x[1] = "namespace" -> db.namespace
    [] x[1] = "schema" -> x[2] \in db.schemas
    [] x[1] = "table" -> x[2] \in db.tables

\* Nothing that was there has gone.
Within(older, newer) == \A x : x[1] \in Kinds /\ Holds(older, x) => Holds(newer, x)

ClerkCounts(u) == \A x \in Created(clerk[u].did) : Holds(View(ConnectionOf[u]), x)

CatalogInv ==
  /\ DOMAIN catalog = DbFields /\ DOMAIN transaction = DbFields
  /\ clerk \in [Clerks -> [calls : Seq(Statements), did : Statements]]
  /\ writing \in Connections \cup {NoConnection}
  /\ writing # NoConnection => Within(catalog, transaction)
  /\ \A u \in Clerks : ClerkCounts(u)
  /\ \A x \in acknowledged : x[1] \in Kinds /\ Holds(catalog, x)

\* No statement takes away what one created, and the one that creates it, does.
LEMMA AppliedGrows ==
  ASSUME NEW db, DOMAIN db = DbFields, NEW call
  PROVE  /\ DOMAIN Applied(db, call) = DbFields
         /\ Within(db, Applied(db, call))
         /\ \A x \in Created(call) : x[1] \in Kinds /\ Holds(Applied(db, call), x)
<1>1. PICK after : after = Applied(db, call)
  OBVIOUS
<1>2. CASE call.what = "namespace"
  <2>1. after = [db EXCEPT !.namespace = TRUE]
    BY <1>1, <1>2 DEF Applied, CreateNamespace
  <2>2. DOMAIN after = DbFields /\ after.namespace = TRUE /\ after.schemas = db.schemas /\ after.tables = db.tables
    BY <2>1 DEF DbFields
  <2>3. Within(db, after)
    BY <2>2 DEF Within, Holds, Kinds
  <2>4. ASSUME NEW x \in Created(call) PROVE x[1] \in Kinds /\ Holds(after, x)
    <3>1. x = <<"namespace", call.schema>>
      BY <1>2 DEF Created
    <3>2. x[1] = "namespace" /\ x[2] = call.schema
      BY <3>1
    <3>3. QED
      BY <2>2, <3>2 DEF Holds, Kinds
  <2>5. QED
    BY <1>1, <2>2, <2>3, <2>4
<1>3. CASE call.what = "schema"
  <2>1. after = [db EXCEPT !.schemas = db.schemas \cup {call.schema}]
    BY <1>1, <1>3 DEF Applied, CreateSchema
  <2>2. /\ DOMAIN after = DbFields /\ after.namespace = db.namespace
        /\ after.schemas = db.schemas \cup {call.schema} /\ after.tables = db.tables
    BY <2>1 DEF DbFields
  <2>3. Within(db, after)
    BY <2>2 DEF Within, Holds, Kinds
  <2>4. ASSUME NEW x \in Created(call) PROVE x[1] \in Kinds /\ Holds(after, x)
    <3>1. x = <<"schema", call.schema>>
      BY <1>3 DEF Created
    <3>2. x[1] = "schema" /\ x[2] = call.schema
      BY <3>1
    <3>3. QED
      BY <2>2, <3>2 DEF Holds, Kinds
  <2>5. QED
    BY <1>1, <2>2, <2>3, <2>4
<1>4. CASE call.what = "table"
  <2>1. after = [db EXCEPT !.tables = db.tables \cup {call.schema}, !.rows[call.schema] = 0]
    BY <1>1, <1>4 DEF Applied, RegisterTable
  <2>2. /\ DOMAIN after = DbFields /\ after.namespace = db.namespace
        /\ after.schemas = db.schemas /\ after.tables = db.tables \cup {call.schema}
    BY <2>1 DEF DbFields
  <2>3. Within(db, after)
    BY <2>2 DEF Within, Holds, Kinds
  <2>4. ASSUME NEW x \in Created(call) PROVE x[1] \in Kinds /\ Holds(after, x)
    <3>1. x = <<"table", call.schema>>
      BY <1>4 DEF Created
    <3>2. x[1] = "table" /\ x[2] = call.schema
      BY <3>1
    <3>3. QED
      BY <2>2, <3>2 DEF Holds, Kinds
  <2>5. QED
    BY <1>1, <2>2, <2>3, <2>4
<1>5. CASE call.what \notin Kinds
  <2>1. /\ DOMAIN after = DbFields /\ after.namespace = db.namespace
        /\ after.schemas = db.schemas /\ after.tables = db.tables
    BY <1>1, <1>5 DEF Applied, UpdateTableStats, GrantAccess, RevokeAccess, RecordLineage, DbFields, Kinds
  <2>2. Created(call) = {}
    BY <1>5 DEF Created, Kinds
  <2>3. QED
    BY <1>1, <2>1, <2>2 DEF Within, Holds, Kinds
<1>6. QED
  BY <1>2, <1>3, <1>4, <1>5 DEF Kinds

\* A step after which every connection sees at least what it saw, in which no thread
\* comes to have done something and none is told of it.
LEMMA NothingGoes ==
  ASSUME CatalogInv,
         \A c \in Connections : Within(View(c), View(c)'),
         \A u \in Clerks : Created(clerk'[u].did) \subseteq Created(clerk[u].did)
  PROVE  \A u \in Clerks : ClerkCounts(u)'
<1> SUFFICES ASSUME NEW u \in Clerks, NEW x \in Created(clerk'[u].did)
             PROVE  Holds(View(ConnectionOf[u])', x)
  BY DEF ClerkCounts, Holds
<1>1. x \in Created(clerk[u].did) /\ x[1] \in Kinds
  BY DEF Created, Kinds
<1>2. Holds(View(ConnectionOf[u]), x)
  BY <1>1 DEF CatalogInv, ClerkCounts
<1>3. Within(View(ConnectionOf[u]), View(ConnectionOf[u])')
  BY DEF Connections
<1>4. QED
  BY <1>1, <1>2, <1>3 DEF Within

\* The database is empty at first.
LEMMA CatalogInvInit == CatalogInit => CatalogInv
<1> SUFFICES ASSUME CatalogInit PROVE CatalogInv
  OBVIOUS
<1>1. DOMAIN catalog = DbFields /\ DOMAIN transaction = DbFields
  BY DEF CatalogInit, EmptyCatalog, DbFields
<1>2. Created(NoCall) = {}
  BY DEF Created, NoCall, Call
<1>3. clerk \in [Clerks -> [calls : Seq(Statements), did : Statements]]
  BY DEF CatalogInit, Statements
<1>4. \A u \in Clerks : ClerkCounts(u)
  BY <1>2 DEF CatalogInit, ClerkCounts
<1>5. QED
  BY <1>1, <1>3, <1>4 DEF CatalogInit, CatalogInv

\* A call that begins has done nothing yet.
LEMMA BeginKeeps ==
  ASSUME CatalogInv, NEW u \in Clerks, NEW calls \in Seq(Statements), Begin(u, calls)
  PROVE  CatalogInv'
<1>1. clerk' = [clerk EXCEPT ![u].calls = calls] /\ UNCHANGED <<catalog, transaction, writing, acknowledged>>
  BY DEF Begin
<1>2. clerk' \in [Clerks -> [calls : Seq(Statements), did : Statements]]
      /\ \A v \in Clerks : clerk'[v].did = clerk[v].did
  BY <1>1 DEF CatalogInv
<1>3. \A v \in Clerks : ClerkCounts(v)'
  BY <1>1, <1>2 DEF CatalogInv, ClerkCounts, View
<1>4. QED
  BY <1>1, <1>2, <1>3 DEF CatalogInv

\* _execute: the writing connection sees what it saw and what was created.
LEMMA ExecuteKeeps ==
  ASSUME CatalogInv, NEW u \in Clerks, Execute(u)
  PROVE  CatalogInv'
<1>1. PICK c : c = ConnectionOf[u]
  OBVIOUS
<1>2. PICK call : call = Head(clerk[u].calls)
  OBVIOUS
<1>3. PICK seen : seen = View(c)
  OBVIOUS
<1>4. /\ c \in Connections /\ c # NoConnection /\ writing \in {c, NoConnection} /\ writing' = c
      /\ UNCHANGED <<catalog, acknowledged>>
  BY <1>1, CatalogAssumption DEF Execute, Connections, CatalogAssumption
<1>5. DOMAIN seen = DbFields /\ Within(catalog, seen)
  <2>1. CASE writing = c
    BY <1>3, <1>4, <2>1 DEF View, CatalogInv
  <2>2. CASE writing # c
    BY <1>3, <2>2 DEF View, CatalogInv, Within
  <2>3. QED
    BY <2>1, <2>2
<1>6. clerk[u].calls \in Seq(Statements) /\ clerk[u].calls # <<>>
  BY DEF CatalogInv, Execute
<1>7. call \in Statements /\ Tail(clerk[u].calls) \in Seq(Statements)
  BY <1>2, <1>6
<1>8. CASE transaction' = Applied(seen, call)
           /\ clerk' = [clerk EXCEPT ![u] = [calls |-> Tail(clerk[u].calls), did |-> call]]
  <2>1. PICK after : after = Applied(seen, call)
    OBVIOUS
  <2>2. /\ DOMAIN after = DbFields /\ Within(seen, after)
        /\ \A x \in Created(call) : x[1] \in Kinds /\ Holds(after, x)
    BY <1>5, <2>1, AppliedGrows
  <2>3. transaction' = after /\ Within(catalog, after)
    BY <1>5, <1>8, <2>1, <2>2 DEF Within
  <2>4. /\ clerk' \in [Clerks -> [calls : Seq(Statements), did : Statements]]
        /\ clerk'[u].did = call /\ \A v \in Clerks : v # u => clerk'[v] = clerk[v]
    BY <1>7, <1>8 DEF CatalogInv
  <2>5. ASSUME NEW d \in Connections PROVE Within(View(d), View(d)')
    BY <1>3, <1>4, <2>2, <2>3, CatalogAssumption DEF View, Within, CatalogAssumption
  <2>6. ASSUME NEW v \in Clerks, NEW x \in Created(clerk'[v].did) PROVE Holds(View(ConnectionOf[v])', x)
    <3>1. CASE v = u
      <4>1. View(ConnectionOf[v])' = after
        BY <1>1, <1>4, <2>3, <3>1 DEF View
      <4>2. QED
        BY <2>2, <2>4, <2>6, <3>1, <4>1
    <3>2. CASE v # u
      <4>1. x \in Created(clerk[v].did) /\ x[1] \in Kinds
        BY <2>4, <2>6, <3>2 DEF Created, Kinds
      <4>2. Holds(View(ConnectionOf[v]), x)
        BY <4>1 DEF CatalogInv, ClerkCounts
      <4>3. Within(View(ConnectionOf[v]), View(ConnectionOf[v])')
        BY <2>5 DEF Connections
      <4>4. QED
        BY <4>1, <4>2, <4>3 DEF Within
    <3>3. QED
      BY <3>1, <3>2
  <2>7. \A v \in Clerks : ClerkCounts(v)'
    BY <2>6 DEF ClerkCounts, Holds
  <2>8. QED
    BY <1>4, <2>2, <2>3, <2>4, <2>7 DEF CatalogInv, Within, Holds
<1>9. CASE transaction' = seen /\ clerk' = [clerk EXCEPT ![u].calls = <<>>]
  <2>1. clerk' \in [Clerks -> [calls : Seq(Statements), did : Statements]]
        /\ \A v \in Clerks : clerk'[v].did = clerk[v].did
    <3>1. PICK none : none = <<>>
      OBVIOUS
    <3>2. none \in Seq(Statements) /\ clerk' = [clerk EXCEPT ![u].calls = none]
      BY <1>9, <3>1
    <3>3. QED
      BY <3>2 DEF CatalogInv
  <2>2. ASSUME NEW d \in Connections PROVE Within(View(d), View(d)')
    BY <1>3, <1>4, <1>9, CatalogAssumption DEF View, Within, CatalogAssumption
  <2>3. \A v \in Clerks : ClerkCounts(v)'
    BY <2>1, <2>2, NothingGoes
  <2>4. QED
    BY <1>4, <1>5, <1>9, <2>1, <2>3 DEF CatalogInv, Within, Holds
<1>10. QED
  BY <1>1, <1>2, <1>3, <1>8, <1>9 DEF Execute

\* _commit: the file becomes what the connection saw.
LEMMA CommitKeeps ==
  ASSUME CatalogInv, NEW u \in Clerks, Commit(u)
  PROVE  CatalogInv'
<1>1. PICK c : c = ConnectionOf[u] /\ c \in Connections
  BY DEF Connections
<1>2. /\ clerk' = [clerk EXCEPT ![u].did = NoCall] /\ transaction' = transaction
      /\ acknowledged' = acknowledged \cup Created(clerk[u].did)
  BY DEF Commit
<1>3. catalog' = View(c) /\ (writing = c => writing' = NoConnection)
      /\ (writing # c => writing' = writing /\ catalog' = catalog)
  BY <1>1 DEF Commit, View
<1>4. DOMAIN catalog' = DbFields /\ Within(catalog, catalog')
  BY <1>1, <1>3, CatalogAssumption DEF View, CatalogInv, Within, CatalogAssumption
<1>5. Created(NoCall) = {}
  BY DEF Created, NoCall, Call
<1>6. /\ clerk' \in [Clerks -> [calls : Seq(Statements), did : Statements]]
      /\ clerk'[u].did = NoCall /\ \A v \in Clerks : v # u => clerk'[v] = clerk[v]
  BY <1>2 DEF CatalogInv, Statements
<1>7. ASSUME NEW d \in Connections PROVE Within(View(d), View(d)')
  BY <1>1, <1>2, <1>3, <1>4, CatalogAssumption DEF View, Within, CatalogAssumption
<1>8. \A v \in Clerks : Created(clerk'[v].did) \subseteq Created(clerk[v].did)
  BY <1>5, <1>6
<1>9. \A v \in Clerks : ClerkCounts(v)'
  BY <1>7, <1>8, NothingGoes
<1>10. ASSUME NEW x \in acknowledged' PROVE x[1] \in Kinds /\ Holds(catalog', x)
  <2>1. CASE x \in acknowledged
    BY <1>4, <2>1 DEF CatalogInv, Within
  <2>2. CASE x \in Created(clerk[u].did)
    BY <1>1, <1>3, <2>2 DEF CatalogInv, ClerkCounts, Created, Kinds
  <2>3. QED
    BY <1>2, <1>10, <2>1, <2>2
<1>11. writing' # NoConnection => Within(catalog, transaction)'
  BY <1>1, <1>2, <1>3 DEF CatalogInv, Within, Holds
<1>12. QED
  BY <1>2, <1>3, <1>4, <1>6, <1>9, <1>10, <1>11 DEF CatalogInv, Holds

\* A call that gives up on the lock leaves the database alone.
LEMMA TimesOutKeeps ==
  ASSUME CatalogInv, NEW u \in Clerks, TimesOut(u)
  PROVE  CatalogInv'
<1>1. PICK none : none = <<>>
  OBVIOUS
<1>2. none \in Seq(Statements) /\ clerk' = [clerk EXCEPT ![u].calls = none]
      /\ UNCHANGED <<catalog, transaction, writing, acknowledged>>
  BY <1>1 DEF TimesOut
<1>3. clerk' \in [Clerks -> [calls : Seq(Statements), did : Statements]]
      /\ \A v \in Clerks : clerk'[v].did = clerk[v].did
  BY <1>2 DEF CatalogInv
<1>4. \A v \in Clerks : ClerkCounts(v)'
  BY <1>2, <1>3 DEF CatalogInv, ClerkCounts, View
<1>5. QED
  BY <1>2, <1>3, <1>4 DEF CatalogInv

\* What the connection had not committed is gone, and nobody was told of it.
LEMMA DisconnectKeeps ==
  ASSUME CatalogInv, NEW c \in Connections, Disconnect(c)
  PROVE  CatalogInv'
<1>1. PICK rest : rest = [calls |-> <<>>, did |-> NoCall]
  OBVIOUS
<1>2. /\ clerk' = [u \in Clerks |-> IF ConnectionOf[u] = c THEN rest ELSE clerk[u]]
      /\ writing' = IF writing = c THEN NoConnection ELSE writing
      /\ UNCHANGED <<catalog, transaction, acknowledged>>
  BY <1>1 DEF Disconnect
<1>3. rest \in [calls : Seq(Statements), did : Statements] /\ rest.did = NoCall /\ Created(NoCall) = {}
  <2>1. <<>> \in Seq(Statements) /\ NoCall \in Statements
    BY DEF Statements
  <2>2. Created(NoCall) = {}
    BY DEF Created, NoCall, Call
  <2>3. QED
    BY <1>1, <2>1, <2>2
<1>4. clerk' \in [Clerks -> [calls : Seq(Statements), did : Statements]]
  BY <1>2, <1>3 DEF CatalogInv
<1>5. ASSUME NEW u \in Clerks, NEW x \in Created(clerk'[u].did) PROVE Holds(View(ConnectionOf[u])', x)
  <2>1. ConnectionOf[u] # c /\ clerk'[u] = clerk[u]
    BY <1>2, <1>3, <1>5
  <2>2. View(ConnectionOf[u])' = View(ConnectionOf[u])
    BY <1>2, <2>1, CatalogAssumption DEF View, Connections, CatalogAssumption
  <2>3. QED
    BY <1>5, <2>1, <2>2 DEF CatalogInv, ClerkCounts
<1>6. \A u \in Clerks : ClerkCounts(u)'
  BY <1>5 DEF ClerkCounts, Holds
<1>7. QED
  BY <1>2, <1>4, <1>6 DEF CatalogInv

\* Every step keeps what was returned in the database.
LEMMA CatalogInvStep == CatalogInv /\ [CatalogNext]_catalogVars => CatalogInv'
<1> SUFFICES ASSUME CatalogInv, [CatalogNext]_catalogVars PROVE CatalogInv'
  OBVIOUS
<1>1. Bootstrap \in Seq(Statements)
  <2>1. \A n \in 1..5 : Bootstrap[n] \in Statements
    BY DEF Statements
  <2>2. Len(Bootstrap) = 5 /\ Bootstrap = [n \in 1..5 |-> Bootstrap[n]]
    BY DEF Bootstrap
  <2>3. QED
    BY <2>1, <2>2
<1>2. ASSUME NEW u \in Clerks, Begin(u, Bootstrap) PROVE CatalogInv'
  BY <1>1, <1>2, BeginKeeps
<1>3. ASSUME NEW u \in Clerks, NEW call \in Calls, Begin(u, <<call>>) PROVE CatalogInv'
  <2>1. <<call>> \in Seq(Statements)
    BY DEF Statements
  <2>2. QED
    BY <1>3, <2>1, BeginKeeps
<1>4. ASSUME NEW u \in Clerks, Execute(u) \/ TimesOut(u) \/ Commit(u) PROVE CatalogInv'
  BY <1>4, ExecuteKeeps, TimesOutKeeps, CommitKeeps
<1>5. ASSUME NEW c \in Connections, Disconnect(c) PROVE CatalogInv'
  BY <1>5, DisconnectKeeps
<1>6. CASE UNCHANGED catalogVars
  BY <1>6 DEF catalogVars, CatalogInv, ClerkCounts, View
<1>7. QED
  BY <1>2, <1>3, <1>4, <1>5, <1>6 DEF CatalogNext

\* Docstrings "Thread-safe execute wrapper", "Thread-safe commit wrapper": although execute
\* and commit are two critical sections and threads finish each other's transactions, what
\* a returned call created is in the file, whoever crashes then.
THEOREM ReturnedIsDurableAlways == CatalogSpec => []ReturnedIsDurable
<1>1. CatalogInv => ReturnedIsDurable
  BY DEF CatalogInv, ReturnedIsDurable, Holds
<1>2. QED
  BY <1>1, CatalogInvInit, CatalogInvStep, PTL DEF CatalogSpec

------------------------------------------------------------------------------
(***************************************************************************)
(* Backups to the drive folder: what a restore may need is never trashed,  *)
(* for any hosts, retention and number of uploads.                         *)
(***************************************************************************)

Archives == [Names -> Int]
Files == [host : Hosts, key : 0..LastKey, archive : Archives]
Runs == [phase : {"idle", "archive", "upload", "list", "trash"}, next : 1..Len(Entries), archive : Archives, key : 0..LastKey,
         attempts : 0..(MaxAttempts - 1), old : SUBSET Nat]
Restores == [file : Nat, next : 0..Len(Entries), target : Archives, code : {-1, 0, 1}]

DriveShapes ==
  /\ live \in [Hosts -> Archives] /\ edits \in Nat
  /\ folder \in Seq(Files) /\ Len(folder) <= MaxUploads
  /\ backup \in [Hosts -> Runs]
  /\ key \in 0..LastKey
  /\ restore \in Restores
  /\ uploaded \in [Hosts -> Archives]

\* Enough files are newer than this one.
IsOld(f) == f \in DOMAIN folder /\ Cardinality({g \in DOMAIN folder : g > f}) >= Retention

\* The folder has, or had, this archive of the host.
Held(h, archive) == \E f \in DOMAIN folder : folder[f].host = h /\ folder[f].archive = archive

\* What a run is about to trash is old for good; its own archive is in the folder
\* before anything is listed.
RunAt(h, b) ==
  /\ \A f \in b.old : IsOld(f)
  /\ b.phase \in {"list", "trash"} => Held(h, b.archive)

\* What a restore owes its archive: the entry, when it is a regular file of it.
GivenBack(target, archive, e) ==
  e \in LinkEntries \/ archive[e] = NotThere \/ target[e] = archive[e]

\* The regular files that the archive has before the next entry have been written.
RestoreAt(r) ==
  /\ r.next # 0 => r.code = -1
  /\ r.next # 0 \/ r.code = 0 => r.file \in DOMAIN folder
  /\ \A i \in 1..(r.next - 1) : GivenBack(r.target, folder[r.file].archive, Entries[i])
  /\ r.code = 0 => \A e \in Names : GivenBack(r.target, folder[r.file].archive, e)

DriveInv ==
  /\ DriveShapes
  /\ \A f \in trashed : IsOld(f)
  /\ \A h \in Hosts : RunAt(h, backup[h]) /\ (uploaded[h] # Nothing => Held(h, uploaded[h]))
  /\ RestoreAt(restore)

\* Files only come to the folder.
Grown ==
  /\ folder' \in Seq(Files) /\ Len(folder') <= MaxUploads
  /\ \A i \in DOMAIN folder : i \in DOMAIN folder' /\ folder'[i] = folder[i]

\* The limits are numbers and the archive has parts.
LEMMA DriveNats ==
  /\ Retention \in Nat \ {0} /\ MaxAttempts \in Nat \ {0} /\ MaxUploads \in Nat \ {0} /\ LastKey \in Nat
  /\ Entries \in Seq(STRING) /\ Len(Entries) \in Nat \ {0}
BY DriveBackupAssumption DEF DriveBackupAssumption

\* Every source is one of the list.
LEMMA EntriesAre == Names = {Entries[i] : i \in 1..Len(Entries)}
BY DriveNats DEF Names, ToSet

\* What there is before the first backup.
LEMMA IdleRun ==
  /\ NoBackup \in Runs /\ Nothing \in Archives /\ NoRestore \in Restores
  /\ 0 \in 0..(MaxAttempts - 1) /\ 0 \in 0..Len(Entries)
  /\ 1 \in 0..Len(Entries) /\ 1 \in 1..Len(Entries)
BY DriveNats DEF NoBackup, Nothing, NotThere, NoRestore, Archives, Runs, Restores

\* What is old stays so, and what is in the folder stays there.
LEMMA GrowthKeeps ==
  ASSUME DriveInv, Grown
  PROVE  /\ \A f : IsOld(f) => IsOld(f)'
         /\ \A h, archive : Held(h, archive) => Held(h, archive)'
         /\ \A r \in Restores : RestoreAt(r) => RestoreAt(r)'
<1>1. /\ folder \in Seq(Files) /\ folder' \in Seq(Files)
      /\ \A i \in DOMAIN folder : i \in DOMAIN folder' /\ folder'[i] = folder[i]
  BY DEF DriveInv, DriveShapes, Grown
<1>2. DOMAIN folder' = 1..Len(folder') /\ Len(folder') \in Nat
  BY <1>1
<1>3. IsFiniteSet(DOMAIN folder')
  BY <1>2, FS_Interval
<1>4. ASSUME NEW f, IsOld(f) PROVE IsOld(f)'
  <2>1. PICK before, after : before = {g \in DOMAIN folder : g > f} /\ after = {g \in DOMAIN folder' : g > f}
    OBVIOUS
  <2>2. IsFiniteSet(after) /\ before \subseteq after
    BY <1>1, <1>3, <2>1, FS_Subset
  <2>3. Cardinality(before) <= Cardinality(after) /\ Cardinality(before) \in Nat /\ Cardinality(after) \in Nat
    BY <2>2, FS_Subset, FS_CardinalityType
  <2>4. Cardinality(before) >= Retention /\ f \in DOMAIN folder
    BY <1>4, <2>1 DEF IsOld
  <2>5. Cardinality(after) >= Retention
    BY <2>3, <2>4, DriveNats
  <2>6. QED
    BY <1>1, <2>1, <2>4, <2>5 DEF IsOld
<1>5. \A h, archive : Held(h, archive) => Held(h, archive)'
  BY <1>1 DEF Held
<1>6. ASSUME NEW r \in Restores, RestoreAt(r) PROVE RestoreAt(r)'
  <2>1. CASE r.next # 0 \/ r.code = 0
    <3>1. r.file \in DOMAIN folder
      BY <1>6, <2>1 DEF RestoreAt
    <3>2. QED
      BY <1>1, <1>6, <3>1 DEF RestoreAt
  <2>2. CASE ~(r.next # 0 \/ r.code = 0)
    <3>1. 1..(r.next - 1) = {}
      BY <2>2
    <3>2. QED
      BY <2>2, <3>1 DEF RestoreAt
  <2>3. QED
    BY <2>1, <2>2
<1>7. QED
  BY <1>4, <1>5, <1>6

\* A step of one run.
LEMMA RunMoves ==
  ASSUME DriveInv, NEW h \in Hosts, NEW b \in Runs, Grown,
         backup' = [backup EXCEPT ![h] = b], UNCHANGED <<live, edits, key>>,
         RunAt(h, b)', \A f \in trashed' : IsOld(f)',
         restore' \in {restore, NoRestore},
         uploaded' \in {uploaded, [uploaded EXCEPT ![h] = b.archive], [uploaded EXCEPT ![h] = backup[h].archive]},
         uploaded' # uploaded => Held(h, uploaded[h])'
  PROVE  DriveInv'
<1>1. uploaded' \in [Hosts -> Archives] /\ \A g \in Hosts : g # h => uploaded'[g] = uploaded[g]
  BY DEF DriveInv, DriveShapes, Runs
<1>2. DriveShapes'
  BY <1>1, IdleRun DEF DriveInv, DriveShapes, Grown
<1>3. ASSUME NEW g \in Hosts
      PROVE  RunAt(g, backup[g])' /\ (uploaded'[g] # Nothing => Held(g, uploaded[g])')
  <2>1. CASE g = h
    <3>1. backup'[g] = b
      BY <2>1 DEF DriveInv, DriveShapes
    <3>2. RunAt(g, backup[g])'
      BY <2>1, <3>1 DEF RunAt
    <3>3. CASE uploaded' = uploaded
      <4>1. uploaded[g] # Nothing => Held(g, uploaded[g])
        BY DEF DriveInv
      <4>2. PICK a : a = uploaded[g]
        OBVIOUS
      <4>3. a # Nothing => Held(g, a)'
        BY <4>1, <4>2, GrowthKeeps
      <4>4. QED
        BY <3>2, <3>3, <4>2, <4>3 DEF Held
    <3>4. CASE uploaded' # uploaded
      BY <2>1, <3>2, <3>4 DEF Held
    <3>5. QED
      BY <3>3, <3>4
  <2>2. CASE g # h
    <3>1. PICK x, a : x = backup[g] /\ a = uploaded[g]
      OBVIOUS
    <3>2. RunAt(g, x) /\ (a # Nothing => Held(g, a))
      BY <3>1 DEF DriveInv
    <3>3. RunAt(g, x)' /\ (a # Nothing => Held(g, a)')
      BY <3>2, GrowthKeeps DEF RunAt
    <3>4. x = backup'[g] /\ a = uploaded'[g]
      BY <1>1, <2>2, <3>1 DEF DriveInv, DriveShapes
    <3>5. QED
      BY <3>3, <3>4 DEF RunAt, Held
  <2>3. QED
    BY <2>1, <2>2
<1>4. RestoreAt(restore)'
  <2>1. PICK r \in Restores : r = restore
    BY DEF DriveInv, DriveShapes
  <2>2. RestoreAt(r)'
    BY <2>1, GrowthKeeps DEF DriveInv
  <2>3. CASE restore' = restore
    BY <2>1, <2>2, <2>3 DEF RestoreAt
  <2>4. CASE restore' = NoRestore
    BY <2>4 DEF RestoreAt, NoRestore
  <2>5. QED
    BY <2>3, <2>4
<1>5. QED
  BY <1>2, <1>3, <1>4 DEF DriveInv

\* Steps that leave the folder and the runs alone.
LEMMA FolderStands ==
  ASSUME DriveInv, UNCHANGED <<folder, trashed, backup, uploaded>>, DriveShapes', RestoreAt(restore)'
  PROVE  DriveInv'
BY DEF DriveInv, RunAt, IsOld, Held

\* Nothing was uploaded at first.
LEMMA DriveInvInit == DriveInit => DriveInv
<1> SUFFICES ASSUME DriveInit PROVE DriveInv
  OBVIOUS
<1>1. DriveShapes
  BY IdleRun, DriveNats DEF DriveInit, DriveShapes, Archives
<1>2. (\A f \in trashed : IsOld(f)) /\ RestoreAt(restore)
  BY DEF DriveInit, RestoreAt, NoRestore
<1>3. \A h \in Hosts : RunAt(h, backup[h]) /\ (uploaded[h] # Nothing => Held(h, uploaded[h]))
  BY DEF DriveInit, RunAt, NoBackup
<1>4. QED
  BY <1>1, <1>2, <1>3 DEF DriveInv

\* A request that failed is asked again, or the run gives up: nothing is known of the
\* files but what was known.
LEMMA AskedAgain ==
  ASSUME DriveInv, NEW h \in Hosts, NEW b \in Runs, b = backup[h], Retried(h, b)
  PROVE  \E c \in Runs : /\ backup' = [backup EXCEPT ![h] = c]
                         /\ c.old \subseteq b.old /\ c.archive \in {b.archive, Nothing}
                         /\ c = NoBackup \/ (c.phase = b.phase /\ c.archive = b.archive /\ c.old = b.old)
<1>1. CASE b.attempts + 1 < MaxAttempts /\ BackupIs(h, [b EXCEPT !.attempts = @ + 1])
  <2>1. PICK n \in 0..(MaxAttempts - 1) : n = b.attempts + 1
    BY <1>1, DriveNats DEF Runs
  <2>2. PICK c : c = [b EXCEPT !.attempts = n]
    OBVIOUS
  <2>3. c \in Runs /\ c.phase = b.phase /\ c.archive = b.archive /\ c.old = b.old
    BY <2>2 DEF Runs
  <2>4. backup' = [backup EXCEPT ![h] = c]
    BY <1>1, <2>1, <2>2 DEF BackupIs
  <2>5. QED
    BY <2>3, <2>4
<1>2. CASE GivesUp(h)
  BY <1>2, IdleRun DEF GivesUp, BackupIs, NoBackup
<1>3. QED
  BY <1>1, <1>2 DEF Retried

\* A backup starts with an empty archive.
LEMMA StartBackupKeeps ==
  ASSUME DriveInv, NEW h \in Hosts, StartBackup(h)
  PROVE  DriveInv'
<1>1. PICK b : b = [NoBackup EXCEPT !.phase = "archive", !.key = key]
  OBVIOUS
<1>2. b \in Runs /\ b.phase = "archive" /\ b.old = {}
  <2>1. key \in 0..LastKey
    BY DEF DriveInv, DriveShapes
  <2>2. NoBackup \in Runs /\ NoBackup.old = {}
    BY IdleRun DEF NoBackup
  <2>3. QED
    BY <1>1, <2>1, <2>2 DEF Runs
<1>3. backup' = [backup EXCEPT ![h] = b] /\ restore' = NoRestore /\ UNCHANGED <<live, edits, folder, trashed, key, uploaded>>
  BY <1>1 DEF StartBackup, BackupIs
<1>4. Grown
  BY <1>3 DEF DriveInv, DriveShapes, Grown
<1>5. RunAt(h, b)'
  BY <1>2 DEF RunAt
<1>6. \A f \in trashed' : IsOld(f)'
  BY <1>3 DEF DriveInv, IsOld
<1>7. QED
  BY <1>2, <1>3, <1>4, <1>5, <1>6, RunMoves

\* Archiving an entry, or failing to, changes nothing of the folder.
LEMMA ArchiveEntryKeeps ==
  ASSUME DriveInv, NEW h \in Hosts, ArchiveEntry(h)
  PROVE  DriveInv'
<1>1. PICK b \in Runs : b = backup[h]
  BY DEF DriveInv, DriveShapes
<1>2. PICK e, a : e = Entries[b.next] /\ a = [b.archive EXCEPT ![e] = live[h][e]]
  OBVIOUS
<1>3. a \in Archives
  <2>1. b.archive \in Archives /\ live[h] \in Archives
    BY DEF DriveInv, DriveShapes, Runs
  <2>2. QED
    BY <1>2, <2>1 DEF Archives
<1>4. PICK ph \in {"upload", "archive"}, n \in 1..Len(Entries) :
        /\ ph = IF b.next = Len(Entries) THEN "upload" ELSE "archive"
        /\ n = IF b.next = Len(Entries) THEN 1 ELSE b.next + 1
  <2>1. b.next \in 1..Len(Entries) /\ Len(Entries) \in Nat
    BY DriveNats DEF Runs
  <2>2. b.next # Len(Entries) => b.next + 1 \in 1..Len(Entries)
    BY <2>1
  <2>3. QED
    BY <2>2, IdleRun
<1>5. PICK c \in Runs : /\ backup' = [backup EXCEPT ![h] = c]
                        /\ c.phase \notin {"list", "trash"} /\ c.old \subseteq b.old
  <2>1. CASE GivesUp(h)
    BY <2>1, IdleRun DEF GivesUp, BackupIs, NoBackup
  <2>2. CASE BackupIs(h, [b EXCEPT !.archive = a, !.phase = ph, !.next = n])
    <3>1. PICK c : c = [b EXCEPT !.archive = a, !.phase = ph, !.next = n]
      OBVIOUS
    <3>2. c \in Runs /\ c.phase = ph /\ c.old = b.old
      BY <1>3, <3>1 DEF Runs
    <3>3. QED
      BY <2>2, <3>1, <3>2 DEF BackupIs
  <2>3. b.next = b.next /\ [b EXCEPT !.archive[e] = live[h][e], !.phase = ph, !.next = n]
                            = [b EXCEPT !.archive = a, !.phase = ph, !.next = n]
    BY <1>2
  <2>4. GivesUp(h) \/ BackupIs(h, [b EXCEPT !.archive[e] = live[h][e], !.phase = ph, !.next = n])
    BY <1>1, <1>2, <1>4 DEF ArchiveEntry
  <2>5. QED
    BY <2>1, <2>2, <2>3, <2>4
<1>6. UNCHANGED <<live, edits, folder, trashed, key, restore, uploaded>>
  BY DEF ArchiveEntry
<1>7. Grown
  BY <1>6 DEF DriveInv, DriveShapes, Grown
<1>8. (\A f \in trashed' : IsOld(f)') /\ RunAt(h, c)'
  BY <1>1, <1>5, <1>6 DEF DriveInv, RunAt, IsOld
<1>9. QED
  BY <1>5, <1>6, <1>7, <1>8, RunMoves

\* The request makes its file, whether the run learns of it or not, or fails.
LEMMA UploadKeeps ==
  ASSUME DriveInv, NEW h \in Hosts, Upload(h)
  PROVE  DriveInv'
<1>1. PICK b \in Runs : b = backup[h]
  BY DEF DriveInv, DriveShapes
<1>2. PICK made : made = [host |-> h, key |-> b.key, archive |-> b.archive]
  OBVIOUS
<1>3. made \in Files /\ made.host = h /\ made.archive = b.archive
  BY <1>2 DEF Files, Runs
<1>4. /\ UNCHANGED <<live, edits, trashed, key, restore, uploaded>> /\ b.phase = "upload"
      /\ \/ /\ Len(folder) < MaxUploads /\ folder' = Append(folder, made)
            /\ BackupIs(h, [b EXCEPT !.phase = "list", !.attempts = 0]) \/ Retried(h, b)
         \/ UNCHANGED folder /\ Retried(h, b)
  BY <1>1, <1>2 DEF Upload, BackupIn
<1>5. folder \in Seq(Files) /\ Len(folder) <= MaxUploads /\ Len(folder) \in Nat
  BY DEF DriveInv, DriveShapes
<1>6. folder' = Append(folder, made) => /\ folder' \in Seq(Files) /\ Len(folder') = Len(folder) + 1
                                        /\ folder'[Len(folder) + 1] = made
                                        /\ \A i \in DOMAIN folder : i \in DOMAIN folder' /\ folder'[i] = folder[i]
  BY <1>3, <1>5
<1>7. Grown
  <2>1. CASE UNCHANGED folder
    BY <1>5, <2>1 DEF Grown
  <2>2. CASE Len(folder) < MaxUploads /\ folder' = Append(folder, made)
    BY <1>5, <1>6, <2>2, DriveNats DEF Grown
  <2>3. QED
    BY <1>4, <2>1, <2>2
<1>8. \A f \in trashed' : IsOld(f)'
  BY <1>4, <1>7, GrowthKeeps DEF DriveInv
<1>9. CASE folder' = Append(folder, made) /\ BackupIs(h, [b EXCEPT !.phase = "list", !.attempts = 0])
  <2>1. PICK c : c = [b EXCEPT !.phase = "list", !.attempts = 0]
    OBVIOUS
  <2>2. c \in Runs /\ c.phase = "list" /\ c.old = b.old /\ c.archive = b.archive
    BY <2>1, IdleRun DEF Runs
  <2>3. backup' = [backup EXCEPT ![h] = c]
    BY <1>9, <2>1 DEF BackupIs
  <2>4. Held(h, c.archive)'
    <3>1. Len(folder) + 1 \in DOMAIN folder'
      BY <1>5, <1>6, <1>9
    <3>2. QED
      BY <1>3, <1>6, <1>9, <2>2, <3>1 DEF Held
  <2>5. \A f \in c.old : IsOld(f)'
    BY <1>1, <1>7, <2>2, GrowthKeeps DEF DriveInv, RunAt
  <2>6. RunAt(h, c)'
    BY <2>4, <2>5 DEF RunAt
  <2>7. QED
    BY <1>4, <1>7, <1>8, <2>2, <2>3, <2>6, RunMoves
<1>10. CASE Retried(h, b)
  <2>1. PICK c \in Runs : /\ backup' = [backup EXCEPT ![h] = c] /\ c.old \subseteq b.old
                          /\ c = NoBackup \/ (c.phase = b.phase /\ c.archive = b.archive /\ c.old = b.old)
    BY <1>1, <1>10, AskedAgain
  <2>2. \A f \in c.old : IsOld(f)'
    BY <1>1, <1>7, <2>1, GrowthKeeps DEF DriveInv, RunAt
  <2>3. c.phase \notin {"list", "trash"}
    BY <1>4, <2>1 DEF NoBackup
  <2>4. RunAt(h, c)'
    BY <2>2, <2>3 DEF RunAt
  <2>5. QED
    BY <1>4, <1>7, <1>8, <2>1, <2>4, RunMoves
<1>11. QED
  BY <1>4, <1>9, <1>10

\* What the list has beyond the retention is old.
LEMMA BeyondIsOld ==
  ASSUME DriveInv
  PROVE  Beyond(DOMAIN folder \ trashed) \subseteq Nat /\ \A f \in Beyond(DOMAIN folder \ trashed) : IsOld(f)
<1>1. DOMAIN folder = 1..Len(folder) /\ Len(folder) \in Nat
  BY DEF DriveInv, DriveShapes
<1>2. IsFiniteSet(DOMAIN folder)
  BY <1>1, FS_Interval
<1>3. ASSUME NEW f \in Beyond(DOMAIN folder \ trashed) PROVE f \in Nat /\ IsOld(f)
  <2>1. PICK some, all : some = {g \in DOMAIN folder \ trashed : g > f} /\ all = {g \in DOMAIN folder : g > f}
    OBVIOUS
  <2>2. f \in DOMAIN folder /\ Cardinality(some) >= Retention
    BY <2>1, <1>3 DEF Beyond
  <2>3. IsFiniteSet(all) /\ some \subseteq all
    BY <1>2, <2>1, FS_Subset
  <2>4. Cardinality(some) <= Cardinality(all) /\ Cardinality(some) \in Nat /\ Cardinality(all) \in Nat
    BY <2>3, FS_Subset, FS_CardinalityType
  <2>5. Cardinality(all) >= Retention
    BY <2>2, <2>4, DriveNats
  <2>6. QED
    BY <1>1, <2>1, <2>2, <2>5 DEF IsOld
<1>4. QED
  BY <1>3

\* What a listing takes for old has enough newer files.
LEMMA ListBackupsKeeps ==
  ASSUME DriveInv, NEW h \in Hosts, ListBackups(h)
  PROVE  DriveInv'
<1>0. PICK b \in Runs : b = backup[h]
  BY DEF DriveInv, DriveShapes
<1>1. PICK beyond : b = backup[h] /\ beyond = Beyond(DOMAIN folder \ trashed)
  BY <1>0
<1>2. /\ b.phase = "list" /\ UNCHANGED <<live, edits, folder, trashed, key, restore, uploaded>>
      /\ BackupIs(h, [b EXCEPT !.phase = "trash", !.attempts = 0, !.old = beyond]) \/ Retried(h, b)
  BY <1>1 DEF ListBackups, BackupIn
<1>3. Grown /\ \A f \in trashed' : IsOld(f)'
  BY <1>2 DEF DriveInv, DriveShapes, Grown, IsOld
<1>4. RunAt(h, b) /\ Held(h, b.archive)
  BY <1>1, <1>2 DEF DriveInv, RunAt
<1>5. CASE BackupIs(h, [b EXCEPT !.phase = "trash", !.attempts = 0, !.old = beyond])
  <2>1. PICK c : c = [b EXCEPT !.phase = "trash", !.attempts = 0, !.old = beyond]
    OBVIOUS
  <2>2. beyond \in SUBSET Nat /\ \A f \in beyond : IsOld(f)
    BY <1>1, BeyondIsOld
  <2>3. c \in Runs /\ c.phase = "trash" /\ c.old = beyond /\ c.archive = b.archive
    BY <2>1, <2>2, IdleRun DEF Runs
  <2>4. backup' = [backup EXCEPT ![h] = c]
    BY <1>5, <2>1 DEF BackupIs
  <2>5. RunAt(h, c)'
    BY <1>3, <1>4, <2>2, <2>3, GrowthKeeps DEF RunAt
  <2>6. QED
    BY <1>2, <1>3, <2>3, <2>4, <2>5, RunMoves
<1>6. CASE Retried(h, b)
  <2>1. PICK c \in Runs : /\ backup' = [backup EXCEPT ![h] = c] /\ c.old \subseteq b.old
                          /\ c = NoBackup \/ (c.phase = b.phase /\ c.archive = b.archive /\ c.old = b.old)
    BY <1>1, <1>6, AskedAgain
  <2>2. RunAt(h, c)'
    BY <1>3, <1>4, <2>1, GrowthKeeps DEF RunAt, NoBackup
  <2>3. QED
    BY <1>2, <1>3, <2>1, <2>2, RunMoves
<1>7. QED
  BY <1>2, <1>5, <1>6

\* What is trashed was old when it was listed, and still is.
LEMMA TrashOldKeeps ==
  ASSUME DriveInv, NEW h \in Hosts, TrashOld(h)
  PROVE  DriveInv'
<1>1. PICK b \in Runs : b = backup[h]
  BY DEF DriveInv, DriveShapes
<1>2. /\ b.phase = "trash" /\ UNCHANGED <<live, edits, folder, key, restore, uploaded>>
      /\ \/ \E f \in b.old :
              /\ trashed' = trashed \cup {f}
              /\ BackupIs(h, [b EXCEPT !.old = b.old \ {f}, !.attempts = 0]) \/ Retried(h, b)
         \/ UNCHANGED trashed /\ Retried(h, b)
  BY <1>1 DEF TrashOld, BackupIn
<1>3. RunAt(h, b) /\ Held(h, b.archive)
  BY <1>1, <1>2 DEF DriveInv, RunAt
<1>4. Grown
  BY <1>2 DEF DriveInv, DriveShapes, Grown
<1>5. \A f \in trashed' : IsOld(f)'
  <2>1. \A f \in trashed' : f \in trashed \/ f \in b.old
    BY <1>2
  <2>2. QED
    BY <1>3, <1>4, <2>1, GrowthKeeps DEF DriveInv, RunAt
<1>6. ASSUME NEW f \in b.old, BackupIs(h, [b EXCEPT !.old = b.old \ {f}, !.attempts = 0])
      PROVE  DriveInv'
  <2>1. PICK rest \in SUBSET Nat : rest = b.old \ {f}
    BY DEF Runs
  <2>2. PICK c : c = [b EXCEPT !.old = rest, !.attempts = 0]
    OBVIOUS
  <2>3. c \in Runs /\ c.phase = "trash" /\ c.old \subseteq b.old /\ c.archive = b.archive
    BY <1>2, <2>1, <2>2, IdleRun DEF Runs
  <2>4. backup' = [backup EXCEPT ![h] = c]
    BY <1>6, <2>1, <2>2 DEF BackupIs
  <2>5. RunAt(h, c)'
    BY <1>3, <1>4, <2>3, GrowthKeeps DEF RunAt
  <2>6. QED
    BY <1>2, <1>4, <1>5, <2>3, <2>4, <2>5, RunMoves
<1>7. CASE Retried(h, b)
  <2>1. PICK c \in Runs : /\ backup' = [backup EXCEPT ![h] = c] /\ c.old \subseteq b.old
                          /\ c = NoBackup \/ (c.phase = b.phase /\ c.archive = b.archive /\ c.old = b.old)
    BY <1>1, <1>7, AskedAgain
  <2>2. RunAt(h, c)'
    BY <1>3, <1>4, <2>1, GrowthKeeps DEF RunAt, NoBackup
  <2>3. QED
    BY <1>2, <1>4, <1>5, <2>1, <2>2, RunMoves
<1>8. QED
  BY <1>2, <1>6, <1>7

\* A run that ends leaves its file where it is.
LEMMA EndBackupKeeps ==
  ASSUME DriveInv, NEW h \in Hosts, EndBackup(h)
  PROVE  DriveInv'
<1>1. PICK b \in Runs, c \in Runs : b = backup[h] /\ c = NoBackup
  BY IdleRun DEF DriveInv, DriveShapes
<1>2. /\ b.phase = "trash" /\ UNCHANGED <<live, edits, folder, trashed, key, restore>>
      /\ backup' = [backup EXCEPT ![h] = c] /\ uploaded' = [uploaded EXCEPT ![h] = b.archive]
  BY <1>1 DEF EndBackup, BackupIn, BackupIs
<1>3. Grown /\ \A f \in trashed' : IsOld(f)'
  BY <1>2 DEF DriveInv, DriveShapes, Grown, IsOld
<1>4. RunAt(h, c)'
  BY <1>1 DEF RunAt, NoBackup
<1>5. Held(h, b.archive)'
  BY <1>1, <1>2, <1>3, GrowthKeeps DEF DriveInv, RunAt
<1>6. Held(h, uploaded[h])'
  <2>1. uploaded'[h] = b.archive
    BY <1>2 DEF DriveInv, DriveShapes
  <2>2. QED
    BY <1>5, <2>1 DEF Held
<1>7. QED
  BY <1>1, <1>2, <1>3, <1>4, <1>6, RunMoves

\* A restore begins, goes on, or breaks off.
LEMMA RestoreKeeps ==
  ASSUME DriveInv, (\E f \in DOMAIN folder : StartRestore(f)) \/ ExtractEntry \/ RestoreBreaks
  PROVE  DriveInv'
<1>1. UNCHANGED <<live, edits, folder, trashed, backup, key, uploaded>>
  BY DEF StartRestore, ExtractEntry, RestoreBreaks
<1>2. PICK r \in Restores : r = restore /\ RestoreAt(r)
  BY DEF DriveInv, DriveShapes
<1>3. folder \in Seq(Files) /\ DOMAIN folder \subseteq Nat
  BY DEF DriveInv, DriveShapes
<1>4. \A i \in 1..Len(Entries) : Entries[i] \in Names
  BY EntriesAre
<1>5. restore' \in Restores /\ RestoreAt(restore)'
  <2>1. CASE \E f \in DOMAIN folder : StartRestore(f)
    <3>1. PICK f \in DOMAIN folder : StartRestore(f)
      BY <2>1
    <3>2. PICK v : v = IF folder[f].key = key THEN [r EXCEPT !.file = f, !.next = 1, !.code = -1]
                       ELSE [r EXCEPT !.file = f, !.code = 1]
      OBVIOUS
    <3>3. restore' = v /\ r.next = 0
      BY <1>2, <3>1, <3>2 DEF StartRestore
    <3>4. /\ v \in Restores /\ v.file = f
          /\ (v.next = 1 /\ v.code = -1) \/ (v.next = 0 /\ v.code = 1)
      BY <1>3, <3>2, <3>3, IdleRun DEF Restores
    <3>5. RestoreAt(v)'
      BY <1>1, <3>4 DEF RestoreAt
    <3>6. QED
      BY <3>3, <3>4, <3>5 DEF RestoreAt
  <2>2. CASE ExtractEntry
    <3>1. PICK e, a, n : e = Entries[r.next] /\ a = folder[r.file].archive /\ n = r.next
      OBVIOUS
    <3>2. PICK last \in BOOLEAN : last = (n = Len(Entries))
      OBVIOUS
    <3>3. PICK x : x = IF e \in LinkEntries \/ a[e] = NotThere THEN r.target[e] ELSE a[e]
      OBVIOUS
    <3>4. PICK v : v = [r EXCEPT !.target = [r.target EXCEPT ![e] = x],
                                 !.next = IF last THEN 0 ELSE n + 1, !.code = IF last THEN 0 ELSE -1]
      OBVIOUS
    <3>5. restore' = v /\ n # 0
      BY <1>2, <2>2, <3>1, <3>2, <3>3, <3>4 DEF ExtractEntry
    <3>6. n \in 1..Len(Entries) /\ n \in Nat /\ r.file \in DOMAIN folder /\ r.target \in Archives /\ a \in Archives
      <4>1. n \in 0..Len(Entries) /\ r.target \in Archives
        BY <3>1 DEF Restores
      <4>2. r.file \in DOMAIN folder
        BY <1>2, <3>1, <3>5 DEF RestoreAt
      <4>3. folder[r.file] \in Files
        BY <1>3, <4>2
      <4>4. QED
        BY <3>1, <3>5, <4>1, <4>2, <4>3, DriveNats DEF Files
    <3>7. e \in Names /\ x \in Int
      <4>1. e \in Names
        BY <1>4, <3>1, <3>6, DriveNats
      <4>2. QED
        BY <3>3, <3>6, <4>1 DEF Archives
    <3>8. /\ v \in Restores /\ v.file = r.file /\ v.target = [r.target EXCEPT ![e] = x]
          /\ v.next = (IF last THEN 0 ELSE n + 1) /\ v.code = (IF last THEN 0 ELSE -1)
      <4>1. PICK m \in 0..Len(Entries), z \in {-1, 0, 1} : m = (IF last THEN 0 ELSE n + 1) /\ z = (IF last THEN 0 ELSE -1)
        <5>1. CASE last
          BY <5>1, IdleRun
        <5>2. CASE ~last
          <6>1. n # Len(Entries)
            BY <3>2, <5>2
          <6>2. n + 1 \in 0..Len(Entries)
            BY <3>6, <6>1, DriveNats
          <6>3. QED
            BY <5>2, <6>2
        <5>3. QED
          BY <5>1, <5>2
      <4>2. PICK t \in Archives : t = [r.target EXCEPT ![e] = x]
        BY <3>6, <3>7 DEF Archives
      <4>3. v = [r EXCEPT !.target = t, !.next = m, !.code = z]
        BY <3>4, <4>1, <4>2
      <4>4. QED
        BY <4>1, <4>2, <4>3 DEF Restores
    <3>9. \A d \in Names : v.target[d] = IF d = e THEN x ELSE r.target[d]
      BY <3>6, <3>8 DEF Archives
    <3>10. \A i \in 1..n : GivenBack(v.target, a, Entries[i])
      <4>1. ASSUME NEW i \in 1..n PROVE GivenBack(v.target, a, Entries[i])
        <5>1. i \in 1..(n - 1) \/ i = n
          BY <3>6
        <5>2. Entries[i] \in Names
          BY <1>4, <3>6, DriveNats
        <5>3. i \in 1..(n - 1) => GivenBack(r.target, a, Entries[i])
          BY <1>2, <3>1 DEF RestoreAt
        <5>4. CASE Entries[i] = e
          BY <3>3, <3>7, <3>9, <5>4 DEF GivenBack
        <5>5. CASE Entries[i] # e
          BY <3>1, <3>9, <5>1, <5>2, <5>3, <5>5 DEF GivenBack
        <5>6. QED
          BY <5>4, <5>5
      <4>2. QED
        BY <4>1
    <3>11. last => \A d \in Names : GivenBack(v.target, a, d)
      BY <3>2, <3>10, EntriesAre
    <3>12. RestoreAt(v)
      <4>1. \A i \in 1..(v.next - 1) : i \in 1..n
        BY <3>6, <3>8
      <4>2. v.next # 0 => v.code = -1
        BY <3>6, <3>8
      <4>3. v.code = 0 => last
        BY <3>8
      <4>4. folder[v.file].archive = a /\ v.file \in DOMAIN folder
        BY <3>1, <3>6, <3>8
      <4>5. \A i \in 1..(v.next - 1) : GivenBack(v.target, a, Entries[i])
        BY <3>10, <4>1
      <4>6. QED
        BY <3>11, <4>2, <4>3, <4>4, <4>5 DEF RestoreAt
    <3>13. QED
      BY <1>1, <3>5, <3>8, <3>12 DEF RestoreAt
  <2>3. CASE RestoreBreaks
    <3>1. PICK v : v = [r EXCEPT !.next = 0, !.code = 1]
      OBVIOUS
    <3>2. restore' = v
      BY <1>2, <2>3, <3>1 DEF RestoreBreaks
    <3>3. v \in Restores /\ v.next = 0 /\ v.code = 1
      BY <3>1, IdleRun DEF Restores
    <3>4. QED
      BY <3>2, <3>3 DEF RestoreAt
  <2>4. QED
    BY <2>1, <2>2, <2>3
<1>6. DriveShapes'
  BY <1>1, <1>5 DEF DriveInv, DriveShapes
<1>7. QED
  BY <1>1, <1>5, <1>6, FolderStands

\* The services write, the operator changes the key.
LEMMA OutsideKeeps ==
  ASSUME DriveInv, (\E h \in Hosts, e \in Names : WriteEntry(h, e)) \/ RotateKey
  PROVE  DriveInv'
<1>1. UNCHANGED <<folder, trashed, backup, restore, uploaded>>
  BY DEF WriteEntry, RotateKey
<1>2. live' \in [Hosts -> Archives] /\ edits' \in Nat /\ key' \in 0..LastKey
  <2>1. live \in [Hosts -> Archives] /\ edits \in Nat /\ key \in 0..LastKey
    BY DEF DriveInv, DriveShapes
  <2>2. CASE \E h \in Hosts, e \in Names : WriteEntry(h, e)
    <3>1. PICK h \in Hosts, e \in Names, version \in {edits + 1, NotThere} :
            live' = [live EXCEPT ![h][e] = version] /\ edits' = edits + 1 /\ key' = key
      BY <2>2 DEF WriteEntry
    <3>2. version \in Int /\ [live[h] EXCEPT ![e] = version] \in Archives
      BY <2>1 DEF Archives, NotThere
    <3>3. QED
      BY <2>1, <3>1, <3>2
  <2>3. CASE RotateKey
    BY <2>1, <2>3, DriveNats DEF RotateKey
  <2>4. QED
    BY <2>2, <2>3
<1>3. DriveShapes' /\ RestoreAt(restore)'
  BY <1>1, <1>2 DEF DriveInv, DriveShapes, RestoreAt
<1>4. QED
  BY <1>1, <1>3, FolderStands

\* The invariant of the backups holds in every reachable state.
LEMMA DriveInvAlways == DriveSpec => []DriveInv
<1>1. DriveInv /\ [DriveNext]_driveVars => DriveInv'
  <2> SUFFICES ASSUME DriveInv, [DriveNext]_driveVars PROVE DriveInv'
    OBVIOUS
  <2>1. CASE DriveNext
    BY <2>1, StartBackupKeeps, ArchiveEntryKeeps, UploadKeeps, ListBackupsKeeps, TrashOldKeeps, EndBackupKeeps,
       RestoreKeeps, OutsideKeeps DEF DriveNext
  <2>2. CASE UNCHANGED driveVars
    <3>1. DriveShapes' /\ RestoreAt(restore)' /\ UNCHANGED <<folder, trashed, backup, uploaded>>
      BY <2>2 DEF driveVars, DriveInv, DriveShapes, RestoreAt
    <3>2. QED
      BY <3>1, FolderStands
  <2>3. QED
    BY <2>1, <2>2
<1>2. QED
  BY <1>1, DriveInvInit, PTL DEF DriveSpec

\* run_backup and run_restore: whatever fails or is done twice, and however runs of
\* any number of hosts overlap, the newest files are never in the trash, a run that
\* ended well left its archive, and a finished restore has every regular file of its
\* archive in the target.
THEOREM BackupsAlwaysSurvive == DriveSpec => []BackupsSurvive
<1>1. DriveInv => BackupsSurvive
  BY DEF DriveInv, BackupsSurvive, IsOld, Held, RestoreAt, GivenBack
<1>2. QED
  BY <1>1, DriveInvAlways, PTL

\* The types of the backups' state.
THEOREM DriveTypeCorrect == DriveSpec => []DriveTypeOK
<1>1. DriveInv => DriveTypeOK
  <2> SUFFICES ASSUME DriveInv PROVE DriveTypeOK
    OBVIOUS
  <2>1. folder \in Seq(Files) /\ Len(folder) <= MaxUploads /\ backup \in [Hosts -> Runs]
    BY DEF DriveInv, DriveShapes
  <2>2. \A i \in DOMAIN folder : folder[i] \in Files
    BY <2>1
  <2>3. \A h \in Hosts : backup[h].attempts < MaxAttempts
    <3>1. \A h \in Hosts : backup[h].attempts \in 0..(MaxAttempts - 1)
      BY <2>1 DEF Runs
    <3>2. \A n \in 0..(MaxAttempts - 1) : n < MaxAttempts
      BY DriveNats
    <3>3. QED
      BY <3>1, <3>2
  <2>4. trashed \subseteq DOMAIN folder
    BY DEF DriveInv, IsOld
  <2>5. QED
    BY <2>1, <2>2, <2>3, <2>4 DEF DriveTypeOK, Files
<1>2. QED
  BY <1>1, DriveInvAlways, PTL

==============================================================================
