--------------------------- MODULE Records_proofs ----------------------------
(***************************************************************************)
(* Proofs about records that requests share - the documents of a tenant,   *)
(* the action ledger, a client's bans - and the types of all records.      *)
(***************************************************************************)
EXTENDS MCRecords, Accounts_proofs, Storage_proofs, FiniteSetTheorems, WellFoundedInduction, TLAPS

------------------------------------------------------------------------------
(***************************************************************************)
(* The document limit of a tenant is passed by the requests in flight at   *)
(* most, for any number of threads, tenants, documents and chunks.         *)
(***************************************************************************)

Rows == [owner : RagTenants \cup {NoTenant}, text : Nat]
Ingestions == [on : BOOLEAN, owner : RagTenants \cup {NoTenant}, doc : DocIds \cup {"none"},
               text : Nat, size : Nat, next : Nat]

RagShapes ==
  /\ ragRows \in [DocIds -> [Indexes -> Rows]]
  /\ ingesting \in [RagThreads -> Ingestions]
  /\ ingests \in Nat

\* The threads that are storing a document of the tenant, and those documents.
StoringFor(t) == {u \in RagThreads : ingesting[u].on /\ ingesting[u].owner = t}
Pending(t) == {ingesting[u].doc : u \in StoringFor(t)}

\* The documents a tenant has or is about to have.
Expected(t) == DocsOf(t) \cup Pending(t)

SlackFor(t) ==
  /\ IsFiniteSet(Expected(t))
  /\ MaxDocuments > 0 => Cardinality(Expected(t)) <= MaxDocuments + Cardinality(RagThreads) - 1

RagInv == RagShapes /\ \A t \in RagTenants : SlackFor(t)
------------------------------------------------------------------------------
\* What becomes less keeps its bound.
LEMMA LessIsWithin ==
  ASSUME NEW t \in RagTenants, SlackFor(t), Expected(t)' \subseteq Expected(t)
  PROVE  SlackFor(t)'
<1>1. PICK E : E = Expected(t)
  OBVIOUS
<1>2. PICK F : F = Expected(t)'
  OBVIOUS
<1>3. IsFiniteSet(F) /\ Cardinality(F) <= Cardinality(E) /\ Cardinality(F) \in Nat /\ Cardinality(E) \in Nat
  BY <1>1, <1>2, FS_Subset, FS_CardinalityType DEF SlackFor
<1>4. Cardinality(RagThreads) \in Nat /\ MaxDocuments \in Nat
  BY RagAssumption, FS_CardinalityType DEF RagAssumption
<1>5. QED
  BY <1>1, <1>2, <1>3, <1>4 DEF SlackFor

\* No more documents are on their way than there are threads.
PendingOf(g, t) == {g[u].doc : u \in {x \in RagThreads : g[x].on /\ g[x].owner = t}}

\* No tenant has more documents on their way than there are threads.
LEMMA PendingFew ==
  ASSUME NEW t, NEW g
  PROVE  /\ IsFiniteSet(PendingOf(g, t)) /\ Cardinality(PendingOf(g, t)) \in Nat
         /\ Cardinality(PendingOf(g, t)) <= Cardinality(RagThreads)
<1> DEFINE S == {x \in RagThreads : g[x].on /\ g[x].owner = t}
           P == {g[u].doc : u \in S}
           f == [u \in S |-> g[u].doc]
<1>1. IsFiniteSet(S) /\ Cardinality(S) <= Cardinality(RagThreads)
  BY RagAssumption, FS_Subset DEF RagAssumption
<1>2. f \in Surjection(S, P)
  BY DEF Surjection
<1> HIDE DEF S, f
<1>3. IsFiniteSet(P) /\ Cardinality(P) <= Cardinality(S)
  BY <1>1, <1>2, FS_Surjection
<1>4. Cardinality(P) \in Nat /\ Cardinality(S) \in Nat /\ Cardinality(RagThreads) \in Nat
  BY <1>1, <1>3, RagAssumption, FS_CardinalityType DEF RagAssumption
<1>5. IsFiniteSet(P) /\ Cardinality(P) \in Nat /\ Cardinality(P) <= Cardinality(RagThreads)
  BY <1>1, <1>3, <1>4
<1>6. P = PendingOf(g, t)
  BY DEF S, PendingOf
<1>7. QED
  BY <1>5, <1>6

\* Nothing is stored or on its way at first.
LEMMA RagInitOK == RagInit => RagInv
<1> SUFFICES ASSUME RagInit PROVE RagInv
  OBVIOUS
<1>1. RagShapes
  BY DEF RagInit, RagShapes, Rows, Ingestions, NoRow, NotIngesting
<1>2. ASSUME NEW t \in RagTenants PROVE Expected(t) = {}
  BY RagAssumption DEF RagAssumption, RagInit, Expected, DocsOf, Pending, StoringFor, NoRow, NotIngesting
<1>3. Cardinality(RagThreads) \in Nat /\ MaxDocuments \in Nat
  BY RagAssumption, FS_CardinalityType DEF RagAssumption
<1>4. QED
  BY <1>1, <1>2, <1>3, FS_EmptySet DEF RagInv, SlackFor

\* The limit is looked at before a thread begins, and with every thread at work the
\* documents on their way are no more than the threads.
LEMMA AdmitPreserves ==
  ASSUME RagInv, NEW u \in RagThreads, NEW t \in RagTenants, NEW d \in DocIds, NEW size \in 0..MaxChunks,
         Admit(u, t, d, size)
  PROVE  RagInv'
<1>1. RagShapes'
  BY RagAssumption DEF RagAssumption, RagInv, RagShapes, Admit, Ingestions
<1>2. /\ ragRows' = ragRows
      /\ \A v \in RagThreads : v # u => ingesting'[v] = ingesting[v]
      /\ ingesting'[u].owner = t
  BY DEF Admit, RagInv, RagShapes
<1>3. ASSUME NEW s \in RagTenants, s # t PROVE SlackFor(s)'
  <2>1. Expected(s)' \subseteq Expected(s)
    BY <1>2, <1>3 DEF Expected, DocsOf, Pending, StoringFor
  <2>2. QED
    BY <2>1, LessIsWithin DEF RagInv
<1>4. SlackFor(t)'
  <2>1. PICK D : D = DocsOf(t)
    OBVIOUS
  <2>2. DocsOf(t)' = D
    BY <1>2, <2>1 DEF DocsOf
  <2>3. PICK g : g = ingesting'
    OBVIOUS
  <2> DEFINE P == PendingOf(g, t)
  <2>4. Pending(t)' = P
    BY <2>3 DEF Pending, StoringFor, PendingOf
  <2>5. IsFiniteSet(P) /\ Cardinality(P) \in Nat /\ Cardinality(P) <= Cardinality(RagThreads)
    BY PendingFew
  <2> HIDE DEF P
  <2>6. IsFiniteSet(D) /\ Cardinality(D) \in Nat
    <3>1. PICK E : E = Expected(t)
      OBVIOUS
    <3>2. IsFiniteSet(E) /\ D \subseteq E
      BY <2>1, <3>1 DEF RagInv, SlackFor, Expected
    <3>3. QED
      BY <3>2, FS_Subset, FS_CardinalityType
  <2>7. MaxDocuments > 0 => Cardinality(D) <= MaxDocuments - 1
    BY <2>1, <2>6, RagAssumption DEF RagAssumption, Admit, WithinQuota, CountDocuments
  <2>8. IsFiniteSet(D \cup P) /\ Cardinality(D \cup P) <= Cardinality(D) + Cardinality(P)
    <3>1. /\ IsFiniteSet(D \cup P)
          /\ Cardinality(D \cup P) = Cardinality(D) + Cardinality(P) - Cardinality(D \cap P)
      BY <2>5, <2>6, FS_Union
    <3>2. Cardinality(D \cap P) \in Nat
      BY <2>6, FS_Subset, FS_CardinalityType
    <3>3. QED
      BY <2>5, <2>6, <3>1, <3>2
  <2>9. Cardinality(D \cup P) \in Nat /\ Cardinality(RagThreads) \in Nat /\ MaxDocuments \in Nat
    BY <2>8, RagAssumption, FS_CardinalityType DEF RagAssumption
  <2>10. Expected(t)' = D \cup P
    BY <2>2, <2>4 DEF Expected
  <2>11. QED
    BY <2>5, <2>6, <2>7, <2>8, <2>9, <2>10 DEF SlackFor
<1>5. QED
  BY <1>1, <1>3, <1>4 DEF RagInv

\* A chunk is of a document that was on its way; rows of another tenant may go.
LEMMA StorePreserves ==
  ASSUME RagInv, NEW u \in RagThreads, StoreChunk(u)
  PROVE  RagInv'
<1>1. PICK w \in Ingestions : w = ingesting[u]
  BY DEF RagInv, RagShapes
<1>2. PICK row \in Rows : row = [owner |-> w.owner, text |-> w.text]
  BY DEF Ingestions, Rows
<1>3. /\ w.on /\ ingests' = ingests
      /\ ragRows' = [ragRows EXCEPT ![w.doc][w.next] = row]
      /\ ingesting' = [ingesting EXCEPT ![u] = IF w.next + 1 = w.size THEN NotIngesting
                                               ELSE [w EXCEPT !.next = w.next + 1]]
  BY <1>1, <1>2 DEF StoreChunk
<1>4. PICK v : v = IF w.next + 1 = w.size THEN NotIngesting ELSE [w EXCEPT !.next = w.next + 1]
  OBVIOUS
<1>5. v \in Ingestions /\ (v.on => v.owner = w.owner /\ v.doc = w.doc)
  BY <1>1, <1>4 DEF Ingestions, NotIngesting
<1>6. ingesting' \in [RagThreads -> Ingestions] /\ ingesting'[u] = v
      /\ \A x \in RagThreads : x # u => ingesting'[x] = ingesting[x]
  BY <1>3, <1>4, <1>5 DEF RagInv, RagShapes
<1>7. /\ ragRows' \in [DocIds -> [Indexes -> Rows]]
      /\ \A d \in DocIds, i \in Indexes :
           ragRows'[d][i] = IF d = w.doc /\ i = w.next THEN row ELSE ragRows[d][i]
  BY <1>3, <1>2 DEF RagInv, RagShapes
<1>8. RagShapes'
  BY <1>3, <1>6, <1>7 DEF RagInv, RagShapes
<1>9. ASSUME NEW t \in RagTenants PROVE Expected(t)' \subseteq Expected(t)
  <2>1. Pending(t)' \subseteq Pending(t)
    BY <1>1, <1>3, <1>5, <1>6 DEF Pending, StoringFor
  <2>2. w.owner = t => w.doc \in Pending(t)
    BY <1>1, <1>3 DEF Pending, StoringFor
  <2>3. DocsOf(t)' \subseteq DocsOf(t) \cup (IF w.owner = t THEN {w.doc} ELSE {})
    BY <1>2, <1>7 DEF DocsOf
  <2>4. QED
    BY <2>1, <2>2, <2>3 DEF Expected
<1>10. QED
  BY <1>8, <1>9, LessIsWithin DEF RagInv

\* An ingestion that breaks, a deletion and a purge only take away.
LEMMA TakingAwayPreserves ==
  ASSUME RagInv,
         \/ \E u \in RagThreads : IngestBreaks(u)
         \/ \E t \in RagTenants : PurgeTenant(t) \/ \E d \in DocIds : DeleteDocument(t, d)
  PROVE  RagInv'
<1>1. ASSUME NEW u \in RagThreads, IngestBreaks(u) PROVE RagInv'
  <2>1. ragRows' = ragRows /\ ingests' = ingests /\ ingesting' = [ingesting EXCEPT ![u] = NotIngesting]
    BY <1>1 DEF IngestBreaks
  <2>2. RagShapes'
    BY <2>1 DEF RagInv, RagShapes, Ingestions, NotIngesting
  <2>3. ASSUME NEW t \in RagTenants PROVE Expected(t)' \subseteq Expected(t)
    BY <2>1 DEF RagInv, RagShapes, Expected, DocsOf, Pending, StoringFor, NotIngesting
  <2>4. QED
    BY <2>2, <2>3, LessIsWithin DEF RagInv
<1>2. ASSUME NEW t \in RagTenants, NEW docs, ragRows' = Without(t, docs), ingesting' = ingesting,
             ingests' = ingests
      PROVE  RagInv'
  <2>1. \A d \in DocIds, i \in Indexes : ragRows'[d][i] \in {NoRow, ragRows[d][i]}
    BY <1>2 DEF Without
  <2>2. RagShapes'
    BY <1>2 DEF RagInv, RagShapes, Rows, NoRow, Without
  <2>3. ASSUME NEW s \in RagTenants PROVE Expected(s)' \subseteq Expected(s)
    BY <1>2, <2>1, RagAssumption DEF RagAssumption, Expected, DocsOf, Pending, StoringFor, NoRow
  <2>4. QED
    BY <2>2, <2>3, LessIsWithin DEF RagInv
<1>3. QED
  BY <1>1, <1>2 DEF PurgeTenant, DeleteDocument

\* Every step keeps the documents within the slack.
LEMMA RagInvStep == RagInv /\ [RagNext]_ragVars => RagInv'
<1> SUFFICES ASSUME RagInv, [RagNext]_ragVars PROVE RagInv'
  OBVIOUS
<1>1. CASE UNCHANGED ragVars
  BY <1>1 DEF ragVars, RagInv, RagShapes, SlackFor, Expected, DocsOf, Pending, StoringFor
<1>2. CASE RagNext
  BY <1>2, AdmitPreserves, StorePreserves, TakingAwayPreserves DEF RagNext
<1>3. QED
  BY <1>1, <1>2

\* ingest, "PermissionError: If document quota exceeded": whatever runs at once, fails
\* or is replaced, a tenant's documents pass the limit by no more than the number of
\* requests that can be in flight, less one.
THEOREM QuotaSlackAlways == RagSpec => []QuotaSlack
<1>1. RagInv => QuotaSlack
  <2> SUFFICES ASSUME RagInv, MaxDocuments > 0, NEW t \in RagTenants
               PROVE  CountDocuments(t) <= MaxDocuments + Cardinality(RagThreads) - 1
    BY DEF QuotaSlack
  <2>1. PICK E : E = Expected(t)
    OBVIOUS
  <2>2. PICK D : D = DocsOf(t)
    OBVIOUS
  <2>3. /\ Cardinality(D) <= Cardinality(E) /\ Cardinality(D) \in Nat /\ Cardinality(E) \in Nat
        /\ Cardinality(E) <= MaxDocuments + Cardinality(RagThreads) - 1
    BY <2>1, <2>2, FS_Subset, FS_CardinalityType DEF RagInv, SlackFor, Expected
  <2>4. Cardinality(RagThreads) \in Nat /\ MaxDocuments \in Nat
    BY RagAssumption, FS_CardinalityType DEF RagAssumption
  <2>5. QED
    BY <2>2, <2>3, <2>4 DEF CountDocuments
<1>2. QED
  BY <1>1, RagInitOK, RagInvStep, PTL DEF RagSpec

------------------------------------------------------------------------------
(***************************************************************************)
(* Every process keeps one chain of entries, for any processes, threads,   *)
(* days and entries.                                                       *)
(***************************************************************************)

LogLines == [hash : Nat, prev : Nat]
ChainLinks == [line : LogLines, written : BOOLEAN, turn : BOOLEAN]

LedgerShapes ==
  /\ logFile \in [LogDays -> Seq(LogLines)]
  /\ logDay \in LogDays /\ logged \in Nat
  /\ head \in [Processes -> Nat]
  /\ entryCount \in [Processes -> Nat]
  /\ DOMAIN entry = Loggers
  /\ chain \in [Processes -> Seq(ChainLinks)]

\* What the next link of a chain has to name.
HeadOf(links) ==
  IF links = <<>> \/ links[Len(links)].turn THEN 0 ELSE links[Len(links)].line.hash

Linked(links) ==
  /\ \A n \in DOMAIN links : links[n].line.prev =
       IF n = 1 \/ links[n - 1].turn THEN 0 ELSE links[n - 1].line.hash
  /\ \A n \in DOMAIN links : links[n].line.hash <= logged
  /\ \A n \in 2..Len(links) : links[n - 1].line.hash < links[n].line.hash

\* The lines are in the files in the order in which they were hashed.
FilesInOrder ==
  /\ \A d \in LogDays : \A i \in DOMAIN logFile[d] : d <= logDay /\ logFile[d][i].hash <= logged
  /\ \A d, e \in LogDays : \A i \in DOMAIN logFile[d], j \in DOMAIN logFile[e] :
       logFile[d][i].hash < logFile[e][j].hash => d < e \/ (d = e /\ i < j)

LedgerInv ==
  /\ LedgerShapes
  /\ FilesInOrder
  /\ \A p \in Processes : head[p] = HeadOf(chain[p]) /\ Linked(chain[p])

\* The ledger is empty at first.
LEMMA LedgerInvInit == LedgerInit => LedgerInv
BY LedgerAssumption DEF LedgerAssumption, LedgerInit, LedgerInv, LedgerShapes, FilesInOrder, HeadOf, Linked, LogDays

\* Under the lock the line takes the next number, and names the head.
LEMMA ChainGrows ==
  ASSUME LedgerInv, NEW links \in Seq(ChainLinks), Linked(links), NEW link \in ChainLinks,
         link.line.hash = logged + 1, link.line.prev = HeadOf(links), logged' = logged + 1
  PROVE  Linked(Append(links, link))' /\ Append(links, link) \in Seq(ChainLinks)
         /\ HeadOf(Append(links, link)) = IF link.turn THEN 0 ELSE logged + 1
<1> DEFINE more == Append(links, link)
<1>1. /\ more \in Seq(ChainLinks) /\ Len(more) = Len(links) + 1 /\ more[Len(links) + 1] = link
      /\ \A n \in 1..Len(links) : more[n] = links[n] /\ links[n] \in ChainLinks
      /\ more # <<>> /\ Len(links) \in Nat
  OBVIOUS
<1>2. HeadOf(more) = IF link.turn THEN 0 ELSE logged + 1
  BY <1>1 DEF HeadOf
<1>3. ASSUME NEW n \in DOMAIN more
      PROVE  more[n].line.prev = IF n = 1 \/ more[n - 1].turn THEN 0 ELSE more[n - 1].line.hash
  <2>1. CASE n = Len(links) + 1
    <3>1. CASE links = <<>>
      BY <1>1, <2>1, <3>1 DEF HeadOf
    <3>2. CASE links # <<>>
      <4>1. n # 1 /\ n - 1 = Len(links) /\ n - 1 \in 1..Len(links)
        BY <2>1, <3>2
      <4>2. more[n - 1] = links[Len(links)]
        BY <1>1, <4>1
      <4>3. QED
        BY <1>1, <2>1, <3>2, <4>1, <4>2 DEF HeadOf
    <3>3. QED
      BY <3>1, <3>2
  <2>2. CASE n \in 1..Len(links)
    <3>1. n # 1 => n - 1 \in 1..Len(links)
      BY <2>2
    <3>2. QED
      BY <1>1, <2>2, <3>1 DEF Linked
  <2>3. QED
    BY <1>1, <2>1, <2>2
<1>4. \A n \in 1..Len(links) : links[n].line.hash \in Nat /\ links[n].line.hash <= logged
  BY <1>1 DEF Linked, ChainLinks, LogLines
<1>5. \A n \in DOMAIN more : more[n].line.hash <= logged + 1
  BY <1>1, <1>4 DEF LedgerInv, LedgerShapes
<1>6. ASSUME NEW n \in 2..Len(more) PROVE more[n - 1].line.hash < more[n].line.hash
  BY <1>1, <1>4, <1>6 DEF Linked, LedgerInv, LedgerShapes
<1>7. QED
  BY <1>1, <1>2, <1>3, <1>5, <1>6 DEF Linked

\* An entry that was appended is the next link of its process's chain.
LEMMA AppendKeeps ==
  ASSUME LedgerInv, NEW g \in Loggers, AppendEntry(g)
  PROVE  LedgerInv'
<1>1. PICK p : p = ProcessOf[g]
  OBVIOUS
<1>2. PICK line : line = [hash |-> logged + 1, prev |-> head[p]]
  OBVIOUS
<1>3. PICK turn \in BOOLEAN : turn = ((entryCount[p] + 1) % SegmentSize = 0)
  OBVIOUS
<1>4. PICK written \in BOOLEAN :
        /\ logFile' = IF written THEN [logFile EXCEPT ![logDay] = Append(@, line)] ELSE logFile
        /\ chain' = [chain EXCEPT ![p] = Append(@, [line |-> line, written |-> written, turn |-> turn])]
  BY <1>1, <1>2, <1>3 DEF AppendEntry, AppendAfter
<1>5. /\ logged' = logged + 1 /\ UNCHANGED logDay
      /\ entryCount' = [entryCount EXCEPT ![p] = entryCount[p] + 1]
      /\ head' = [head EXCEPT ![p] = IF turn THEN 0 ELSE logged + 1]
      /\ entry' = [entry EXCEPT ![g] = NoEntry]
  BY <1>1, <1>3 DEF AppendEntry, AppendAfter
<1>6. PICK link : link = [line |-> line, written |-> written, turn |-> turn]
  OBVIOUS
<1>7. /\ p \in Processes /\ line \in LogLines /\ line.hash = logged + 1 /\ line.prev = head[p]
      /\ link \in ChainLinks /\ link.line = line /\ link.turn = turn
  BY <1>1, <1>2, <1>6 DEF Processes, LogLines, ChainLinks, LedgerInv, LedgerShapes
<1>8. PICK links : links = chain[p]
  OBVIOUS
<1>9. links \in Seq(ChainLinks) /\ Linked(links) /\ link.line.prev = HeadOf(links)
  BY <1>7, <1>8 DEF LedgerInv, LedgerShapes
<1>10. PICK more : more = Append(links, link)
  OBVIOUS
<1>11. Linked(more)' /\ more \in Seq(ChainLinks) /\ HeadOf(more) = IF turn THEN 0 ELSE logged + 1
  BY <1>5, <1>7, <1>9, <1>10, ChainGrows
<1>12. /\ chain' \in [Processes -> Seq(ChainLinks)] /\ chain'[p] = more
       /\ \A q \in Processes : q # p => chain'[q] = chain[q]
  BY <1>4, <1>6, <1>7, <1>8, <1>10, <1>11 DEF LedgerInv, LedgerShapes
<1>13. /\ head' \in [Processes -> Nat] /\ head'[p] = HeadOf(more)
       /\ \A q \in Processes : q # p => head'[q] = head[q]
  BY <1>5, <1>7, <1>11 DEF LedgerInv, LedgerShapes
<1>14. ASSUME NEW q \in Processes PROVE head'[q] = HeadOf(chain'[q]) /\ Linked(chain[q])'
  <2>1. CASE q = p
    BY <1>11, <1>12, <1>13, <2>1 DEF Linked
  <2>2. CASE q # p
    <3>1. /\ chain'[q] = chain[q] /\ head'[q] = head[q] /\ chain[q] \in Seq(ChainLinks)
          /\ head[q] = HeadOf(chain[q]) /\ Linked(chain[q]) /\ logged \in Nat
      BY <1>12, <1>13, <2>2 DEF LedgerInv, LedgerShapes
    <3>2. PICK same : same = chain[q]
      OBVIOUS
    <3>3. \A n \in DOMAIN same : same[n].line.hash \in Nat /\ same[n].line.hash <= logged
      <4>1. same \in Seq(ChainLinks) /\ Linked(same)
        BY <3>1, <3>2
      <4>2. \A n \in DOMAIN same : same[n] \in ChainLinks
        BY <4>1
      <4>3. QED
        BY <4>1, <4>2 DEF Linked, ChainLinks, LogLines
    <3>4. \A n \in DOMAIN same : same[n].line.hash <= logged'
      BY <1>5, <3>1, <3>3
    <3>5. Linked(same)'
      BY <3>1, <3>2, <3>4 DEF Linked
    <3>6. QED
      BY <3>1, <3>2, <3>5 DEF Linked
  <2>3. QED
    BY <2>1, <2>2
<1>15. logFile' \in [LogDays -> Seq(LogLines)] /\ FilesInOrder'
  <2>1. CASE written
    <3>1. /\ logFile[logDay] \in Seq(LogLines) /\ logDay \in LogDays /\ logFile' = [logFile EXCEPT ![logDay] = Append(@, line)]
      BY <1>4, <2>1 DEF LedgerInv, LedgerShapes
    <3>2. /\ logFile' \in [LogDays -> Seq(LogLines)]
          /\ Len(logFile'[logDay]) = Len(logFile[logDay]) + 1
          /\ logFile'[logDay][Len(logFile[logDay]) + 1] = line
          /\ \A i \in DOMAIN logFile[logDay] : logFile'[logDay][i] = logFile[logDay][i]
          /\ \A d \in LogDays : d # logDay => logFile'[d] = logFile[d]
      BY <1>7, <3>1 DEF LedgerInv, LedgerShapes
    <3>3. \A d \in LogDays : \A i \in DOMAIN logFile'[d] :
            \/ d = logDay /\ i = Len(logFile[d]) + 1 /\ logFile'[d][i] = line
            \/ i \in DOMAIN logFile[d] /\ logFile'[d][i] = logFile[d][i]
      BY <3>1, <3>2 DEF LedgerInv, LedgerShapes
    <3>4. \A d \in LogDays : \A i \in DOMAIN logFile[d] :
            d <= logDay /\ logFile[d][i].hash \in Nat /\ logFile[d][i].hash <= logged /\ i <= Len(logFile[d])
      <4>1. \A d \in LogDays : logFile[d] \in Seq(LogLines)
        BY DEF LedgerInv, LedgerShapes
      <4>2. \A d \in LogDays : \A i \in DOMAIN logFile[d] : logFile[d][i] \in LogLines /\ i <= Len(logFile[d])
        BY <4>1
      <4>3. QED
        BY <4>2 DEF LedgerInv, FilesInOrder, LogLines
    <3>5. ASSUME NEW d \in LogDays, NEW i \in DOMAIN logFile'[d]
          PROVE  d <= logDay' /\ logFile'[d][i].hash <= logged'
      <4>1. logged \in Nat /\ logged' = logged + 1 /\ logDay' = logDay /\ d \in Nat /\ line.hash = logged + 1
        BY <1>5, <1>7 DEF LogDays, LedgerInv, LedgerShapes
      <4>2. CASE d = logDay /\ logFile'[d][i] = line
        BY <4>1, <4>2
      <4>3. CASE i \in DOMAIN logFile[d] /\ logFile'[d][i] = logFile[d][i]
        BY <3>4, <4>1, <4>3
      <4>4. QED
        BY <3>3, <4>2, <4>3
    <3>6. ASSUME NEW d \in LogDays, NEW e \in LogDays, NEW i \in DOMAIN logFile'[d], NEW j \in DOMAIN logFile'[e],
                 logFile'[d][i].hash < logFile'[e][j].hash
          PROVE  d < e \/ (d = e /\ i < j)
      <4>1. CASE e = logDay /\ j = Len(logFile[e]) + 1 /\ logFile'[e][j] = line
        <5>1. i \in DOMAIN logFile[d] /\ logFile'[d][i] = logFile[d][i]
          BY <1>7, <3>3, <3>6, <4>1 DEF LedgerInv, LedgerShapes
        <5>2. d <= e /\ i \in 1..Len(logFile[d]) /\ Len(logFile[d]) \in Nat
          BY <3>4, <4>1, <5>1 DEF LedgerInv, LedgerShapes
        <5>3. QED
          BY <4>1, <5>2 DEF LogDays
      <4>2. CASE j \in DOMAIN logFile[e] /\ logFile'[e][j] = logFile[e][j]
        <5>1. i \in DOMAIN logFile[d] /\ logFile'[d][i] = logFile[d][i]
          BY <1>7, <3>3, <3>4, <3>6, <4>2 DEF LedgerInv, LedgerShapes
        <5>2. QED
          BY <3>6, <4>2, <5>1 DEF LedgerInv, FilesInOrder
      <4>3. QED
        BY <3>3, <4>1, <4>2
    <3>7. QED
      BY <3>2, <3>5, <3>6 DEF FilesInOrder
  <2>2. CASE ~written
    <3>1. /\ logFile' = logFile /\ logDay' = logDay /\ logged' = logged + 1 /\ logged \in Nat
          /\ logFile \in [LogDays -> Seq(LogLines)]
      BY <1>4, <1>5, <2>2 DEF LedgerInv, LedgerShapes
    <3>2. \A d \in LogDays : \A i \in DOMAIN logFile[d] : logFile[d][i] \in LogLines
      BY <3>1
    <3>3. \A d \in LogDays : \A i \in DOMAIN logFile[d] :
            d <= logDay /\ logFile[d][i].hash \in Nat /\ logFile[d][i].hash <= logged
      BY <3>2 DEF LedgerInv, FilesInOrder, LogLines
    <3>4. QED
      BY <3>1, <3>3 DEF LedgerInv, FilesInOrder
  <2>3. QED
    BY <2>1, <2>2
<1>16. LedgerShapes'
  BY <1>5, <1>7, <1>12, <1>13, <1>15 DEF LedgerInv, LedgerShapes
<1>17. QED
  BY <1>14, <1>15, <1>16 DEF LedgerInv

\* Every step keeps the chains linked.
LEMMA LedgerInvStep == LedgerInv /\ [LedgerNext]_ledgerVars => LedgerInv'
<1> SUFFICES ASSUME LedgerInv, [LedgerNext]_ledgerVars PROVE LedgerInv'
  OBVIOUS
<1>1. ASSUME NEW g \in Loggers, Prepare(g) PROVE LedgerInv'
  <2>1. PICK line : entry' = [entry EXCEPT ![g] = line]
    BY <1>1 DEF Prepare
  <2>2. UNCHANGED <<logFile, logDay, head, entryCount, logged, chain>>
    BY <1>1 DEF Prepare
  <2>3. DOMAIN entry' = Loggers
    BY <2>1 DEF LedgerInv, LedgerShapes
  <2>4. LedgerShapes' /\ FilesInOrder'
    BY <2>2, <2>3 DEF LedgerInv, LedgerShapes, FilesInOrder
  <2>5. ASSUME NEW p \in Processes PROVE head'[p] = HeadOf(chain'[p]) /\ Linked(chain[p])'
    BY <2>2 DEF LedgerInv, Linked
  <2>6. QED
    BY <2>4, <2>5 DEF LedgerInv
<1>2. ASSUME NEW g \in Loggers, AppendEntry(g) PROVE LedgerInv'
  BY <1>2, AppendKeeps
<1>3. ASSUME NEW p \in Processes, RestartProcess(p) PROVE LedgerInv'
  <2>1. /\ head' = [head EXCEPT ![p] = 0] /\ entryCount' = [entryCount EXCEPT ![p] = 0]
        /\ chain' = [chain EXCEPT ![p] = <<>>] /\ DOMAIN entry' = Loggers
        /\ UNCHANGED <<logFile, logDay, logged>>
    BY <1>3 DEF RestartProcess
  <2>2. LedgerShapes' /\ FilesInOrder'
    BY <2>1 DEF LedgerInv, LedgerShapes, FilesInOrder
  <2>3. chain'[p] = <<>> /\ head'[p] = 0
        /\ \A q \in Processes : q # p => chain'[q] = chain[q] /\ head'[q] = head[q]
    BY <2>1 DEF LedgerInv, LedgerShapes
  <2>4. ASSUME NEW q \in Processes PROVE head'[q] = HeadOf(chain'[q]) /\ Linked(chain[q])'
    <3>1. CASE q = p
      BY <2>3, <3>1 DEF HeadOf, Linked
    <3>2. CASE q # p
      BY <2>1, <2>3, <3>2 DEF LedgerInv, Linked
    <3>3. QED
      BY <3>1, <3>2
  <2>5. QED
    BY <2>2, <2>4 DEF LedgerInv
<1>4. CASE NewLogDay
  <2>1. /\ logDay' = logDay + 1 /\ logDay < LastDay
        /\ UNCHANGED <<logFile, head, entryCount, entry, logged, chain>>
    BY <1>4 DEF NewLogDay
  <2>2. logDay \in LogDays /\ logDay' \in LogDays /\ \A d \in LogDays : d <= logDay => d <= logDay'
    BY <2>1, LedgerAssumption DEF LedgerInv, LedgerShapes, LogDays, LedgerAssumption
  <2>3. LedgerShapes'
    BY <2>1, <2>2 DEF LedgerInv, LedgerShapes
  <2>4. ASSUME NEW d \in LogDays, NEW i \in DOMAIN logFile[d]
        PROVE  d <= logDay' /\ logFile[d][i].hash <= logged
    BY <2>2 DEF LedgerInv, FilesInOrder
  <2>5. FilesInOrder'
    BY <2>1, <2>4 DEF LedgerInv, FilesInOrder
  <2>6. ASSUME NEW p \in Processes PROVE head'[p] = HeadOf(chain'[p]) /\ Linked(chain[p])'
    BY <2>1 DEF LedgerInv, Linked
  <2>7. QED
    BY <2>3, <2>5, <2>6 DEF LedgerInv
<1>5. CASE UNCHANGED ledgerVars
  BY <1>5 DEF ledgerVars, LedgerInv, LedgerShapes, FilesInOrder, Linked
<1>6. QED
  BY <1>1, <1>2, <1>3, <1>4, <1>5 DEF LedgerNext

\* log: whatever the threads of a process and other processes append in between, the
\* entries of a process form one chain, in the order of its lines in the files, cut only
\* where a segment ends; an entry that was not written leaves its hash as the trace.
THEOREM OneChainEachAlways == LedgerSpec => []OneChainEach
<1>1. LedgerInv => OneChainEach
  <2> SUFFICES ASSUME LedgerInv, NEW p \in Processes
               PROVE  /\ \A n \in DOMAIN chain[p] : chain[p][n].line.prev =
                           IF n = 1 \/ chain[p][n - 1].turn THEN 0 ELSE chain[p][n - 1].line.hash
                      /\ \A n \in 2..Len(chain[p]) : \A d, e \in LogDays :
                           \A i \in DOMAIN logFile[d], j \in DOMAIN logFile[e] :
                             logFile[d][i] = chain[p][n - 1].line /\ logFile[e][j] = chain[p][n].line
                               => d < e \/ (d = e /\ i < j)
    BY DEF OneChainEach
  <2>1. QED
    BY DEF LedgerInv, Linked, FilesInOrder
<1>2. QED
  BY <1>1, LedgerInvInit, LedgerInvStep, PTL DEF LedgerSpec

------------------------------------------------------------------------------
(***************************************************************************)
(* brain/security/ban.py: who has earned a ban serves it to its end, for   *)
(* any stages, failures and clock.                                         *)
(***************************************************************************)

BanShapes ==
  /\ banClock \in 0..BanClockMax
  /\ banStage \in 0..LastStage
  /\ bannedUntil \in Int /\ sentence \in Int
  /\ isPermanent \in BOOLEAN /\ permanent \in BOOLEAN
  /\ IsFiniteSet(failed)
  /\ \A f \in failed : f[1] \in Int /\ f[1] <= banClock /\ f[2] \in Nat /\ f[2] < Cardinality(failed)

\* Some failure put the client on its stage.
StageIsEarned == banStage > 0 => \E g \in failed : StageDue(banStage, g, failed)

\* The ban of a stage due for the first time is in the record, whatever came later.
BansNoted ==
  \A s \in Stages, f \in failed : FirstDue(s, f, failed) =>
    isPermanent \/ (f[1] + BanTime[s] <= bannedUntil /\ ~(PermanentLast /\ s = LastStage))

\* The sentence is over, or its end is in the record, or it is for good.
SentenceIsNoted ==
  permanent \/ isPermanent \/ sentence <= bannedUntil \/ sentence <= banClock

BanInv == BanShapes /\ StageIsEarned /\ BansNoted /\ SentenceIsNoted

\* The loop of _evaluate_escalation ends with the highest stage reached.
LEMMA HighestStage ==
  ASSUME NEW reached \in SUBSET Stages, reached # {}
  PROVE  /\ (CHOOSE s \in reached : \A s2 \in reached : s2 <= s) \in reached
         /\ \A s2 \in reached : s2 <= (CHOOSE s \in reached : \A s3 \in reached : s3 <= s)
<1> DEFINE below == {LastStage - s : s \in reached}
<1>1. LastStage \in Nat /\ \A s \in reached : s \in Nat /\ LastStage - s \in Nat
  BY BanAssumption DEF BanAssumption, Stages
<1>2. below \subseteq Nat /\ below # {}
  BY <1>1
<1>3. PICK low \in below : \A x \in below : ~(<<x, low>> \in OpToRel(<, Nat))
  BY <1>2, WFMin, NatLessThanWellFounded
<1>4. PICK s \in reached : low = LastStage - s
  BY <1>3
<1>5. ASSUME NEW s2 \in reached PROVE s2 <= s
  <2>1. LastStage - s2 \in below
    OBVIOUS
  <2>2. ~(LastStage - s2 < LastStage - s)
    BY <1>1, <1>3, <1>4, <2>1 DEF OpToRel
  <2>3. QED
    BY <1>1, <2>2
<1>6. QED
  BY <1>5

\* A new failure changes nothing about the stages the earlier ones made due, and
\* makes due those whose threshold the recent failures meet.
LEMMA NewFailure ==
  ASSUME BanShapes, NEW new, new = <<banClock, Cardinality(failed)>>,
         NEW times, times = failed \cup {new}
  PROVE  /\ new[1] = banClock /\ new[2] = Cardinality(failed) /\ Cardinality(failed) \in Nat
         /\ IsFiniteSet(times) /\ Cardinality(times) = Cardinality(failed) + 1
         /\ \A f \in failed : f[2] < new[2] /\ f # new
         /\ \A s : \A f \in failed : StageDue(s, f, times) <=> StageDue(s, f, failed)
         /\ \A s : StageDue(s, new, times) <=> Cardinality(RecentFailures(s, times)) >= Threshold[s]
<1>1. IsFiniteSet(failed) /\ \A f \in failed : f[1] \in Int /\ f[2] \in Nat /\ f[2] < Cardinality(failed)
  BY DEF BanShapes
<1>2. Cardinality(failed) \in Nat
  BY <1>1, FS_CardinalityType
<1>3. new[1] = banClock /\ new[2] = Cardinality(failed)
  OBVIOUS
<1>4. \A f \in failed : f[2] < new[2] /\ f # new
  BY <1>1, <1>2, <1>3
<1>5. new \notin failed
  BY <1>4
<1>6. IsFiniteSet(times) /\ Cardinality(times) = Cardinality(failed) + 1
  BY <1>1, <1>5, FS_AddElement
<1>7. ASSUME NEW s, NEW f \in failed PROVE StageDue(s, f, times) <=> StageDue(s, f, failed)
  <2>1. ~(new[2] <= f[2])
    BY <1>1, <1>2, <1>3
  <2>2. {g \in times : g[2] <= f[2] /\ g[1] > f[1] - FailWindow[s]}
          = {g \in failed : g[2] <= f[2] /\ g[1] > f[1] - FailWindow[s]}
    BY <2>1, Zenon
  <2>3. QED
    BY <2>2 DEF StageDue
<1>8. ASSUME NEW s PROVE StageDue(s, new, times) <=> Cardinality(RecentFailures(s, times)) >= Threshold[s]
  <2>1. \A g \in times : g[2] <= new[2]
    BY <1>1, <1>2, <1>3
  <2>2. {g \in times : g[2] <= new[2] /\ g[1] > new[1] - FailWindow[s]} = RecentFailures(s, times)
    BY <1>3, <2>1, Zenon DEF RecentFailures
  <2>3. QED
    BY <2>2 DEF StageDue
<1>9. QED
  BY <1>2, <1>3, <1>4, <1>6, <1>7, <1>8

\* Nobody is banned at first.
LEMMA BanInvInit == BanInit => BanInv
<1> SUFFICES ASSUME BanInit PROVE BanInv
  OBVIOUS
<1>1. BanShapes
  <2>1. failed = {} /\ IsFiniteSet(failed)
    BY FS_EmptySet DEF BanInit
  <2>2. isPermanent \in BOOLEAN /\ permanent \in BOOLEAN
    BY DEF BanInit
  <2>3. QED
    BY <2>1, <2>2, BanAssumption DEF BanInit, BanShapes, BanAssumption
<1>2. StageIsEarned /\ BansNoted
  BY DEF BanInit, StageIsEarned, BansNoted
<1>3. QED
  BY <1>1, <1>2 DEF BanInit, BanInv, SentenceIsNoted

\* _evaluate_escalation.
LEMMA AuthFailsKeeps == BanInv /\ AuthFails => BanInv'
<1> SUFFICES ASSUME BanInv, AuthFails PROVE BanInv'
  OBVIOUS
<1> DEFINE times == failed \cup {<<banClock, Cardinality(failed)>>}
           reached == {s \in Stages : Reached(s, times)}
           last == CHOOSE s \in reached : \A s2 \in reached : s2 <= s
           forever == PermanentLast /\ LastStage \in reached
<1>1. ~IsBanned /\ failed' = times /\ UNCHANGED banClock
  BY DEF AuthFails
<1>2. /\ banStage' = IF reached = {} THEN banStage ELSE last
      /\ bannedUntil' = IF reached = {} THEN bannedUntil ELSE IF forever THEN 0 ELSE banClock + BanTime[last]
      /\ sentence' = IF reached = {} THEN sentence ELSE IF forever THEN Forever ELSE banClock + BanTime[last]
  BY DEF AuthFails
<1>3. isPermanent' = (isPermanent \/ forever) /\ permanent' = (permanent \/ forever)
  BY DEF AuthFails
<1>4. \A s \in Stages : s \in reached <=> Reached(s, times)
  OBVIOUS
<1>5. (isPermanent' \/ permanent' <=> isPermanent \/ permanent \/ forever)
      /\ isPermanent' \in BOOLEAN /\ permanent' \in BOOLEAN
  BY <1>3
<1>6. reached # {} => last \in reached /\ last \in Stages /\ \A s \in reached : s <= last
  BY HighestStage
<1> DEFINE new == <<banClock, Cardinality(failed)>>
<1>7. /\ new[1] = banClock /\ new[2] = Cardinality(failed) /\ Cardinality(failed) \in Nat
      /\ IsFiniteSet(times) /\ Cardinality(times) = Cardinality(failed) + 1
      /\ \A f \in failed : f[2] < new[2] /\ f # new
      /\ \A s : \A f \in failed : StageDue(s, f, times) <=> StageDue(s, f, failed)
      /\ \A s : StageDue(s, new, times) <=> Cardinality(RecentFailures(s, times)) >= Threshold[s]
  BY NewFailure DEF BanInv
<1>t. times = failed \cup {new}
  OBVIOUS
<1> HIDE DEF times, reached, last, forever, new
<1>8. reached # {} => BanTime[last] \in Nat
  BY <1>6, BanAssumption DEF BanAssumption
<1>9. BanShapes'
  <2>1. banClock \in Int /\ Forever \in Int
    BY BanAssumption DEF BanInv, BanShapes, BanAssumption, Forever
  <2>2. bannedUntil' \in Int /\ sentence' \in Int
    BY <1>2, <1>8, <2>1 DEF BanInv, BanShapes
  <2>3. banStage' \in 0..LastStage
    BY <1>2, <1>6, BanAssumption DEF BanInv, BanShapes, Stages, BanAssumption
  <2>4. \A f \in times : f[1] \in Int /\ f[1] <= banClock /\ f[2] \in Nat /\ f[2] < Cardinality(times)
    BY <1>7, <1>t, <2>1 DEF BanInv, BanShapes
  <2>5. QED
    BY <1>1, <1>5, <1>7, <2>2, <2>3, <2>4 DEF BanInv, BanShapes
<1>10. StageIsEarned'
  <2>1. CASE reached = {}
    <3>1. banStage' = banStage /\ (banStage > 0 => \E g \in failed : StageDue(banStage, g, failed))
      BY <1>2, <2>1 DEF BanInv, StageIsEarned
    <3>2. banStage > 0 => \E g \in times : StageDue(banStage, g, times)
      BY <1>7, <1>t, <3>1
    <3>3. QED
      BY <1>1, <3>1, <3>2, Zenon DEF StageIsEarned, StageDue
  <2>2. CASE reached # {}
    <3>1. StageDue(last, new, times)
      BY <1>4, <1>6, <1>7, <2>2 DEF Reached
    <3>2. QED
      BY <1>1, <1>2, <1>t, <2>2, <3>1 DEF StageIsEarned, StageDue
  <2>3. QED
    BY <2>1, <2>2
<1>a. ASSUME NEW s \in Stages, FirstDue(s, new, times) PROVE reached # {} /\ s = last
  <2>1. StageDue(s, new, times) /\ s \in Int /\ s <= LastStage /\ LastStage \in Int
    BY <1>a, BanAssumption DEF FirstDue, Stages, BanAssumption
  <2>2. banStage \in Int /\ banStage <= LastStage
    BY BanAssumption DEF BanInv, BanShapes, BanAssumption
  <2>3. s > banStage
    <3> SUFFICES ASSUME banStage >= s PROVE FALSE
      BY <2>1, <2>2
    <3>1. banStage > 0 /\ banStage \in s..LastStage
      BY <2>1, <2>2 DEF Stages
    <3>2. PICK g \in failed : StageDue(banStage, g, failed)
      BY <3>1 DEF BanInv, StageIsEarned
    <3>3. g \in times /\ StageDue(banStage, g, times) /\ g[2] < new[2] /\ g # new
      BY <1>7, <1>t, <3>2
    <3>4. g[2] <= new[2]
      BY <1>7, <3>2, <3>3 DEF BanInv, BanShapes
    <3>5. QED
      BY <1>a, <3>1, <3>3, <3>4, Zenon DEF FirstDue
  <2>4. s \in reached
    BY <1>4, <1>7, <2>1, <2>3 DEF Reached
  <2>5. last \in reached /\ last \in s..LastStage /\ StageDue(last, new, times)
    BY <1>4, <1>6, <1>7, <2>1, <2>4 DEF Reached, Stages
  <2>6. new \in times /\ new[2] <= new[2]
    BY <1>7, <1>t
  <2>7. QED
    BY <1>a, <2>4, <2>5, <2>6 DEF FirstDue
<1>b. BansNoted'
  <2> SUFFICES ASSUME NEW s \in Stages, NEW f \in times, FirstDue(s, f, times)
               PROVE  isPermanent' \/ (f[1] + BanTime[s] <= bannedUntil' /\ ~(PermanentLast /\ s = LastStage))
    BY <1>1 DEF BansNoted, FirstDue, StageDue
  <2>1. CASE f = new
    <3>1. reached # {} /\ s = last /\ last \in reached
      BY <1>a, <1>6, <2>1
    <3>2. CASE forever
      BY <1>3, <3>2
    <3>3. CASE ~forever
      <4>1. bannedUntil' = banClock + BanTime[s] /\ f[1] = banClock
        BY <1>2, <1>7, <2>1, <3>1, <3>3
      <4>2. ~(PermanentLast /\ s = LastStage)
        BY <3>1, <3>3 DEF forever
      <4>3. QED
        BY <1>8, <3>1, <4>1, <4>2 DEF BanInv, BanShapes
    <3>4. QED
      BY <3>2, <3>3
  <2>2. CASE f \in failed
    <3>1. StageDue(s, f, failed)
      BY <1>7, <2>2 DEF FirstDue
    <3>2. \A r \in s..LastStage, g \in failed : g[2] <= f[2] /\ StageDue(r, g, failed) => r = s /\ g = f
      BY <1>7, <1>t DEF FirstDue
    <3>3. FirstDue(s, f, failed)
      BY <3>1, <3>2 DEF FirstDue
    <3>4. isPermanent \/ (f[1] + BanTime[s] <= bannedUntil /\ ~(PermanentLast /\ s = LastStage))
      BY <2>2, <3>3 DEF BanInv, BansNoted
    <3>5. CASE isPermanent
      BY <1>3, <3>5
    <3>6. CASE ~isPermanent
      <4>1. f[1] \in Int /\ BanTime[s] \in Int /\ bannedUntil \in Int /\ banClock \in Int
        BY <2>2, BanAssumption DEF BanInv, BanShapes, BanAssumption
      <4>2. bannedUntil <= banClock
        BY <1>1, <4>1 DEF IsBanned
      <4>3. CASE reached = {}
        BY <1>2, <3>4, <3>6, <4>3
      <4>4. CASE forever
        BY <1>3, <4>4
      <4>5. CASE reached # {} /\ ~forever
        BY <1>2, <1>8, <3>4, <3>6, <4>1, <4>2, <4>5
      <4>6. QED
        BY <4>3, <4>4, <4>5
    <3>7. QED
      BY <3>5, <3>6
  <2>3. QED
    BY <1>t, <2>1, <2>2
<1>11. SentenceIsNoted'
  <2>1. CASE reached = {}
    BY <1>1, <1>2, <1>5, <2>1 DEF BanInv, SentenceIsNoted
  <2>2. CASE forever
    BY <1>5, <2>2 DEF SentenceIsNoted
  <2>3. CASE reached # {} /\ ~forever
    BY <1>2, <1>9, <2>3 DEF SentenceIsNoted, BanShapes
  <2>4. QED
    BY <2>1, <2>2, <2>3
<1>12. QED
  BY <1>9, <1>10, <1>b, <1>11 DEF BanInv

\* Every step keeps a ban noted until it is over.
LEMMA BanInvStep == BanInv /\ [BanNext]_banVars => BanInv'
<1> SUFFICES ASSUME BanInv, [BanNext]_banVars PROVE BanInv'
  OBVIOUS
<1>1. CASE AuthFails
  BY <1>1, AuthFailsKeeps
<1>2. CASE AuthSucceeds \/ Unban \/ RestartBans
  <2>1. failed' = {} /\ banStage' = 0 /\ bannedUntil' = 0 /\ UNCHANGED banClock
    BY <1>2 DEF AuthSucceeds, Unban, RestartBans
  <2>2. StageIsEarned' /\ BansNoted'
    BY <2>1 DEF StageIsEarned, BansNoted
  <2>3. BanShapes'
    <3>1. failed' = {} /\ IsFiniteSet(failed')
      BY <2>1, FS_EmptySet
    <3>2. isPermanent' \in BOOLEAN /\ permanent' \in BOOLEAN
      BY <1>2, BanAssumption DEF AuthSucceeds, Unban, RestartBans, BanInv, BanShapes, BanAssumption
    <3>3. sentence' \in Int
      BY <1>2, BanAssumption DEF AuthSucceeds, Unban, RestartBans, BanInv, BanShapes, BanAssumption, Forever
    <3>4. QED
      BY <2>1, <3>1, <3>2, <3>3, BanAssumption DEF BanInv, BanShapes, BanAssumption
  <2>4. SentenceIsNoted'
    BY <1>2, <2>1 DEF AuthSucceeds, Unban, RestartBans, BanInv, BanShapes, SentenceIsNoted, IsBanned
  <2>5. QED
    BY <2>2, <2>3, <2>4 DEF BanInv
<1>3. CASE BanForGood
  <2>1. permanent' = TRUE /\ sentence' = Forever
        /\ UNCHANGED <<banClock, failed, banStage, bannedUntil, isPermanent>>
    BY <1>3 DEF BanForGood, banRecord
  <2>2. BanShapes' /\ SentenceIsNoted'
    BY <2>1, BanAssumption DEF BanInv, BanShapes, SentenceIsNoted, Forever, BanAssumption
  <2>3. StageIsEarned'
    BY <2>1, Zenon DEF BanInv, StageIsEarned, StageDue
  <2>4. BansNoted'
    <3>1. \A s, f : FirstDue(s, f, failed)' <=> FirstDue(s, f, failed)
      BY <2>1, Zenon DEF FirstDue, StageDue
    <3>2. QED
      BY <2>1, <3>1 DEF BanInv, BansNoted
  <2>5. QED
    BY <2>2, <2>3, <2>4 DEF BanInv
<1>4. CASE BanTick
  <2>1. /\ banClock' = banClock + 1 /\ banClock < BanClockMax
        /\ UNCHANGED <<failed, banStage, bannedUntil, isPermanent, permanent, sentence>>
    BY <1>4 DEF BanTick, banRecord
  <2>2. BanShapes' /\ SentenceIsNoted'
    BY <2>1, BanAssumption DEF BanInv, BanShapes, SentenceIsNoted, BanAssumption
  <2>3. StageIsEarned'
    BY <2>1, Zenon DEF BanInv, StageIsEarned, StageDue
  <2>4. BansNoted'
    <3>1. \A s, f : FirstDue(s, f, failed)' <=> FirstDue(s, f, failed)
      BY <2>1, Zenon DEF FirstDue, StageDue
    <3>2. QED
      BY <2>1, <3>1 DEF BanInv, BansNoted
  <2>5. QED
    BY <2>2, <2>3, <2>4 DEF BanInv
<1>5. CASE UNCHANGED banVars
  BY <1>5 DEF banVars, BanInv, BanShapes, StageIsEarned, BansNoted, FirstDue, StageDue, SentenceIsNoted
<1>6. QED
  BY <1>1, <1>2, <1>3, <1>4, <1>5 DEF BanNext

\* _evaluate_escalation: a ban that was given is served to its end, unless an
\* administrator lifts it; and the failure with which a stage is due for the first
\* time, as the highest, brings the ban of that stage in full.
THEOREM BansAreServedAlways == BanSpec => []BansAreServed
<1>1. BanInv => BansAreServed
  <2> SUFFICES ASSUME BanInv PROVE BansAreServed
    OBVIOUS
  <2>1. banClock < sentence => IsBanned
    BY BanAssumption DEF BanInv, BanShapes, SentenceIsNoted, IsBanned, BanAssumption
  <2>2. ASSUME NEW s \in Stages, NEW f \in failed, FirstDue(s, f, failed)
        PROVE  IsBanned \/ (banClock >= f[1] + BanTime[s] /\ ~(PermanentLast /\ s = LastStage))
    <3>1. isPermanent \/ (f[1] + BanTime[s] <= bannedUntil /\ ~(PermanentLast /\ s = LastStage))
      BY <2>2 DEF BanInv, BansNoted
    <3>2. f[1] \in Int /\ BanTime[s] \in Int /\ bannedUntil \in Int /\ banClock \in Int
      BY BanAssumption DEF BanInv, BanShapes, BanAssumption
    <3>3. QED
      BY <3>1, <3>2 DEF IsBanned
  <2>3. QED
    BY <2>1, <2>2 DEF BansAreServed
<1>2. QED
  BY <1>1, BanInvInit, BanInvStep, PTL DEF BanSpec

------------------------------------------------------------------------------
(***************************************************************************)
(* The types of all records, for any users, keys, accounts, tenants,       *)
(* statements, documents, failures and entries.                            *)
(***************************************************************************)

\* Whoever writes, together or alone, a file holds at most two halves of documents.
LEMMA ShapesStep == Shapes /\ [StorageNext]_storageVars => Shapes'
<1> SUFFICES ASSUME Shapes, [StorageNext]_storageVars PROVE Shapes'
  OBVIOUS
<1>1. CASE UNCHANGED storageVars
  BY <1>1 DEF storageVars, Shapes
<1>2. ASSUME NEW u \in StoreUsers, NEW k \in StoreKeys, OpenForRead(u, k) PROVE Shapes'
  <2>1. CASE file[k] = NoInode
    BY <1>2, <2>1 DEF OpenForRead, Shapes
  <2>2. CASE file[k] # NoInode
    <3>1. PICK r : r = [op |-> "read", key |-> k, doc |-> Absent, inode |-> file[k]]
      OBVIOUS
    <3>2. user' = [user EXCEPT ![u] = r] /\ UNCHANGED <<file, temp, halves, got>>
      BY <1>2, <2>2, <3>1 DEF OpenForRead
    <3>3. r \in [op : {"none", "read"} \cup Writing, key : StoreKeys \cup {Absent},
                 doc : Documents \cup {Absent}, inode : Inodes \cup {NoInode}]
      BY <3>1 DEF Shapes
    <3>4. QED
      BY <3>2, <3>3 DEF Shapes
  <2>3. QED
    BY <2>1, <2>2
<1>3. ASSUME NEW u \in StoreUsers, NEW k \in StoreKeys, Delete(u, k) PROVE Shapes'
  BY <1>3 DEF Delete, Shapes
<1>4. ASSUME NEW u \in StoreUsers, NEW k \in StoreKeys, NEW d \in Documents, OpenTemp(u, k, d) PROVE Shapes'
  <2>1. PICK i \in Inodes :
          /\ temp' = [temp EXCEPT ![k] = i] /\ halves' = [halves EXCEPT ![i] = Empty]
          /\ user' = [user EXCEPT ![u] = [op |-> "write", key |-> k, doc |-> d, inode |-> i]]
    BY <1>4 DEF OpenTemp
  <2>2. file' = file /\ got' = got
    BY <1>4 DEF OpenTemp
  <2>3. QED
    BY <2>1, <2>2 DEF Shapes, Empty, Writing
<1>5. ASSUME NEW u \in StoreUsers, WriteHalf(u) PROVE Shapes'
  <2> DEFINE S == Documents \cup {Absent}
  <2>1. PICK i, d : i = user[u].inode /\ d = user[u].doc
    OBVIOUS
  <2>2. d \in S
    BY <2>1 DEF Shapes
  <2>3. /\ UNCHANGED <<file, temp, got>>
        /\ \/ user' = [user EXCEPT ![u].op = "more"] /\ halves' = [halves EXCEPT ![i][1] = d]
           \/ user' = [user EXCEPT ![u].op = "replace"] /\ halves' = [halves EXCEPT ![i][2] = d]
    BY <1>5, <2>1 DEF WriteHalf, Turn
  <2>4. user' \in [StoreUsers -> [op : {"none", "read"} \cup Writing, key : StoreKeys \cup {Absent},
                                  doc : Documents \cup {Absent}, inode : Inodes \cup {NoInode}]]
    <3> DEFINE R == [op : {"none", "read"} \cup Writing, key : StoreKeys \cup {Absent},
                     doc : Documents \cup {Absent}, inode : Inodes \cup {NoInode}]
    <3>1. PICK r : r = user[u]
      OBVIOUS
    <3>2. r \in R /\ user \in [StoreUsers -> R]
      BY <3>1 DEF Shapes
    <3>3. PICK x, y : x = [r EXCEPT !.op = "more"] /\ y = [r EXCEPT !.op = "replace"]
      OBVIOUS
    <3>4. x \in R /\ y \in R
      BY <3>2, <3>3 DEF Writing
    <3>5. user' = [user EXCEPT ![u] = x] \/ user' = [user EXCEPT ![u] = y]
      <4>1. \/ user' = [user EXCEPT ![u] = [r EXCEPT !.op = "more"]]
            \/ user' = [user EXCEPT ![u] = [r EXCEPT !.op = "replace"]]
        BY <2>3, <3>1, Zenon
      <4>2. QED
        BY <3>3, <4>1
    <3> HIDE DEF R
    <3>6. user' \in [StoreUsers -> R]
      BY <3>2, <3>4, <3>5
    <3>7. QED
      BY <3>6 DEF R
  <2>5. PICK x : x = halves[i]
    OBVIOUS
  <2>6. x \in S \X S => [x EXCEPT ![1] = d] \in S \X S /\ [x EXCEPT ![2] = d] \in S \X S
    BY <2>2, HalfReplaced
  <2>7. \/ halves' = [halves EXCEPT ![i] = [x EXCEPT ![1] = d]]
        \/ halves' = [halves EXCEPT ![i] = [x EXCEPT ![2] = d]]
    BY <2>3, <2>5, Zenon
  <2>8. halves' \in [Inodes -> S \X S]
    <3>1. halves \in [Inodes -> S \X S] /\ (i \in Inodes => x \in S \X S)
      BY <2>5 DEF Shapes
    <3>2. PICK y, z : y = [x EXCEPT ![1] = d] /\ z = [x EXCEPT ![2] = d]
      OBVIOUS
    <3>3. i \in Inodes => y \in S \X S /\ z \in S \X S
      BY <2>6, <3>1, <3>2
    <3>4. halves' = [halves EXCEPT ![i] = y] \/ halves' = [halves EXCEPT ![i] = z]
      BY <2>7, <3>2
    <3> HIDE DEF S
    <3>5. QED
      BY <3>1, <3>3, <3>4
  <2>9. QED
    BY <2>3, <2>4, <2>8 DEF Shapes
<1>6. Ready \in [op : {"none", "read"} \cup Writing, key : StoreKeys \cup {Absent},
                 doc : Documents \cup {Absent}, inode : Inodes \cup {NoInode}]
  BY DEF Ready
<1>7. ASSUME NEW u \in StoreUsers, Replace(u) PROVE Shapes'
  BY <1>6, <1>7 DEF Replace, Finish, Shapes
<1>8. ASSUME NEW u \in StoreUsers, WriteFails(u) \/ Die(u) PROVE Shapes'
  BY <1>6, <1>8 DEF WriteFails, Die, Finish, Shapes
<1>9. ASSUME NEW u \in StoreUsers, Load(u) PROVE Shapes'
  <2>1. PICK r : r = Read(user[u].inode)
    OBVIOUS
  <2>2. r \in Documents \cup {Absent, Torn}
    BY <2>1 DEF Read
  <2>3. QED
    BY <1>6, <1>9, <2>1, <2>2 DEF Load, Finish, Shapes
<1>10. QED
  BY <1>1, <1>2, <1>3, <1>4, <1>5, <1>7, <1>8, <1>9 DEF StorageNext

\* write_json, read_json, delete: the types of the files and of who has them open, with
\* any number of writers of one key.
THEOREM StorageTypeCorrect == StorageSpec => []StorageTypeOK
<1>1. StorageInit => Shapes
  BY DEF StorageInit, Shapes, Ready, Empty
<1>2. Shapes => StorageTypeOK
  BY DEF Shapes, StorageTypeOK, Writing
<1>3. QED
  BY <1>1, <1>2, ShapesStep, PTL DEF StorageSpec

\* A note bears the number of a job that was accepted.
NotesNumbered ==
  /\ \A a \in Apis : \A n \in DOMAIN jobNote[a] : jobNote[a][n].id >= 1
  /\ polled.answer \in {"none", "queued", "unknown"}

LEMMA AcceptNumbers ==
  ASSUME JobInv, NotesNumbered, NEW a \in Apis, NEW s \in Sessions, NEW p, NEW type, NEW noted,
         noted \in JobTypes, Accept(a, s, p, type, noted)
  PROVE  NotesNumbered'
<1>1. PICK notes : notes = jobNote[a]
  OBVIOUS
<1>2. PICK job : job = [id |-> Len(accepted) + 1, tenant |-> s.tenant, type |-> noted]
  OBVIOUS
<1>3. PICK kept : kept = Evicted(notes)
  OBVIOUS
<1>4. jobNote' = [jobNote EXCEPT ![a] = Append(kept, job)] /\ polled' = polled
  BY <1>1, <1>2, <1>3 DEF Accept
<1>5. notes \in Seq(JobRecords) /\ \A n \in DOMAIN notes : notes[n].id >= 1
  BY <1>1 DEF JobInv, JobShapes, NotesNumbered
<1>6. job \in JobRecords /\ job.id >= 1
  <2>1. Len(accepted) \in Nat
    BY DEF JobInv, JobShapes
  <2>2. QED
    BY <1>2, <2>1 DEF JobRecords
<1>7. kept \in Seq(JobRecords) /\ \A n \in DOMAIN kept : kept[n].id >= 1
  <2>1. Len(notes) \in Nat /\ DOMAIN notes = 1..Len(notes) /\ JobsEvicted \in Nat /\ JobHistory \in Nat
    BY <1>5, JobTrackingAssumption DEF JobTrackingAssumption
  <2>2. CASE Len(notes) >= JobHistory
    <3>1. kept = SubSeq(notes, JobsEvicted + 1, Len(notes))
      BY <1>3, <2>2 DEF Evicted
    <3>2. /\ kept \in Seq(JobRecords)
          /\ \A n \in DOMAIN kept : n + JobsEvicted \in DOMAIN notes /\ kept[n] = notes[n + JobsEvicted]
      BY <1>5, <2>1, <3>1
    <3>3. QED
      BY <1>5, <3>2
  <2>3. CASE ~(Len(notes) >= JobHistory)
    BY <1>3, <1>5, <2>3 DEF Evicted
  <2>4. QED
    BY <2>2, <2>3
<1>8. PICK more : more = Append(kept, job)
  OBVIOUS
<1>9. \A n \in DOMAIN more : more[n].id >= 1
  <2>1. \A n \in DOMAIN more : more[n] = job \/ (n \in DOMAIN kept /\ more[n] = kept[n])
    BY <1>6, <1>7, <1>8
  <2>2. QED
    BY <1>6, <1>7, <2>1
<1>10. DOMAIN jobNote = Apis
  BY DEF JobInv, JobShapes
<1>11. jobNote' = [jobNote EXCEPT ![a] = more]
  BY <1>4, <1>8
<1>12. QED
  BY <1>4, <1>9, <1>10, <1>11 DEF NotesNumbered

\* Every step numbers the notes.
LEMMA NotesNumberedStep == JobInv /\ NotesNumbered /\ [JobNext]_jobVars => NotesNumbered'
<1> SUFFICES ASSUME JobInv, NotesNumbered, [JobNext]_jobVars PROVE NotesNumbered'
  OBVIOUS
<1>1. ASSUME NEW a \in Apis, RestartApi(a) PROVE NotesNumbered'
  BY <1>1 DEF RestartApi, NotesNumbered, JobInv, JobShapes
<1>2. ASSUME NEW a \in Apis, NEW s \in Sessions,
             \/ TriggerPipeline(a, s) \/ TriggerDigest(a, s) \/ TriggerLLM(a, s) \/ TenantOperation(a, s)
             \/ NotionSync(a, s) \/ BoardAnalysis(a, s) \/ ScoringConfig(a, s) \/ NotebookLM(a, s)
      PROVE  NotesNumbered'
  <2>1. CASE TriggerPipeline(a, s)
    BY <2>1, AcceptNumbers DEF TriggerPipeline, JobTypes
  <2>2. CASE TriggerDigest(a, s)
    BY <2>2, AcceptNumbers DEF TriggerDigest, JobTypes
  <2>3. CASE TriggerLLM(a, s)
    BY <2>3, AcceptNumbers DEF TriggerLLM, JobTypes
  <2>4. CASE TenantOperation(a, s)
    BY <2>4, AcceptNumbers DEF TenantOperation, JobTypes
  <2>5. CASE NotionSync(a, s)
    BY <2>5, AcceptNumbers DEF NotionSync, JobTypes
  <2>6. CASE BoardAnalysis(a, s)
    BY <2>6, AcceptNumbers DEF BoardAnalysis, JobTypes
  <2>7. CASE ScoringConfig(a, s)
    BY <2>7, AcceptNumbers DEF ScoringConfig, JobTypes
  <2>8. CASE NotebookLM(a, s)
    BY <2>8, AcceptNumbers DEF NotebookLM, JobTypes
  <2>9. QED
    BY <1>2, <2>1, <2>2, <2>3, <2>4, <2>5, <2>6, <2>7, <2>8
<1>3. ASSUME NEW a \in Apis, NEW s \in Sessions, NEW j \in DOMAIN accepted, Poll(a, s, j) PROVE NotesNumbered'
  <2>1. jobNote' = jobNote /\ polled'.answer \in {"queued", "unknown"}
    BY <1>3 DEF Poll
  <2>2. QED
    BY <2>1 DEF NotesNumbered
<1>4. CASE UNCHANGED jobVars
  BY <1>4 DEF jobVars, NotesNumbered
<1>5. QED
  BY <1>1, <1>2, <1>3, <1>4 DEF JobNext

\* _track_job, webhook_job_status: the notes are of accepted jobs and never too many.
THEOREM JobTypeCorrect == JobSpec => []JobTypeOK
<1>1. JobInit => NotesNumbered
  BY DEF JobInit, NotesNumbered, NoPoll
<1>2. JobInv /\ NotesNumbered => JobTypeOK
  <2> SUFFICES ASSUME JobInv, NotesNumbered PROVE JobTypeOK
    OBVIOUS
  <2>1. ASSUME NEW a \in Apis, NEW n \in DOMAIN jobNote[a] PROVE jobNote[a][n].id \in DOMAIN accepted
    <3>1. PICK notes, queue : notes = jobNote[a] /\ queue = jobQueue[a]
      OBVIOUS
    <3>2. notes \in Seq(JobRecords) /\ queue \in Seq(JobRecords) /\ NotesOf(notes, queue) /\ Ascending(queue)
      BY <3>1 DEF JobInv, JobShapes
    <3>3. n \in 1..Len(notes) /\ Len(notes) \in Nat /\ Len(queue) \in Nat /\ Len(notes) <= Len(queue)
      BY <3>1, <3>2 DEF NotesOf
    <3>4. PICK m : m = Len(queue) - Len(notes) + n
      OBVIOUS
    <3>5. m \in 1..Len(queue)
      BY <3>3, <3>4
    <3>6. notes[n].id = queue[m].id /\ queue[m].id <= Len(accepted)
      BY <3>2, <3>3, <3>4, <3>5 DEF NotesOf, Ascending
    <3>7. notes[n].id \in Nat /\ notes[n].id >= 1
      <4>1. notes[n] \in JobRecords
        BY <3>2, <3>3
      <4>2. notes[n].id >= 1
        BY <3>1 DEF NotesNumbered
      <4>3. QED
        BY <4>1, <4>2 DEF JobRecords
    <3>8. Len(accepted) \in Nat /\ DOMAIN accepted = 1..Len(accepted)
      BY DEF JobInv, JobShapes
    <3>9. QED
      BY <3>1, <3>6, <3>7, <3>8
  <2>2. \A a \in Apis : Len(jobNote[a]) <= JobHistory
    BY DEF JobInv, NotesOf
  <2>3. QED
    BY <2>1, <2>2 DEF JobTypeOK, NotesNumbered
<1>3. QED
  BY <1>1, <1>2, JobInvInit, JobInvStep, NotesNumberedStep, PTL DEF JobSpec

\* A token is good for a span that began within the clock.
TokensTimed ==
  /\ clock \in 0..LastTick
  /\ tokenEnd \in [UserIds -> Nat \cup {NoToken}]

\* Every step issues tokens for the span after it.
LEMMA TokensTimedStep == TokensTimed /\ [AccountsNext]_accountVars => TokensTimed'
<1> SUFFICES ASSUME TokensTimed, [AccountsNext]_accountVars PROVE TokensTimed'
  OBVIOUS
<1>1. ASSUME UNCHANGED <<tokenEnd, clock>> PROVE TokensTimed'
  BY <1>1 DEF TokensTimed
<1>2. ASSUME NEW u, IssueToken(u), clock' = clock PROVE TokensTimed'
  <2>1. PICK n : n = clock + TokenLife
    OBVIOUS
  <2>2. n \in Nat
    BY <2>1, AccountsAssumption DEF TokensTimed, AccountsAssumption
  <2>3. tokenEnd' = [tokenEnd EXCEPT ![u] = n]
    BY <1>2, <2>1 DEF IssueToken
  <2>4. QED
    BY <1>2, <2>2, <2>3 DEF TokensTimed
<1>3. ASSUME NEW p \in Servers,
             \/ \E s \in People, i \in Invites \cup {"no code"} : FindUser(p, s, i)
             \/ ReadInvite(p) \/ RedeemInvite(p) \/ ProvisionOwner(p) \/ CreateUser(p)
             \/ ReadIndex(p) \/ WriteIndex(p)
             \/ \E u \in UserIds : DeactivateUser(p, u) \/ \E r \in UserRoles : UpdateRole(p, u, r)
             \/ AdminWrites(p) \/ ServerDies(p)
      PROVE  TokensTimed'
  BY <1>1, <1>3 DEF FindUser, Lookup, ReadInvite, RedeemInvite, Redeem, ProvisionOwner, CreateUser,
     ReadIndex, WriteIndex, DeactivateUser, UpdateRole, AdminReads, AdminWrites, ServerDies
<1>4. ASSUME NEW p \in Servers, LoginKnown(p) \/ FirstLogin(p) \/ BindOwner(p) PROVE TokensTimed'
  <2>1. clock' = clock /\ (UNCHANGED tokenEnd \/ IssueToken(handler[p].user))
    BY <1>4 DEF LoginKnown, FirstLogin, BindOwner
  <2>2. QED
    BY <1>1, <1>2, <2>1
<1>5. ASSUME \/ \E i \in Invites, t \in Homes, s \in People, r \in UserRoles : CreateInvite(i, t, s, r)
             \/ \E t \in Homes : HomeOff(t)
             \/ UNCHANGED accountVars
      PROVE  TokensTimed'
  BY <1>1, <1>5 DEF CreateInvite, HomeOff, accountVars
<1>6. CASE ClockMoves
  BY <1>6, AccountsAssumption DEF ClockMoves, TokensTimed, AccountsAssumption
<1>7. QED
  BY <1>3, <1>4, <1>5, <1>6 DEF AccountsNext

\* google_login, user_manager.py: the types of accounts, of the index and of tokens.
THEOREM AccountsTypeCorrect == AccountsSpec => []AccountsTypeOK
<1>1. AccountsInit => TokensTimed /\ AccessInv
  BY AccountsAssumption
  DEF AccountsInit, TokensTimed, AccountsAssumption, AccessInv, LastSeen, AboutToAdmit, NoToken, NoRec, Idle
<1>2. AccountsInv /\ AccessInv /\ TokensTimed => AccountsTypeOK
  <2> SUFFICES ASSUME AccountsInv, AccessInv, TokensTimed PROVE AccountsTypeOK
    OBVIOUS
  <2>1. ASSUME NEW u \in UserIds
        PROVE  tokenEnd[u] \in (clock - LastTick)..(clock + TokenLife) \cup {NoToken}
    <3>1. /\ tokenEnd[u] \in Nat \cup {NoToken} /\ lastActive[u] \in Int /\ lastActive[u] <= clock
          /\ clock \in 0..LastTick /\ (tokenEnd[u] # NoToken => tokenEnd[u] <= lastActive[u] + TokenLife)
      BY DEF AccessInv, LastSeen, TokensTimed
    <3>2. QED
      BY <3>1, AccountsAssumption DEF AccountsAssumption
  <2>2. DOMAIN tokenEnd = UserIds /\ tokenEnd = [u \in UserIds |-> tokenEnd[u]]
    BY DEF TokensTimed
  <2>3. QED
    BY <2>1, <2>2 DEF AccountsTypeOK, AccountsInv, AccountShapes
<1>3. QED
  BY <1>1, <1>2, AccountsInvInit, AccountsInvStep, AccessInvStep, TokensTimedStep, PTL DEF AccountsSpec

\* The partitions that hold documents are of the known kinds, and a log stays short.
StoredInLayers ==
  /\ stored \in [TenantIds -> SUBSET Layers]
  /\ \A t \in TenantIds : Len(events[t]) <= MaxEvents

\* Every step stores in the known partitions and lengthens a log within its bound.
LEMMA StoredInLayersStep ==
  SealedInv /\ StoredInLayers /\ [TenantStoreNext]_tenantStoreVars => StoredInLayers'
<1> SUFFICES ASSUME SealedInv, StoredInLayers, [TenantStoreNext]_tenantStoreVars PROVE StoredInLayers'
  OBVIOUS
<1>1. ASSUME UNCHANGED <<stored, events>> PROVE StoredInLayers'
  BY <1>1 DEF StoredInLayers
<1>2. ASSUME NEW t, NEW held \in SUBSET Layers, stored' = [stored EXCEPT ![t] = held], events' = events
      PROVE  StoredInLayers'
  BY <1>2 DEF StoredInLayers
<1>3. ASSUME NEW o \in Offices, NEW t \in TenantIds,
             \/ RegisterTenant(o, t) \/ SubscriptionDeleted(o, t) \/ ExpireDemo(o, t)
             \/ \E flag \in BOOLEAN : CreateDemo(o, t, flag) \/ UpdateTenantConfig(o, t, flag)
             \/ \E tier \in Tiers : CheckoutCompleted(o, t, tier)
             \/ \E sub \in Subs : FirstBinding(o, t, sub)
      PROVE  StoredInLayers'
  BY <1>1, <1>3 DEF RegisterTenant, SubscriptionDeleted, ExpireDemo, CreateDemo, UpdateTenantConfig,
     CheckoutCompleted, FirstBinding, Request
<1>4. ASSUME NEW o \in Offices, SaveCopy(o) \/ ReadRecord(o) \/ WriteRecord(o) \/ ReadLog(o) \/ OfficeDies(o)
      PROVE  StoredInLayers'
  BY <1>1, <1>4 DEF SaveCopy, ReadRecord, WriteRecord, ReadLog, OfficeDies
<1>5. ASSUME NEW o \in Offices, MarkPartitions(o) PROVE StoredInLayers'
  <2>1. PICK t : t = work[o].tenant
    OBVIOUS
  <2>2. stored' = [stored EXCEPT ![t] = stored[t] \cup Markers] /\ events' = events
    BY <1>5, <2>1 DEF MarkPartitions
  <2>3. t \in TenantIds
    BY <1>5, <2>1, AtStep DEF MarkPartitions, OnStep
  <2>4. stored[t] \cup Markers \in SUBSET Layers
    BY <2>3 DEF StoredInLayers, Markers
  <2>5. QED
    BY <1>2, <2>2, <2>4
<1>6. ASSUME NEW o \in Offices, CleanPartition(o) PROVE StoredInLayers'
  <2>1. PICK t : t = work[o].tenant
    OBVIOUS
  <2>2. events' = events /\ (stored' = stored \/ \E l \in stored[t] : stored' = [stored EXCEPT ![t] = stored[t] \ {l}])
    BY <1>6, <2>1 DEF CleanPartition
  <2>3. t \in TenantIds
    BY <1>6, <2>1, AtStep DEF CleanPartition, OnStep
  <2>4. \A l : stored[t] \ {l} \in SUBSET Layers
    BY <2>3 DEF StoredInLayers
  <2>5. QED
    BY <1>1, <1>2, <2>2, <2>4
<1>7. ASSUME NEW o \in Offices, WriteLog(o) PROVE StoredInLayers'
  <2>1. PICK w : w = work[o]
    OBVIOUS
  <2>2. /\ w # Rest /\ Head(w.todo) = "log" /\ w.read
        /\ Len(w.copy) < MaxEvents /\ stored' = stored
        /\ events' = [events EXCEPT ![w.tenant] = Append(w.copy, w.line)]
    BY <1>7, <2>1 DEF WriteLog, OnStep
  <2>3. w.copy \in Seq(Lines) /\ w.line \in Lines
    BY <2>1, <2>2, AtStep DEF TaskAt, CopyAt
  <2>4. PICK more : more = Append(w.copy, w.line)
    OBVIOUS
  <2>5. Len(more) <= MaxEvents
    <3>1. PICK old, line : old = w.copy /\ line = w.line
      OBVIOUS
    <3>2. Len(Append(old, line)) = Len(old) + 1 /\ Len(old) \in Nat
      BY <2>3, <3>1
    <3>3. QED
      BY <2>2, <2>4, <3>1, <3>2, TenantStoreAssumption DEF TenantStoreAssumption
  <2>6. DOMAIN events = TenantIds /\ events' = [events EXCEPT ![w.tenant] = more]
    BY <2>2, <2>4 DEF SealedInv
  <2>7. QED
    BY <2>2, <2>5, <2>6 DEF StoredInLayers
<1>8. ASSUME NEW t \in TenantIds, NEW l \in Layers, StoreData(t, l) PROVE StoredInLayers'
  <2>1. stored' = [stored EXCEPT ![t] = stored[t] \cup {l}] /\ events' = events
    BY <1>8 DEF StoreData
  <2>2. stored[t] \cup {l} \in SUBSET Layers
    BY DEF StoredInLayers
  <2>3. QED
    BY <1>2, <2>1, <2>2
<1>9. CASE UNCHANGED tenantStoreVars
  BY <1>1, <1>9 DEF tenantStoreVars
<1>10. QED
  BY <1>3, <1>4, <1>5, <1>6, <1>7, <1>8, <1>9 DEF TenantStoreNext

\* manager.py, demo_manager.py: the types of tenant records, partitions and event logs.
THEOREM TenantStoreTypeCorrect == TenantStoreSpec => []TenantStoreTypeOK
<1>1. TenantStoreInit => SealedInv /\ StoredInLayers
  <2>1. NoRecord \in Records /\ Sealed(NoRecord) /\ <<>> \in Seq(Lines)
    BY DEF NoRecord, Records, Sealed
  <2>2. QED
    BY <2>1, TenantStoreAssumption DEF TenantStoreInit, SealedInv, StoredInLayers, TenantStoreAssumption
<1>2. SealedInv /\ StoredInLayers => TenantStoreTypeOK
  BY DEF SealedInv, StoredInLayers, TenantStoreTypeOK
<1>3. SealedInv /\ [TenantStoreNext]_tenantStoreVars => SealedInv'
  BY SealedPreserved
<1>4. QED
  BY <1>1, <1>2, <1>3, StoredInLayersStep, PTL DEF TenantStoreSpec

\* The rows of a document bear the number of an ingestion, and a thread stores the
\* chunks of its text one by one.
IngestionAt(w) ==
  /\ w.text \in 0..MaxIngests /\ w.size \in 0..MaxChunks
  /\ w.on => w.next < w.size

RagCounted ==
  /\ \A d \in DocIds, i \in Indexes : ragRows[d][i].text \in 0..MaxIngests
  /\ \A u \in RagThreads : IngestionAt(ingesting[u])
  /\ ingests \in 0..MaxIngests

\* Every step stores one chunk of a text at most.
LEMMA RagCountedStep == RagShapes /\ RagCounted /\ [RagNext]_ragVars => RagCounted'
<1> SUFFICES ASSUME RagShapes, RagCounted, [RagNext]_ragVars PROVE RagCounted'
  OBVIOUS
<1>1. DOMAIN ingesting = RagThreads /\ DOMAIN ragRows = DocIds
      /\ \A d \in DocIds : DOMAIN ragRows[d] = Indexes
  BY DEF RagShapes
<1>2. MaxIngests \in Nat /\ MaxChunks \in Nat
  BY RagAssumption DEF RagAssumption
<1>3. IngestionAt(NotIngesting)
  BY <1>2 DEF IngestionAt, NotIngesting
<1>4. ASSUME NEW u \in RagThreads, NEW w, IngestionAt(w), ingesting' = [ingesting EXCEPT ![u] = w]
      PROVE  \A v \in RagThreads : IngestionAt(ingesting'[v])
  BY <1>1, <1>4 DEF RagCounted
<1>5. ASSUME NEW u \in RagThreads, NEW t \in RagTenants, NEW d \in DocIds, NEW size \in 0..MaxChunks,
             Admit(u, t, d, size)
      PROVE  RagCounted'
  <2>1. PICK w : w = [on |-> size > 0, owner |-> t, doc |-> d, text |-> ingests + 1, size |-> size, next |-> 0]
    OBVIOUS
  <2>2. ingesting' = [ingesting EXCEPT ![u] = w] /\ ragRows' = ragRows
        /\ ingests < MaxIngests /\ ingests' = ingests + 1
    BY <1>5, <2>1 DEF Admit
  <2>3. ingests + 1 \in 0..MaxIngests
    BY <1>2, <2>2 DEF RagCounted
  <2>4. IngestionAt(w)
    BY <1>2, <2>1, <2>3 DEF IngestionAt
  <2>5. QED
    BY <1>4, <2>2, <2>3, <2>4 DEF RagCounted
<1>6. ASSUME NEW u \in RagThreads, StoreChunk(u) PROVE RagCounted'
  <2>1. PICK w : w = ingesting[u]
    OBVIOUS
  <2>2. w \in Ingestions /\ IngestionAt(w) /\ w.on
    BY <1>6, <2>1 DEF RagShapes, RagCounted, StoreChunk
  <2>3. PICK row : row = [owner |-> w.owner, text |-> w.text]
    OBVIOUS
  <2>4. PICK d, n : d = w.doc /\ n = w.next
    OBVIOUS
  <2>5. /\ ragRows' = [ragRows EXCEPT ![d][n] = row] /\ ingests' = ingests
        /\ ingesting' = [ingesting EXCEPT ![u] = IF n + 1 = w.size THEN NotIngesting ELSE [w EXCEPT !.next = n + 1]]
    BY <1>6, <2>1, <2>3, <2>4 DEF StoreChunk
  <2>6. row.text \in 0..MaxIngests
    BY <2>2, <2>3 DEF IngestionAt
  <2>7. \A e \in DocIds, i \in Indexes : ragRows'[e][i].text \in 0..MaxIngests
    BY <1>1, <2>5, <2>6 DEF RagCounted
  <2>8. PICK v : v = [w EXCEPT !.next = n + 1]
    OBVIOUS
  <2>9. n + 1 # w.size => IngestionAt(v)
    <3>1. v.text = w.text /\ v.size = w.size /\ v.on = w.on /\ v.next = n + 1
      BY <2>2, <2>8 DEF Ingestions
    <3>2. n \in Nat /\ w.size \in Nat /\ n < w.size
      BY <2>2, <2>4 DEF Ingestions, IngestionAt
    <3>3. QED
      BY <2>2, <3>1, <3>2 DEF IngestionAt
  <2>10. \/ n + 1 # w.size /\ ingesting' = [ingesting EXCEPT ![u] = v]
         \/ ingesting' = [ingesting EXCEPT ![u] = NotIngesting]
    BY <2>5, <2>8
  <2>11. \A x \in RagThreads : IngestionAt(ingesting'[x])
    BY <1>3, <1>4, <2>9, <2>10
  <2>12. QED
    BY <2>5, <2>7, <2>11 DEF RagCounted
<1>7. ASSUME NEW u \in RagThreads, IngestBreaks(u) PROVE RagCounted'
  BY <1>3, <1>4, <1>7 DEF IngestBreaks, RagCounted
<1>8. ASSUME NEW t, NEW docs, ragRows' = Without(t, docs), UNCHANGED <<ingesting, ingests>>
      PROVE  RagCounted'
  <2>1. NoRow.text \in 0..MaxIngests
    BY <1>2 DEF NoRow
  <2>2. ASSUME NEW d \in DocIds, NEW i \in Indexes PROVE ragRows'[d][i].text \in 0..MaxIngests
    <3>1. ragRows'[d][i] = IF d \in docs /\ ragRows[d][i].owner = t THEN NoRow ELSE ragRows[d][i]
      BY <1>8 DEF Without
    <3>2. QED
      BY <2>1, <3>1 DEF RagCounted
  <2>3. QED
    BY <1>8, <2>2 DEF RagCounted
<1>9. ASSUME NEW t \in RagTenants, PurgeTenant(t) \/ \E d \in DocIds : DeleteDocument(t, d) PROVE RagCounted'
  BY <1>8, <1>9 DEF PurgeTenant, DeleteDocument
<1>10. CASE UNCHANGED ragVars
  BY <1>10 DEF ragVars, RagCounted
<1>11. QED
  BY <1>5, <1>6, <1>7, <1>9, <1>10 DEF RagNext

\* rag.py: the types of the chunks and of what the threads are storing.
THEOREM RagTypeCorrect == RagSpec => []RagTypeOK
<1>1. RagInit => RagCounted
  BY RagAssumption DEF RagInit, RagCounted, IngestionAt, NoRow, NotIngesting, RagAssumption
<1>2. RagInv /\ RagCounted => RagTypeOK
  <2> SUFFICES ASSUME RagShapes, RagCounted PROVE RagTypeOK
    BY DEF RagInv
  <2> DEFINE R == [owner : RagTenants \cup {NoTenant}, text : 0..MaxIngests]
  <2>1. ASSUME NEW d \in DocIds PROVE ragRows[d] \in [Indexes -> R]
    <3>1. ragRows[d] \in [Indexes -> Rows]
      BY DEF RagShapes
    <3>2. ASSUME NEW i \in Indexes PROVE ragRows[d][i] \in R
      <4>1. ragRows[d][i] \in Rows /\ ragRows[d][i].text \in 0..MaxIngests
        BY <3>1 DEF RagCounted
      <4>2. QED
        BY <4>1 DEF Rows
    <3> HIDE DEF R
    <3>3. QED
      BY <3>1, <3>2
  <2> HIDE DEF R
  <2>2. ragRows \in [DocIds -> [Indexes -> R]]
    BY <2>1 DEF RagShapes
  <2>3. ASSUME NEW u \in RagThreads PROVE ingesting[u].doc \in DocIds \cup {"none"}
    <3>1. ingesting[u] \in Ingestions
      BY DEF RagShapes
    <3>2. QED
      BY <3>1 DEF Ingestions
  <2>4. QED
    BY <2>2, <2>3 DEF RagTypeOK, RagCounted, IngestionAt, R
<1>3. RagInv /\ RagCounted /\ [RagNext]_ragVars => RagCounted'
  BY RagCountedStep DEF RagInv
<1>4. QED
  BY <1>1, <1>2, <1>3, RagInitOK, RagInvStep, PTL DEF RagSpec

\* Failures are in the past, and bans end at some time.
BanTimed == bannedUntil \in Nat /\ \A f \in failed : f[1] \in 0..banClock

\* Every step notes a failure when it happens and a ban from then on.
LEMMA BanTimedStep == BanInv /\ BanTimed /\ [BanNext]_banVars => BanTimed'
<1> SUFFICES ASSUME BanInv, BanTimed, [BanNext]_banVars PROVE BanTimed'
  OBVIOUS
<1>1. banClock \in Nat
  BY BanAssumption DEF BanInv, BanShapes, BanAssumption
<1>2. CASE AuthFails
  <2> DEFINE times == failed \cup {<<banClock, Cardinality(failed)>>}
             reached == {s \in Stages : Reached(s, times)}
             last == CHOOSE s \in reached : \A s2 \in reached : s2 <= s
             forever == PermanentLast /\ LastStage \in reached
  <2>1. /\ failed' = times /\ UNCHANGED banClock
        /\ bannedUntil' = IF reached = {} THEN bannedUntil ELSE IF forever THEN 0 ELSE banClock + BanTime[last]
    BY <1>2 DEF AuthFails
  <2>2. reached # {} => last \in Stages
    BY HighestStage
  <2>3. \A f \in times : f[1] \in 0..banClock
    BY <1>1 DEF BanTimed
  <2> HIDE DEF times, reached, last, forever
  <2>4. reached # {} => BanTime[last] \in Nat
    BY <2>2, BanAssumption DEF BanAssumption
  <2>5. bannedUntil' \in Nat
    BY <1>1, <2>1, <2>4 DEF BanTimed
  <2>6. QED
    BY <2>1, <2>3, <2>5 DEF BanTimed
<1>3. CASE AuthSucceeds \/ Unban \/ RestartBans
  BY <1>3 DEF AuthSucceeds, Unban, RestartBans, BanTimed
<1>4. CASE BanForGood \/ UNCHANGED banVars
  BY <1>4 DEF BanForGood, banRecord, banVars, BanTimed
<1>5. CASE BanTick
  BY <1>1, <1>5 DEF BanTick, banRecord, BanTimed
<1>6. QED
  BY <1>2, <1>3, <1>4, <1>5 DEF BanNext

\* ban.py: the types of a client's record.
THEOREM BanTypeCorrect == BanSpec => []BanTypeOK
<1>1. BanInit => BanTimed
  BY DEF BanInit, BanTimed
<1>2. BanInv /\ BanTimed => BanTypeOK
  BY BanAssumption DEF BanInv, BanShapes, BanTimed, BanTypeOK, BanAssumption, Stages
<1>3. QED
  BY <1>1, <1>2, BanInvInit, BanInvStep, BanTimedStep, PTL DEF BanSpec

\* A line bears the number of an entry that was hashed, and so does a head.
LinesNumbered ==
  /\ \A d \in LogDays : \A n \in DOMAIN logFile[d] : logFile[d][n].hash \in 1..logged
  /\ \A p \in Processes : head[p] <= logged /\ entryCount[p] <= logged

\* Every step gives a line the next number.
LEMMA LinesNumberedStep == LedgerInv /\ LinesNumbered /\ [LedgerNext]_ledgerVars => LinesNumbered'
<1> SUFFICES ASSUME LedgerInv, LinesNumbered, [LedgerNext]_ledgerVars PROVE LinesNumbered'
  OBVIOUS
<1>1. ASSUME UNCHANGED <<logFile, head, entryCount, logged>> PROVE LinesNumbered'
  BY <1>1 DEF LinesNumbered
<1>2. ASSUME NEW g \in Loggers, AppendEntry(g) PROVE LinesNumbered'
  <2>1. PICK p : p = ProcessOf[g]
    OBVIOUS
  <2>2. PICK line : line = [hash |-> logged + 1, prev |-> head[p]]
    OBVIOUS
  <2>3. PICK turn \in BOOLEAN : turn = ((entryCount[p] + 1) % SegmentSize = 0)
    OBVIOUS
  <2>4. /\ logged' = logged + 1
        /\ entryCount' = [entryCount EXCEPT ![p] = entryCount[p] + 1]
        /\ head' = [head EXCEPT ![p] = IF turn THEN 0 ELSE logged + 1]
        /\ logFile' = logFile \/ logFile' = [logFile EXCEPT ![logDay] = Append(logFile[logDay], line)]
    BY <1>2, <2>1, <2>2, <2>3 DEF AppendEntry, AppendAfter
  <2>5. /\ logged \in Nat /\ DOMAIN logFile = LogDays /\ logDay \in LogDays
        /\ head \in [Processes -> Nat] /\ entryCount \in [Processes -> Nat]
    BY DEF LedgerInv, LedgerShapes
  <2>6. \A q \in Processes : head'[q] <= logged' /\ entryCount'[q] <= logged'
    BY <2>4, <2>5 DEF LinesNumbered
  <2>7. PICK lines : lines = logFile[logDay]
    OBVIOUS
  <2>8. lines \in Seq(LogLines) /\ line \in LogLines /\ line.hash = logged + 1
    <3>1. head[p] \in Nat
      BY <2>1, <2>5 DEF Processes
    <3>2. QED
      BY <2>2, <2>5, <2>7, <3>1 DEF LedgerInv, LedgerShapes, LogLines
  <2>9. \A n \in DOMAIN Append(lines, line) :
          Append(lines, line)[n] = line \/ (n \in DOMAIN lines /\ Append(lines, line)[n] = lines[n])
    BY <2>8
  <2>10. PICK more : more = Append(lines, line)
    OBVIOUS
  <2>11. \A n \in 1..logged : n \in 1..logged'
    BY <2>4, <2>5
  <2>12. \A n \in DOMAIN more : more[n].hash \in 1..logged'
    <3>1. \A n \in DOMAIN lines : lines[n].hash \in 1..logged'
      BY <2>5, <2>7, <2>11 DEF LinesNumbered
    <3>2. line.hash \in 1..logged'
      BY <2>4, <2>5, <2>8
    <3>3. QED
      BY <2>9, <2>10, <3>1, <3>2
  <2>13. \A d \in LogDays : \A n \in DOMAIN logFile'[d] : logFile'[d][n].hash \in 1..logged'
    <3>1. logFile' = logFile \/ logFile' = [logFile EXCEPT ![logDay] = more]
      BY <2>4, <2>7, <2>10
    <3>2. QED
      BY <2>5, <2>11, <2>12, <3>1 DEF LinesNumbered
  <2>14. QED
    BY <2>6, <2>13 DEF LinesNumbered
<1>3. ASSUME NEW p \in Processes, RestartProcess(p) PROVE LinesNumbered'
  <2>1. /\ logFile' = logFile /\ logged' = logged /\ logged \in Nat
        /\ head' = [head EXCEPT ![p] = 0] /\ entryCount' = [entryCount EXCEPT ![p] = 0]
        /\ head \in [Processes -> Nat] /\ entryCount \in [Processes -> Nat]
    BY <1>3 DEF RestartProcess, LedgerInv, LedgerShapes
  <2>2. QED
    BY <2>1 DEF LinesNumbered
<1>4. ASSUME NEW g \in Loggers, Prepare(g) PROVE LinesNumbered'
  BY <1>1, <1>4 DEF Prepare
<1>5. CASE NewLogDay \/ UNCHANGED ledgerVars
  BY <1>1, <1>5 DEF NewLogDay, ledgerVars
<1>6. QED
  BY <1>2, <1>3, <1>4, <1>5 DEF LedgerNext

\* action_ledger.py: the types of the files, heads and counts.
THEOREM LedgerTypeCorrect == LedgerSpec => []LedgerTypeOK
<1>1. LedgerInit => LinesNumbered
  BY DEF LedgerInit, LinesNumbered
<1>2. LedgerInv /\ LinesNumbered => LedgerTypeOK
  <2> SUFFICES ASSUME LedgerInv, LinesNumbered PROVE LedgerTypeOK
    OBVIOUS
  <2>1. /\ logged \in Nat /\ head \in [Processes -> Nat] /\ entryCount \in [Processes -> Nat]
        /\ \A p \in Processes : head[p] <= logged /\ entryCount[p] <= logged
    BY DEF LedgerInv, LedgerShapes, LinesNumbered
  <2>2. head \in [Processes -> 0..logged] /\ entryCount \in [Processes -> 0..logged]
    BY <2>1
  <2>3. QED
    BY <2>2 DEF LinesNumbered, LedgerTypeOK
<1>3. QED
  BY <1>1, <1>2, LedgerInvInit, LedgerInvStep, LinesNumberedStep, PTL DEF LedgerSpec

\* What a call may be, and what each statement relies on.
LegalCalls == Calls \cup {Bootstrap[n] : n \in 1..5}

LEMMA LegalCallsAre ==
  ASSUME NEW call \in LegalCalls
  PROVE  /\ call.what \in {"namespace", "schema", "table", "stats", "grant", "revoke", "lineage"}
         /\ call.what = "schema" => call.schema \in SchemaNames
         /\ call.what = "stats" => call.with[1] \in 1..MaxRows
<1>1. CASE call \in Calls
  BY <1>1 DEF Calls, Call
<1>2. CASE \E n \in 1..5 : call = Bootstrap[n]
  <2>1. \/ call = Call("namespace", "none", <<>>) \/ call = Call("schema", "bronze", <<>>)
        \/ call = Call("schema", "gold", <<>>) \/ call = Call("grant", "gold", <<"free", "SELECT">>)
        \/ call = Call("grant", "bronze", <<"standard", "INSERT">>)
    BY <1>2 DEF Bootstrap
  <2>2. QED
    BY <2>1, CatalogAssumption DEF Call, CatalogAssumption
<1>3. QED
  BY <1>1, <1>2 DEF LegalCalls

\* A database: tables only in schemas, schemas of the known names.
DbAt(db) ==
  /\ DOMAIN db = DbFields
  /\ db.tables \subseteq db.schemas /\ db.schemas \subseteq SchemaNames
  /\ db.rows \in [SchemaNames -> 0..MaxRows] /\ db.lineage \in 0..MaxLineage

\* A statement that its foreign keys and the bound allow leaves a database.
LEMMA AppliedIsDb ==
  ASSUME NEW db, DbAt(db), NEW call \in LegalCalls, Grounded(db, call),
         call.what = "lineage" => db.lineage < MaxLineage
  PROVE  DbAt(Applied(db, call))
<1>1. PICK after : after = Applied(db, call)
  OBVIOUS
<1>2. PICK what, s : what = call.what /\ s = call.schema
  OBVIOUS
<1>3. MaxRows \in Nat /\ MaxLineage \in Nat /\ DOMAIN db = DbFields
  BY CatalogAssumption DEF CatalogAssumption, DbAt
<1>4. CASE what = "namespace"
  <2>1. after = [db EXCEPT !.namespace = TRUE]
    BY <1>1, <1>2, <1>4 DEF Applied, CreateNamespace
  <2>2. DOMAIN after = DbFields /\ after.schemas = db.schemas /\ after.tables = db.tables
        /\ after.rows = db.rows /\ after.lineage = db.lineage
    BY <1>3, <2>1 DEF DbFields
  <2>3. QED
    BY <1>1, <2>2 DEF DbAt
<1>5. CASE what = "schema"
  <2>1. after = [db EXCEPT !.schemas = db.schemas \cup {s}] /\ s \in SchemaNames
    BY <1>1, <1>2, <1>5, LegalCallsAre DEF Applied, CreateSchema
  <2>2. DOMAIN after = DbFields /\ after.schemas = db.schemas \cup {s} /\ after.tables = db.tables
        /\ after.rows = db.rows /\ after.lineage = db.lineage
    BY <1>3, <2>1 DEF DbFields
  <2>3. QED
    BY <1>1, <2>1, <2>2 DEF DbAt
<1>6. CASE what = "table"
  <2>1. PICK reset : reset = [db.rows EXCEPT ![s] = 0]
    OBVIOUS
  <2>2. after = [db EXCEPT !.tables = db.tables \cup {s}, !.rows = reset] /\ s \in db.schemas
    <3>1. after = [db EXCEPT !.tables = db.tables \cup {s}, !.rows[s] = 0]
      BY <1>1, <1>2, <1>6 DEF Applied, RegisterTable
    <3>2. s \in db.schemas
      BY <1>2, <1>6 DEF Grounded
    <3>3. QED
      BY <1>3, <2>1, <3>1, <3>2 DEF DbFields
  <2>3. DOMAIN after = DbFields /\ after.schemas = db.schemas /\ after.tables = db.tables \cup {s}
        /\ after.rows = reset /\ after.lineage = db.lineage
    BY <1>3, <2>2 DEF DbFields
  <2>4. reset \in [SchemaNames -> 0..MaxRows]
    <3>1. PICK old : old = db.rows
      OBVIOUS
    <3>2. old \in [SchemaNames -> 0..MaxRows] /\ 0 \in 0..MaxRows
      BY <1>3, <3>1 DEF DbAt
    <3>3. reset = [old EXCEPT ![s] = 0]
      BY <2>1, <3>1
    <3>4. QED
      BY <3>2, <3>3
  <2>5. QED
    BY <1>1, <2>2, <2>3, <2>4 DEF DbAt
<1>7. CASE what = "stats"
  <2>1. PICK count : count = IF s \in db.tables THEN call.with[1] ELSE db.rows[s]
    OBVIOUS
  <2>2. PICK rows : rows = [db.rows EXCEPT ![s] = count]
    OBVIOUS
  <2>3. after = [db EXCEPT !.rows = rows]
    <3>1. after = [db EXCEPT !.rows[s] = count]
      BY <1>1, <1>2, <1>7, <2>1 DEF Applied, UpdateTableStats
    <3>2. QED
      BY <1>3, <2>2, <3>1 DEF DbFields
  <2>4. DOMAIN after = DbFields /\ after.schemas = db.schemas /\ after.tables = db.tables
        /\ after.rows = rows /\ after.lineage = db.lineage
    BY <1>3, <2>3 DEF DbFields
  <2>5. s \in SchemaNames => count \in 0..MaxRows
    <3>1. call.with[1] \in 1..MaxRows
      BY <1>2, <1>7, LegalCallsAre
    <3>2. QED
      BY <1>3, <2>1, <3>1 DEF DbAt
  <2>6. rows \in [SchemaNames -> 0..MaxRows]
    BY <2>2, <2>5 DEF DbAt
  <2>7. QED
    BY <1>1, <2>4, <2>6 DEF DbAt
<1>8. CASE what \in {"grant", "revoke"}
  <2>1. \E grants : after = [db EXCEPT !.grants = grants]
    BY <1>1, <1>2, <1>8 DEF Applied, GrantAccess, RevokeAccess
  <2>2. DOMAIN after = DbFields /\ after.schemas = db.schemas /\ after.tables = db.tables
        /\ after.rows = db.rows /\ after.lineage = db.lineage
    BY <1>3, <2>1 DEF DbFields
  <2>3. QED
    BY <1>1, <2>2 DEF DbAt
<1>9. CASE what = "lineage"
  <2>1. after = [db EXCEPT !.lineage = db.lineage + 1]
    BY <1>1, <1>2, <1>9 DEF Applied, RecordLineage
  <2>2. DOMAIN after = DbFields /\ after.schemas = db.schemas /\ after.tables = db.tables
        /\ after.rows = db.rows /\ after.lineage = db.lineage + 1
    BY <1>3, <2>1 DEF DbFields
  <2>3. db.lineage + 1 \in 0..MaxLineage
    BY <1>2, <1>3, <1>9 DEF DbAt
  <2>4. QED
    BY <1>1, <2>2, <2>3 DEF DbAt
<1>10. QED
  BY <1>2, <1>4, <1>5, <1>6, <1>7, <1>8, <1>9, LegalCallsAre

\* The file and the transaction are databases, and the calls still to be made are legal.
DbsAreDbs ==
  /\ DbAt(catalog) /\ DbAt(transaction)
  /\ \A u \in Clerks : clerk[u].calls \in Seq(LegalCalls)

\* Every step leaves them so.
LEMMA DbsAreDbsStep == CatalogInv /\ DbsAreDbs /\ [CatalogNext]_catalogVars => DbsAreDbs'
<1> SUFFICES ASSUME CatalogInv, DbsAreDbs, [CatalogNext]_catalogVars PROVE DbsAreDbs'
  OBVIOUS
<1>1. DOMAIN clerk = Clerks /\ \A u \in Clerks : DOMAIN clerk[u] = {"calls", "did"}
  BY DEF CatalogInv
<1>2. ASSUME NEW u \in Clerks, NEW calls \in Seq(LegalCalls), clerk' = [clerk EXCEPT ![u].calls = calls],
             DbAt(catalog'), DbAt(transaction')
      PROVE  DbsAreDbs'
  <2>1. \A v \in Clerks : clerk'[v].calls \in Seq(LegalCalls)
    BY <1>1, <1>2 DEF DbsAreDbs
  <2>2. QED
    BY <1>2, <2>1 DEF DbsAreDbs, DbAt
<1>3. Bootstrap \in Seq(LegalCalls)
  <2>1. \A n \in 1..5 : Bootstrap[n] \in LegalCalls
    BY DEF LegalCalls
  <2>2. Len(Bootstrap) = 5 /\ Bootstrap = [n \in 1..5 |-> Bootstrap[n]]
    BY DEF Bootstrap
  <2>3. QED
    BY <2>1, <2>2
<1>4. ASSUME NEW u \in Clerks, NEW calls \in Seq(LegalCalls), Begin(u, calls) PROVE DbsAreDbs'
  BY <1>2, <1>4 DEF Begin, DbsAreDbs
<1>5. ASSUME NEW u \in Clerks, NEW call \in Calls, Begin(u, <<call>>) PROVE DbsAreDbs'
  <2>1. <<call>> \in Seq(LegalCalls)
    BY DEF LegalCalls
  <2>2. QED
    BY <1>4, <1>5, <2>1
<1>6. ASSUME NEW u \in Clerks, Execute(u) PROVE DbsAreDbs'
  <2>1. PICK c : c = ConnectionOf[u]
    OBVIOUS
  <2>2. PICK calls : calls = clerk[u].calls
    OBVIOUS
  <2>3. PICK call : call = Head(calls)
    OBVIOUS
  <2>4. PICK seen : seen = View(c)
    OBVIOUS
  <2>5. calls \in Seq(LegalCalls) /\ calls # <<>>
    BY <1>6, <2>2 DEF Execute, DbsAreDbs
  <2>6. call \in LegalCalls /\ Tail(calls) \in Seq(LegalCalls)
    BY <2>3, <2>5
  <2>7. DbAt(seen)
    BY <2>4 DEF View, DbsAreDbs
  <2>8. /\ call.what = "lineage" => seen.lineage < MaxLineage
        /\ catalog' = catalog
        /\ IF Grounded(seen, call)
           THEN /\ transaction' = Applied(seen, call)
                /\ clerk' = [clerk EXCEPT ![u] = [calls |-> Tail(calls), did |-> call]]
           ELSE transaction' = seen /\ clerk' = [clerk EXCEPT ![u].calls = <<>>]
    BY <1>6, <2>1, <2>2, <2>3, <2>4 DEF Execute
  <2>9. CASE Grounded(seen, call)
    <3>1. PICK after, rest : after = Applied(seen, call) /\ rest = Tail(calls)
      OBVIOUS
    <3>2. DbAt(after) /\ transaction' = after /\ rest \in Seq(LegalCalls)
      BY <2>6, <2>7, <2>8, <2>9, <3>1, AppliedIsDb
    <3>3. clerk' = [clerk EXCEPT ![u] = [calls |-> rest, did |-> call]]
      BY <2>8, <2>9, <3>1
    <3>4. \A v \in Clerks : clerk'[v].calls \in Seq(LegalCalls)
      BY <1>1, <3>2, <3>3 DEF DbsAreDbs
    <3>5. QED
      BY <2>8, <3>2, <3>4 DEF DbsAreDbs, DbAt
  <2>10. CASE ~Grounded(seen, call)
    <3>1. PICK none : none = <<>>
      OBVIOUS
    <3>2. none \in Seq(LegalCalls) /\ clerk' = [clerk EXCEPT ![u].calls = none] /\ transaction' = seen
      BY <2>8, <2>10, <3>1
    <3>3. DbAt(catalog') /\ DbAt(transaction')
      BY <2>7, <2>8, <3>2 DEF DbsAreDbs
    <3>4. QED
      BY <1>2, <3>2, <3>3
  <2>11. QED
    BY <2>9, <2>10
<1>7. ASSUME NEW u \in Clerks, TimesOut(u) PROVE DbsAreDbs'
  <2>1. PICK none : none = <<>>
    OBVIOUS
  <2>2. none \in Seq(LegalCalls) /\ clerk' = [clerk EXCEPT ![u].calls = none]
        /\ UNCHANGED <<catalog, transaction>>
    BY <1>7, <2>1 DEF TimesOut
  <2>3. DbAt(catalog') /\ DbAt(transaction')
    BY <2>2 DEF DbsAreDbs
  <2>4. QED
    BY <1>2, <2>2, <2>3
<1>8. ASSUME NEW u \in Clerks, Commit(u) PROVE DbsAreDbs'
  <2>1. /\ clerk' = [clerk EXCEPT ![u].did = NoCall] /\ transaction' = transaction
        /\ catalog' = transaction \/ catalog' = catalog
    BY <1>8 DEF Commit
  <2>2. \A v \in Clerks : clerk'[v].calls = clerk[v].calls
    BY <1>1, <2>1
  <2>3. QED
    BY <2>1, <2>2 DEF DbsAreDbs, DbAt
<1>9. ASSUME NEW c \in Connections, Disconnect(c) PROVE DbsAreDbs'
  <2>1. PICK rest : rest = [calls |-> <<>>, did |-> NoCall]
    OBVIOUS
  <2>2. rest.calls \in Seq(LegalCalls)
    BY <2>1
  <2>3. /\ clerk' = [u \in Clerks |-> IF ConnectionOf[u] = c THEN rest ELSE clerk[u]]
        /\ UNCHANGED <<catalog, transaction>>
    BY <1>9, <2>1 DEF Disconnect
  <2>4. QED
    BY <2>2, <2>3 DEF DbsAreDbs, DbAt
<1>10. CASE UNCHANGED catalogVars
  BY <1>10 DEF catalogVars, DbsAreDbs, DbAt
<1>11. QED
  BY <1>3, <1>4, <1>5, <1>6, <1>7, <1>8, <1>9, <1>10 DEF CatalogNext

\* store.py: the foreign keys, in the file and in the transaction that is open.
THEOREM CatalogTypeCorrect == CatalogSpec => []CatalogTypeOK
<1>1. CatalogInit => DbsAreDbs
  <2>1. DbAt(EmptyCatalog)
    BY CatalogAssumption DEF DbAt, DbFields, EmptyCatalog, CatalogAssumption
  <2>2. <<>> \in Seq(LegalCalls)
    OBVIOUS
  <2>3. ASSUME CatalogInit PROVE \A u \in Clerks : clerk[u].calls \in Seq(LegalCalls)
    BY <2>2, <2>3 DEF CatalogInit
  <2>4. ASSUME CatalogInit PROVE DbAt(catalog) /\ DbAt(transaction)
    <3>1. catalog = EmptyCatalog /\ transaction = EmptyCatalog
      BY <2>4 DEF CatalogInit
    <3>2. QED
      BY <2>1, <3>1
  <2>5. QED
    BY <2>3, <2>4 DEF DbsAreDbs
<1>2. CatalogInv /\ DbsAreDbs => CatalogTypeOK
  BY DEF CatalogInv, DbsAreDbs, DbAt, CatalogTypeOK
<1>3. QED
  BY <1>1, <1>2, CatalogInvInit, CatalogInvStep, DbsAreDbsStep, PTL DEF CatalogSpec

\* A behaviour of all records is one of each.
LEMMA RecordsRunEach ==
  RecordsSpec => /\ StorageSpec /\ JobSpec /\ AccountsSpec /\ TenantStoreSpec /\ CatalogSpec
                 /\ RagSpec /\ DriveSpec /\ BanSpec /\ LedgerSpec
<1>1. RecordsInit => /\ StorageInit /\ JobInit /\ AccountsInit /\ TenantStoreInit /\ CatalogInit
                     /\ RagInit /\ DriveInit /\ BanInit /\ LedgerInit
  BY DEF RecordsInit
<1>2. [RecordsNext]_vars => /\ [StorageNext]_storageVars /\ [JobNext]_jobVars /\ [AccountsNext]_accountVars
                            /\ [TenantStoreNext]_tenantStoreVars
  BY DEF RecordsNext, vars
<1>3. [RecordsNext]_vars => /\ [CatalogNext]_catalogVars /\ [RagNext]_ragVars /\ [DriveNext]_driveVars
                            /\ [BanNext]_banVars /\ [LedgerNext]_ledgerVars
  BY DEF RecordsNext, vars
<1> QED BY <1>1, <1>2, <1>3, PTL
        DEF RecordsSpec, StorageSpec, JobSpec, AccountsSpec, TenantStoreSpec, CatalogSpec,
            RagSpec, DriveSpec, BanSpec, LedgerSpec

\* The types of all that the services keep - documents, notes, accounts, tenants, the
\* catalog, chunks, backups, bans, the ledger - whichever is in focus.
THEOREM RecordsTypesAlways == RecordsSpec => []RecordsTypeOK
<1>1. StorageTypeOK /\ JobTypeOK /\ AccountsTypeOK /\ TenantStoreTypeOK /\ CatalogTypeOK
        /\ RagTypeOK /\ DriveTypeOK /\ BanTypeOK /\ LedgerTypeOK => RecordsTypeOK
  BY DEF RecordsTypeOK
<1> QED BY <1>1, RecordsRunEach, StorageTypeCorrect, JobTypeCorrect, AccountsTypeCorrect,
           TenantStoreTypeCorrect, CatalogTypeCorrect, RagTypeCorrect, DriveTypeCorrect,
           BanTypeCorrect, LedgerTypeCorrect, PTL
==============================================================================
