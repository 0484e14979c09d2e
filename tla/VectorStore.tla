----------------------------- MODULE VectorStore -----------------------------
(***************************************************************************)
(* brain/rag.py and brain/api/routes/rag.py: documents of several tenants  *)
(* in one table.  The primary key of a chunk is a hash of the document's   *)
(* id and the chunk's index, without the tenant.  Request threads each     *)
(* open a connection; every statement commits by itself.                   *)
(***************************************************************************)
EXTENDS Integers, FiniteSets

CONSTANTS RagThreads, RagTenants, DocIds,
          MaxDocuments,  \* the limit the caller passes to ingest; 0 is no limit
          MaxChunks,     \* bound: chunks of a document
          MaxIngests     \* bound: ingestions

NoTenant == "nobody"

ASSUME RagAssumption ==
  /\ NoTenant \notin RagTenants
  /\ IsFiniteSet(RagThreads)
  /\ MaxDocuments \in Nat /\ MaxChunks \in Nat \ {0} /\ MaxIngests \in Nat

Indexes == 0..MaxChunks - 1

VARIABLES ragRows,   \* rag_chunks: for each document id and index, owner and text
          ingesting, \* what each thread is storing
          ingests    \* ingestions begun; the text of a document is its number

ragVars == <<ragRows, ingesting, ingests>>

NoRow == [owner |-> NoTenant, text |-> 0]

NotIngesting == [on |-> FALSE, owner |-> NoTenant, doc |-> "none", text |-> 0, size |-> 0, next |-> 0]

RagInit ==
  /\ ragRows = [d \in DocIds |-> [i \in Indexes |-> NoRow]]
  /\ ingesting = [u \in RagThreads |-> NotIngesting]
  /\ ingests = 0

\* The documents some row of which is the tenant's: SELECT COUNT(DISTINCT document_id).
DocsOf(t) == {d \in DocIds : \E i \in Indexes : ragRows[d][i].owner = t}
CountDocuments(t) == Cardinality(DocsOf(t))

\* Slip: the limit compared with the wrong relation.
WithinLoosely(t) == MaxDocuments > 0 => CountDocuments(t) <= MaxDocuments

WithinQuota(t) == MaxDocuments > 0 => CountDocuments(t) < MaxDocuments
------------------------------------------------------------------------------
\* ingest: the quota is looked at before the text is cut and embedded, and also
\* when the document is there already.  A text of blanks has no chunk.
Admit(u, t, d, size) ==
  /\ ~ingesting[u].on
  /\ ingests < MaxIngests
  /\ WithinQuota(t)
  /\ ingests' = ingests + 1
  /\ ingesting' = [ingesting EXCEPT ![u] =
       [on |-> size > 0, owner |-> t, doc |-> d, text |-> ingests + 1, size |-> size, next |-> 0]]
  /\ UNCHANGED ragRows

\* One INSERT OR REPLACE of store_chunks.  The key names no tenant: another's row
\* of the same document id is replaced.
StoreChunk(u) ==
  LET w == ingesting[u]
  IN /\ w.on
     /\ ragRows' = [ragRows EXCEPT ![w.doc][w.next] = [owner |-> w.owner, text |-> w.text]]
     /\ ingesting' = [ingesting EXCEPT ![u] =
          IF w.next + 1 = w.size THEN NotIngesting ELSE [w EXCEPT !.next = @ + 1]]
     /\ UNCHANGED ingests

\* A statement fails or the process dies: the chunks stored so far stay.
IngestBreaks(u) ==
  /\ ingesting[u].on
  /\ ingesting' = [ingesting EXCEPT ![u] = NotIngesting]
  /\ UNCHANGED <<ragRows, ingests>>

\* The tenant's rows of these documents are deleted.
Without(t, docs) ==
  [d \in DocIds |-> [i \in Indexes |-> IF d \in docs /\ ragRows[d][i].owner = t THEN NoRow ELSE ragRows[d][i]]]

DeleteDocument(t, doc) ==
  /\ doc \in DocsOf(t)
  /\ ragRows' = Without(t, {doc})
  /\ UNCHANGED <<ingesting, ingests>>

\* purge_tenant, which nothing in the deactivation of a tenant calls.
PurgeTenant(t) ==
  /\ DocsOf(t) # {}
  /\ ragRows' = Without(t, DocIds)
  /\ UNCHANGED <<ingesting, ingests>>
------------------------------------------------------------------------------
RagNext ==
  \/ \E u \in RagThreads :
       \/ \E t \in RagTenants, d \in DocIds, size \in 0..MaxChunks : Admit(u, t, d, size)
       \/ StoreChunk(u) \/ IngestBreaks(u)
  \/ \E t \in RagTenants : PurgeTenant(t) \/ \E d \in DocIds : DeleteDocument(t, d)

RagSpec == RagInit /\ [][RagNext]_ragVars
------------------------------------------------------------------------------
RagTypeOK ==
  /\ ragRows \in [DocIds -> [Indexes -> [owner : RagTenants \cup {NoTenant}, text : 0..MaxIngests]]]
  /\ \A u \in RagThreads :
       /\ ingesting[u].doc \in DocIds \cup {"none"} /\ ingesting[u].size \in 0..MaxChunks
       /\ ingesting[u].on => ingesting[u].next < ingesting[u].size
  /\ ingests \in 0..MaxIngests

\* ingest's docstring: "PermissionError: If document quota exceeded".  The count is
\* read before the chunks are stored, so requests in flight together may pass it,
\* but never by more than their number less one, however ingestions, failures
\* half-way, deletions and other tenants' replacements interleave.
QuotaSlack ==
  MaxDocuments > 0 =>
    \A t \in RagTenants : CountDocuments(t) <= MaxDocuments + Cardinality(RagThreads) - 1

\* RAGPipeline's docstring: "with tenant-scoped collections".  Storing a chunk for
\* one tenant takes no document from another.
DocumentsStay ==
  [][\A t \in RagTenants, u \in RagThreads :
       StoreChunk(u) /\ ingesting[u].owner # t => DocsOf(t)' = DocsOf(t)]_ragVars
==============================================================================
