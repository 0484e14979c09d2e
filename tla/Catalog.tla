------------------------------- MODULE Catalog -------------------------------
(***************************************************************************)
(* brain/catalog/store.py: namespaces, schemas, tables, grants and lineage *)
(* in one SQLite file.  A process has one connection, shared by its        *)
(* threads: execute and commit each take the lock, and a statement of one  *)
(* thread is committed with the transaction of another.  SQLite lets one   *)
(* connection write at a time; another waits and then raises.              *)
(***************************************************************************)
EXTENDS Integers, Sequences, FiniteSets

CONSTANTS Clerks, ConnectionOf,   \* threads, and the process of each
          SchemaNames, Roles,
          MaxLineage, MaxRows,    \* bounds: lineage records, row counts
          MaxCalls                \* bound: calls, the bootstrap being one

GrantLevels == {"SELECT", "INSERT", "ALL"}
NoConnection == "no connection"
Connections == {ConnectionOf[u] : u \in Clerks}

ASSUME CatalogAssumption ==
  /\ MaxLineage \in Nat /\ MaxRows \in Nat /\ MaxCalls \in Nat
  /\ NoConnection \notin Connections
  /\ {"bronze", "gold"} \subseteq SchemaNames    \* which the bootstrap creates

VARIABLES catalog,      \* the committed file
          transaction,  \* what the writing connection sees
          writing,      \* the connection that holds the write lock
          clerk,        \* each thread: the calls it has left, and what it executed
          called,       \* calls so far
          acknowledged  \* namespaces, schemas and tables some returned call created

catalogVars == <<catalog, transaction, writing, clerk, called, acknowledged>>

EmptyCatalog == [namespace |-> FALSE, schemas |-> {}, tables |-> {},
                 rows |-> [s \in SchemaNames |-> 0], grants |-> {}, lineage |-> 0]

\* A call: what it does, to which schema, and the grant or row count it carries.
Call(what, s, x) == [what |-> what, schema |-> s, with |-> x]
NoCall == Call("none", "none", <<>>)

CatalogInit ==
  /\ catalog = EmptyCatalog /\ transaction = EmptyCatalog
  /\ writing = NoConnection
  /\ clerk = [u \in Clerks |-> [calls |-> <<>>, did |-> NoCall]]
  /\ called = 0
  /\ acknowledged = {}

\* What a connection sees.
View(c) == IF writing = c THEN transaction ELSE catalog

\* The foreign keys, which PRAGMA foreign_keys turns on.
Grounded(db, call) ==
  CASE call.what = "schema" -> db.namespace
    [] call.what = "table" -> call.schema \in db.schemas
    [] OTHER -> TRUE

\* INSERT OR IGNORE of a namespace, a schema, a grant; the upsert of a table;
\* UPDATE of the row that is there; DELETE of one grant; lineage only grows.
CreateNamespace(db)        == [db EXCEPT !.namespace = TRUE]
CreateSchema(db, s)        == [db EXCEPT !.schemas = @ \cup {s}]
RegisterTable(db, s)       == [db EXCEPT !.tables = @ \cup {s}, !.rows[s] = 0]
UpdateTableStats(db, s, n) == [db EXCEPT !.rows[s] = IF s \in db.tables THEN n ELSE @]
GrantAccess(db, grant)     == [db EXCEPT !.grants = @ \cup {grant}]
RevokeAccess(db, grant)    == [db EXCEPT !.grants = @ \ {grant}]
RecordLineage(db)          == [db EXCEPT !.lineage = @ + 1]

Applied(db, call) ==
  LET grant == <<call.schema>> \o call.with
  IN CASE call.what = "namespace" -> CreateNamespace(db)
       [] call.what = "schema"    -> CreateSchema(db, call.schema)
       [] call.what = "table"     -> RegisterTable(db, call.schema)
       [] call.what = "stats"     -> UpdateTableStats(db, call.schema, call.with[1])
       [] call.what = "grant"     -> GrantAccess(db, grant)
       [] call.what = "revoke"    -> RevokeAccess(db, grant)
       [] OTHER                   -> RecordLineage(db)

\* bootstrap_velaflow, whose grants are cut down to two roles' worth.
Bootstrap ==
  <<Call("namespace", "none", <<>>), Call("schema", "bronze", <<>>), Call("schema", "gold", <<>>),
    Call("grant", "gold", <<"free", "SELECT">>), Call("grant", "bronze", <<"standard", "INSERT">>)>>

Calls ==
  {Call("namespace", "none", <<>>)}
  \cup {Call(w, s, <<>>) : w \in {"schema", "table"}, s \in SchemaNames}
  \cup {Call("stats", s, <<n>>) : s \in SchemaNames, n \in 1..MaxRows}
  \cup {Call(w, s, <<r, l>>) : w \in {"grant", "revoke"}, s \in SchemaNames, r \in Roles, l \in {"SELECT", "ALL"}}
  \cup {Call("lineage", "none", <<>>)}
------------------------------------------------------------------------------
Begin(u, calls) ==
  /\ clerk[u].calls = <<>> /\ clerk[u].did = NoCall
  /\ called < MaxCalls
  /\ called' = called + 1
  /\ clerk' = [clerk EXCEPT ![u].calls = calls]
  /\ UNCHANGED <<catalog, transaction, writing, acknowledged>>

\* _execute: the connection takes the write lock if it has not got it.  When a
\* foreign key is missing the call raises, and the transaction it began stays open.
Execute(u) ==
  LET c == ConnectionOf[u]
      call == Head(clerk[u].calls)
  IN /\ clerk[u].calls # <<>> /\ clerk[u].did = NoCall
     /\ writing \in {c, NoConnection}
     /\ call.what = "lineage" => View(c).lineage < MaxLineage
     /\ writing' = c
     /\ IF Grounded(View(c), call)
        THEN /\ transaction' = Applied(View(c), call)
             /\ clerk' = [clerk EXCEPT ![u] = [calls |-> Tail(@.calls), did |-> call]]
        ELSE transaction' = View(c) /\ clerk' = [clerk EXCEPT ![u].calls = <<>>]
     /\ UNCHANGED <<catalog, called, acknowledged>>

\* The lock is not had within busy_timeout: the call raises and nothing changed.
TimesOut(u) ==
  /\ clerk[u].calls # <<>> /\ clerk[u].did = NoCall
  /\ writing \notin {ConnectionOf[u], NoConnection}
  /\ clerk' = [clerk EXCEPT ![u].calls = <<>>]
  /\ UNCHANGED <<catalog, transaction, writing, called, acknowledged>>

\* What a caller whose call created something may count on.
Created(call) == IF call.what \in {"namespace", "schema", "table"} THEN {<<call.what, call.schema>>} ELSE {}

\* Slip: the call returns without committing.
ReturnUncommitted(u) ==
  /\ clerk[u].did # NoCall
  /\ acknowledged' = acknowledged \cup Created(clerk[u].did)
  /\ clerk' = [clerk EXCEPT ![u].did = NoCall]
  /\ UNCHANGED <<catalog, transaction, writing, called>>

\* _commit: the transaction of the connection, whoever executed in it; nothing if
\* another thread of the process has committed it meanwhile.
Commit(u) ==
  /\ clerk[u].did # NoCall
  /\ IF writing = ConnectionOf[u]
     THEN catalog' = transaction /\ writing' = NoConnection
     ELSE UNCHANGED <<catalog, writing>>
  /\ acknowledged' = acknowledged \cup Created(clerk[u].did)
  /\ clerk' = [clerk EXCEPT ![u].did = NoCall]
  /\ UNCHANGED <<transaction, called>>

\* A process ends, and with it what its connection had not committed.
Disconnect(c) ==
  /\ writing' = IF writing = c THEN NoConnection ELSE writing
  /\ clerk' = [u \in Clerks |-> IF ConnectionOf[u] = c THEN [calls |-> <<>>, did |-> NoCall] ELSE clerk[u]]
  /\ UNCHANGED <<catalog, transaction, called, acknowledged>>
------------------------------------------------------------------------------
CatalogNext ==
  \/ \E u \in Clerks :
       \/ Begin(u, Bootstrap) \/ \E call \in Calls : Begin(u, <<call>>)
       \/ Execute(u) \/ TimesOut(u) \/ Commit(u)
  \/ \E c \in Connections : Disconnect(c)

CatalogSpec == CatalogInit /\ [][CatalogNext]_catalogVars
------------------------------------------------------------------------------
CatalogTypeOK ==
  /\ \A db \in {catalog, transaction} :
       /\ db.tables \subseteq db.schemas /\ db.schemas \subseteq SchemaNames
       /\ db.rows \in [SchemaNames -> 0..MaxRows] /\ db.lineage \in 0..MaxLineage
  /\ writing \in Connections \cup {NoConnection}

\* Docstrings "Thread-safe execute wrapper", "Thread-safe commit wrapper": although
\* execute and commit are two critical sections and threads finish each other's
\* transactions, what a returned call created is in the file, whoever crashes then.
ReturnedIsDurable ==
  \A x \in acknowledged :
    CASE x[1] = "namespace" -> catalog.namespace
      [] x[1] = "schema" -> x[2] \in catalog.schemas
      [] x[1] = "table" -> x[2] \in catalog.tables
==============================================================================
