----------------------------- MODULE SqlMedallion -----------------------------
(***************************************************************************)
(* brain/engine/processor.py on brain/engine/connection.py: the medallion  *)
(* tables in DuckDB, all tenants in one table of each layer.  Bronze only  *)
(* grows; silver and gold of a tenant are deleted and inserted anew, each  *)
(* statement committing by itself.  A version of a record is its batch and *)
(* its place in it; the place Blank has no content.                        *)
(***************************************************************************)
EXTENDS Integers, FiniteSets, FiniteSetsExt

CONSTANTS SqlTenants, RecordIds, Places, Blank,
          MaxBatches      \* bound: batches ingested

ASSUME SqlAssumption ==
  IsFiniteSet(RecordIds) /\ IsFiniteSet(Places) /\ Blank \in Places /\ MaxBatches \in Nat

VARIABLES bronzeRows,  \* the versions in bronze_tasks of each tenant's records
          silverRows,  \* the version of each record in silver_tasks
          goldRows,    \* the records in gold_scored_tasks, and their versions
          batches,     \* batches so far, which is also the clock
          step,        \* the statement after which the process is: "between" two
          fresh,       \* tenants whose silver was derived after their last batch
          stats        \* the catalog's row count of each layer

sqlVars == <<bronzeRows, silverRows, goldRows, batches, step, fresh, stats>>

Versions == (1..MaxBatches) \X Places
NoVersion == <<0, Blank>>
NoRecords == [r \in RecordIds |-> NoVersion]

Held(table) == {r \in RecordIds : table[r] # NoVersion}

SqlInit ==
  /\ bronzeRows = [t \in SqlTenants |-> [r \in RecordIds |-> {}]]
  /\ silverRows = [t \in SqlTenants |-> NoRecords]
  /\ goldRows = [t \in SqlTenants |-> NoRecords]
  /\ batches = 0
  /\ step = [do |-> "none"]
  /\ fresh = {}
  /\ stats = [bronze |-> 0, silver |-> 0, gold |-> 0]

Between == step.do = "none"
------------------------------------------------------------------------------
\* bronze_ingest: a batch may hold a record twice.  The count that goes to the
\* catalog is the tenant's, for a table that is everybody's.
BronzeIngest(t, records) ==
  LET rows == [bronzeRows EXCEPT ![t] = [r \in RecordIds |-> @[r] \cup {<<batches + 1, p>> : p \in records[r]}]]
  IN /\ Between
     /\ batches < MaxBatches
     /\ \E r \in RecordIds : records[r] # {}
     /\ batches' = batches + 1
     /\ bronzeRows' = rows
     /\ fresh' = fresh \ {t}
     /\ stats' = [stats EXCEPT !.bronze = Cardinality({x \in RecordIds \X Versions : x[2] \in rows[t][x[1]]})]
     /\ UNCHANGED <<silverRows, goldRows, step>>

\* silver_transform: the DELETE; the INSERT that follows it is SilverInsert.
SilverDelete(t) ==
  /\ Between
  /\ silverRows' = [silverRows EXCEPT ![t] = NoRecords]
  /\ fresh' = fresh \ {t}
  /\ step' = [do |-> "silver", tenant |-> t]
  /\ UNCHANGED <<bronzeRows, goldRows, batches, stats>>

\* Rows the newest batch of which are the first of ROW_NUMBER, in any order.
Newest(rows) == {v \in rows : \A w \in rows : v[1] >= w[1]}

\* Slip: the empty records are dropped after the ranking.
RankedBlanks(rows) == {v \in Newest(rows) : v[2] # Blank}

\* The inner WHERE drops rows with no content, the outer one keeps the first.
Ranked(rows) == Newest({v \in rows : v[2] # Blank})

\* What dedup may leave of each record, ties being decided by the engine.
Deduplicated(t) ==
  {f \in [RecordIds -> Versions \cup {NoVersion}] :
     \A r \in RecordIds :
       IF Ranked(bronzeRows[t][r]) = {} THEN f[r] = NoVersion ELSE f[r] \in Ranked(bronzeRows[t][r])}

SilverInsert ==
  /\ step.do = "silver"
  /\ \E f \in Deduplicated(step.tenant) :
       /\ silverRows' = [silverRows EXCEPT ![step.tenant] = f]
       /\ stats' = [stats EXCEPT !.silver = Cardinality(Held(f))]
  /\ fresh' = fresh \cup {step.tenant}
  /\ step' = [do |-> "none"]
  /\ UNCHANGED <<bronzeRows, goldRows, batches>>

\* gold_enrich: the caller scores what silver_query returned and hands it back.
GoldDelete(t) ==
  /\ Between
  /\ goldRows' = [goldRows EXCEPT ![t] = NoRecords]
  /\ step' = [do |-> "gold", tenant |-> t, scored |-> silverRows[t]]
  /\ UNCHANGED <<bronzeRows, silverRows, batches, fresh, stats>>

GoldInsert ==
  /\ step.do = "gold"
  /\ goldRows' = [goldRows EXCEPT ![step.tenant] = step.scored]
  /\ stats' = [stats EXCEPT !.gold = Cardinality(Held(step.scored))]
  /\ step' = [do |-> "none"]
  /\ UNCHANGED <<bronzeRows, silverRows, batches, fresh>>

\* The process dies between the DELETE and the INSERT.
Interrupted ==
  /\ ~Between
  /\ step' = [do |-> "none"]
  /\ UNCHANGED <<bronzeRows, silverRows, goldRows, batches, fresh, stats>>
------------------------------------------------------------------------------
SqlNext ==
  \/ \E t \in SqlTenants :
       \/ \E records \in [RecordIds -> SUBSET Places] : BronzeIngest(t, records)
       \/ SilverDelete(t) \/ GoldDelete(t)
  \/ SilverInsert \/ GoldInsert \/ Interrupted

SqlSpec == SqlInit /\ [][SqlNext]_sqlVars
------------------------------------------------------------------------------
SqlTypeOK ==
  /\ bronzeRows \in [SqlTenants -> [RecordIds -> SUBSET Versions]]
  /\ silverRows \in [SqlTenants -> [RecordIds -> Versions \cup {NoVersion}]]
  /\ goldRows \in [SqlTenants -> [RecordIds -> Versions \cup {NoVersion}]]
  /\ batches \in 0..MaxBatches /\ fresh \subseteq SqlTenants
  /\ \A layer \in DOMAIN stats : stats[layer] \in Nat

\* Comment of silver_transform: "Deduplicate: keep latest record per task ID per
\* tenant".  Once a tenant's transform has run, interrupted ones before it or not,
\* every record that ever had content has one version, the latest with content,
\* until the tenant's next batch, whatever the other tenants do.
SilverIsLatest ==
  \A t \in fresh, r \in RecordIds :
    LET full == {v \in bronzeRows[t][r] : v[2] # Blank}
    IN /\ silverRows[t][r] = NoVersion <=> full = {}
       /\ full # {} => silverRows[t][r] \in full /\ silverRows[t][r][1] = Max({v[1] : v \in full})
==============================================================================
