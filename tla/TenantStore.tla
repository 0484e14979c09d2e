----------------------------- MODULE TenantStore -----------------------------
(***************************************************************************)
(* The tenant records: brain/tenant/manager.py, its callers in             *)
(* api/routes/tenants.py and billing.py, and the demo accounts of          *)
(* tenant/demo_manager.py.  Every operation reads a whole record, changes  *)
(* its copy and writes the copy back; the processes of a deployment, and   *)
(* the pool threads of the demo routes, do so without a lock.              *)
(***************************************************************************)
EXTENDS Integers, Sequences, FiniteSets

CONSTANTS Offices,      \* the threads that serve tenant operations
          TenantIds,    \* bound: the tenant ids that can be drawn
          Subs,         \* Google subjects
          Layers,       \* the partitions: bronze, silver, gold, runs, vault
          MaxOps,       \* bound: requests served
          MaxEvents     \* bound: the length of a demo's event log

NoOne == "none"
Tiers == {"standard", "vip"}     \* those that are paid for; premium is like vip

\* create_tenant makes these partitions; a vault appears with its first key.
Markers == Layers \ {"vault"}

ASSUME TenantStoreAssumption ==
  /\ NoOne \notin Subs
  /\ MaxOps \in Nat /\ MaxEvents \in Nat

VARIABLES record,     \* tenants/{id}.json
          stored,     \* the partitions that hold documents, per tenant
          events,     \* tenants/{id}/demo_events.jsonl: its lines
          work,       \* what each thread has read and still has to do
          requests    \* requests begun

tenantStoreVars == <<record, stored, events, work, requests>>

NoRecord == [tier |-> NoOne, owner |-> NoOne, secret |-> NoOne, active |-> FALSE,
             demo |-> FALSE, subscription |-> FALSE]

NewRecord(tier) == [NoRecord EXCEPT !.tier = tier, !.active = TRUE]

Rest == [todo |-> <<>>, tenant |-> NoOne]

\* The synthetic subject of a demo account, "demo:{tenant_id}".
DemoSub == "demo"

TenantStoreInit ==
  /\ record = [t \in TenantIds |-> NoRecord]
  /\ stored = [t \in TenantIds |-> {}]
  /\ events = [t \in TenantIds |-> <<>>]
  /\ work = [o \in Offices |-> Rest]
  /\ requests = 0
------------------------------------------------------------------------------
\* A request for the operation named `line` arrives: the record's id, what it
\* has to do and with which tier or subject.
Request(o, line, t, steps, tier, sub) ==
  /\ work[o] = Rest
  /\ requests < MaxOps
  /\ requests' = requests + 1
  /\ work' = [work EXCEPT ![o] = [todo |-> steps, tenant |-> t, tier |-> tier, sub |-> sub,
                                  copy |-> NewRecord(tier), line |-> line, read |-> FALSE]]
  /\ UNCHANGED <<record, stored, events>>

\* _generate_tenant_id: an id nobody has.
Fresh(t) == record[t] = NoRecord /\ stored[t] = {} /\ \A o \in Offices : work[o].tenant # t
Known(t) == record[t] # NoRecord

\* POST /tenants: always a free tenant.
RegisterTenant(o, t) ==
  Fresh(t) /\ Request(o, "register", t, <<"mark", "keep">>, "free", NoOne)

\* POST /demos: a vip tenant, then its demo fields, then, if a token came with
\* the request, a synthetic owner and the token, and a line in its log.
CreateDemo(o, t, token) ==
  /\ Fresh(t)
  /\ Request(o, "demo_created", t,
             IF token THEN <<"mark", "keep", "demo", "bind", "secret", "log">> ELSE <<"mark", "keep", "demo", "log">>,
             "vip", DemoSub)

\* Stripe: a completed checkout sets the tier, then saves the returned object
\* with its subscription; a deleted subscription makes the tenant free again.
CheckoutCompleted(o, t, tier) == Known(t) /\ Request(o, "checkout", t, <<"tier", "again">>, tier, NoOne)
SubscriptionDeleted(o, t) == Known(t) /\ Request(o, "deleted", t, <<"tier">>, "free", NoOne)

\* PATCH /tenants/me/config: with a credential, or preferences only.
UpdateTenantConfig(o, t, credential) ==
  Known(t) /\ Request(o, "config", t, <<IF credential THEN "secret" ELSE "plain">>, "free", NoOne)

\* bind_owner_sub, which a first Google login calls.
FirstBinding(o, t, sub) == Known(t) /\ Request(o, "bind", t, <<"bind">>, "free", sub)

\* POST /demos/{id}/check-expiry of a demo past its date: the log, then
\* deactivate_tenant.
ExpireDemo(o, t) ==
  /\ Known(t) /\ record[t].demo
  /\ Request(o, "demo_expired", t, <<"log", "off", "clean">>, "free", NoOne)
------------------------------------------------------------------------------
OnStep(o, step) == work[o] # Rest /\ Head(work[o].todo) = step

\* The current step is done with the copy it leaves; the request with its last.
Advance(o, copy) ==
  LET w == work[o]
  IN work' = [work EXCEPT ![o] = IF Len(w.todo) = 1 THEN Rest
                                 ELSE [w EXCEPT !.todo = Tail(w.todo), !.copy = copy, !.read = FALSE]]
Abort(o) == work' = [work EXCEPT ![o] = Rest]

\* create_tenant: the partition markers, before the record.
MarkPartitions(o) ==
  /\ OnStep(o, "mark")
  /\ stored' = [stored EXCEPT ![work[o].tenant] = @ \cup Markers]
  /\ Advance(o, work[o].copy)
  /\ UNCHANGED <<record, events, requests>>

\* _save_tenant of the object at hand: a new tenant, or (stripe_webhook) the one
\* update_tier returned, now with its subscription.
SaveCopy(o) ==
  LET w == work[o]
      rec == IF OnStep(o, "again") THEN [w.copy EXCEPT !.subscription = TRUE] ELSE w.copy
  IN /\ OnStep(o, "keep") \/ OnStep(o, "again")
     /\ record' = [record EXCEPT ![w.tenant] = rec]
     /\ Advance(o, rec)
     /\ UNCHANGED <<stored, events, requests>>

Updates == {"tier", "secret", "plain", "bind", "off", "demo"}

\* get_tenant; update_config refuses a credential without an owner and
\* bind_owner_sub another subject, and rebinding the same one writes nothing.
\* create_demo goes on without its fields when the record cannot be read.
ReadRecord(o) ==
  LET w == work[o]
      rec == record[w.tenant]
      step == Head(w.todo)
  IN /\ w # Rest
     /\ step \in Updates /\ ~w.read
     /\ \/ /\ step = "demo"
           /\ Advance(o, w.copy)
        \/ IF \/ step = "secret" /\ rec.owner = NoOne
              \/ step = "bind" /\ rec.owner \notin {NoOne, w.sub}
           THEN Abort(o)
           ELSE IF step = "bind" /\ rec.owner = w.sub THEN Advance(o, w.copy)
           ELSE work' = [work EXCEPT ![o] = [w EXCEPT !.read = TRUE, !.copy = rec]]
     /\ UNCHANGED <<record, stored, events, requests>>

\* What each update makes of the copy: update_tier; update_config, which encrypts
\* a credential for the tenant and the copy's owner; bind_owner_sub;
\* deactivate_tenant, which wipes the credentials; the fields of create_demo.
WithTier(rec, tier)  == [rec EXCEPT !.tier = tier]
WithCredential(rec)  == [rec EXCEPT !.secret = rec.owner]
WithOwner(rec, sub)  == [rec EXCEPT !.owner = sub]
Deactivated(rec)     == [rec EXCEPT !.active = FALSE, !.secret = NoOne]
WithDemoFields(rec)  == [rec EXCEPT !.demo = TRUE]

Updated(step, rec, tier, sub) ==
  CASE step = "tier"   -> WithTier(rec, tier)
    [] step = "secret" -> WithCredential(rec)
    [] step = "bind"   -> WithOwner(rec, sub)
    [] step = "off"    -> Deactivated(rec)
    [] step = "demo"   -> WithDemoFields(rec)
    [] OTHER           -> rec

\* Slip: what was changed is merged into the record as it is by now.
WriteMerged(o) ==
  LET w == work[o]
  IN /\ w # Rest /\ w.read /\ Head(w.todo) \in Updates
     /\ LET step == Head(w.todo)
            rec == Updated(step, w.copy, w.tier, w.sub)
            now == record[w.tenant]
            merged == [now EXCEPT !.owner = IF step = "bind" THEN w.sub ELSE now.owner,
                                  !.secret = IF step = "secret" THEN w.copy.owner ELSE now.secret,
                                  !.active = rec.active /\ now.active]
        IN record' = [record EXCEPT ![w.tenant] = merged] /\ Advance(o, rec)
     /\ UNCHANGED <<stored, events, requests>>

\* _save_tenant, _save_tenant_data: the whole copy replaces the record.
WriteRecord(o) ==
  LET w == work[o]
  IN /\ w # Rest /\ w.read /\ Head(w.todo) \in Updates
     /\ LET rec == Updated(Head(w.todo), w.copy, w.tier, w.sub)
        IN record' = [record EXCEPT ![w.tenant] = rec] /\ Advance(o, rec)
     /\ UNCHANGED <<stored, events, requests>>

\* deactivate_tenant: list and delete, one partition after the other.
CleanPartition(o) ==
  LET t == work[o].tenant
  IN /\ OnStep(o, "clean")
     /\ IF stored[t] = {} THEN Abort(o) /\ UNCHANGED stored
        ELSE \E l \in stored[t] : stored' = [stored EXCEPT ![t] = @ \ {l}] /\ UNCHANGED work
     /\ UNCHANGED <<record, events, requests>>

\* _log_event: the file is read, an error counting as an empty file, ...
ReadLog(o) ==
  /\ OnStep(o, "log") /\ ~work[o].read
  /\ \E old \in {events[work[o].tenant], <<>>} :
       work' = [work EXCEPT ![o] = [work[o] EXCEPT !.read = TRUE, !.copy = old]]
  /\ UNCHANGED <<record, stored, events, requests>>

\* ... and written again with one more line.
WriteLog(o) ==
  LET w == work[o]
  IN /\ OnStep(o, "log") /\ w.read
     /\ Len(w.copy) < MaxEvents
     /\ events' = [events EXCEPT ![w.tenant] = Append(w.copy, w.line)]
     /\ Advance(o, NoRecord)
     /\ UNCHANGED <<record, stored, requests>>

\* The tenant's pipeline or vault writes a document; its token outlives it.
StoreData(t, l) ==
  /\ record[t] # NoRecord
  /\ l \notin stored[t]
  /\ stored' = [stored EXCEPT ![t] = @ \cup {l}]
  /\ UNCHANGED <<record, events, work, requests>>

OfficeDies(o) ==
  /\ work[o] # Rest
  /\ Abort(o)
  /\ UNCHANGED <<record, stored, events, requests>>

TenantStoreNext ==
  \/ \E o \in Offices, t \in TenantIds :
       \/ RegisterTenant(o, t) \/ SubscriptionDeleted(o, t) \/ ExpireDemo(o, t)
       \/ \E flag \in BOOLEAN : CreateDemo(o, t, flag) \/ UpdateTenantConfig(o, t, flag)
       \/ \E tier \in Tiers : CheckoutCompleted(o, t, tier)
       \/ \E sub \in Subs : FirstBinding(o, t, sub)
  \/ \E o \in Offices :
       \/ MarkPartitions(o) \/ SaveCopy(o) \/ ReadRecord(o) \/ WriteRecord(o)
       \/ CleanPartition(o) \/ ReadLog(o) \/ WriteLog(o) \/ OfficeDies(o)
  \/ \E t \in TenantIds, l \in Layers : StoreData(t, l)

TenantStoreSpec == TenantStoreInit /\ [][TenantStoreNext]_tenantStoreVars
------------------------------------------------------------------------------
Records == [tier : Tiers \cup {"free", NoOne}, owner : Subs \cup {NoOne} \cup {DemoSub},
            secret : Subs \cup {NoOne} \cup {DemoSub},
            active : BOOLEAN, demo : BOOLEAN, subscription : BOOLEAN]

TenantStoreTypeOK ==
  /\ record \in [TenantIds -> Records]
  /\ stored \in [TenantIds -> SUBSET Layers]
  /\ \A t \in TenantIds : Len(events[t]) <= MaxEvents

\* bind_owner_sub: "refuses to overwrite a different sub because doing so would
\* orphan every encrypted credential".  Two first logins may both bind, and the
\* later write wins; yet no credential is ever kept in a record that names
\* another owner than it was sealed for, because records are written whole.
SealedForOwner == \A t \in TenantIds : record[t].secret \in {NoOne, record[t].owner}

\* deactivate_tenant: "Soft-delete a tenant"; nothing ever activates one again.
DeactivationHolds ==
  [][\A t \in TenantIds : record[t].tier # NoOne /\ ~record[t].active => ~record'[t].active]_tenantStoreVars
==============================================================================
