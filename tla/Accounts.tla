------------------------------- MODULE Accounts -------------------------------
(***************************************************************************)
(* Sign-in, invites and user administration: brain/api/routes/auth.py with *)
(* brain/tenant/user_manager.py and the tokens of brain/api/auth.py.  A    *)
(* handler has no await, so each API process does one at a time; between   *)
(* two accesses of one process to the storage another process may act.     *)
(***************************************************************************)
EXTENDS Integers, FiniteSets

CONSTANTS Servers,        \* the API processes
          People,         \* Google subjects, each with one address
          UserIds,        \* bound: the user ids that can be drawn
          Invites,        \* bound: the invite codes that can be drawn
          Homes,          \* bound: the tenants there can be
          PlatformOwner,  \* the person of VELAFLOW_OWNER_EMAIL
          TokenLife,      \* _DEFAULT_EXPIRY_SECONDS, in ticks
          LastTick,       \* bound on the clock
          MaxChanges      \* bound: administrative changes and crashes

Nobody == "nobody"
NoUser == "no user"
NoToken == -1
UserRoles == {"owner", "member"}     \* "admin" acts as "owner" does here, "viewer" and "demo" as "member"
Credentialed == {"owner"}

ASSUME AccountsAssumption ==
  /\ PlatformOwner \in People /\ Nobody \notin People
  /\ TokenLife \in Nat /\ LastTick \in Nat /\ MaxChanges \in Nat

VARIABLES userRec,     \* users/{id}.json
          subIndex,    \* users/_index.json: subject to user id
          invite,      \* invites/{code}.json
          homeRec,     \* tenants/{id}.json: made, owner_google_sub, is_active, whose address
          handler,     \* what each process is doing, with what it has read
          tokenEnd,    \* the latest expiry among the tokens of each user
          clock,
          changes,     \* changes and crashes so far
          lastActive   \* history: when each user's record was last active

accountVars == <<userRec, subIndex, invite, homeRec, handler, tokenEnd, clock, changes, lastActive>>

Idle == [at |-> "idle"]

NoRec == [sub |-> Nobody, home |-> Nobody, role |-> Nobody, active |-> FALSE]

NoHome == [made |-> FALSE, owner |-> Nobody, active |-> FALSE, email |-> Nobody]

AccountsInit ==
  /\ userRec = [u \in UserIds |-> NoRec]
  /\ subIndex = [s \in People |-> NoUser]
  /\ invite = [i \in Invites |-> [status |-> "none"]]
  /\ homeRec = [t \in Homes |-> NoHome]
  /\ handler = [p \in Servers |-> Idle]
  /\ tokenEnd = [u \in UserIds |-> NoToken]
  /\ clock = 0
  /\ changes = 0
  /\ lastActive = [u \in UserIds |-> NoToken]

At(p, label) == handler[p].at = label
Reply(p) == handler' = [handler EXCEPT ![p] = Idle]
Go(p, h) == handler' = [handler EXCEPT ![p] = h]

\* _save_user: the whole record, as the process holds it.
SaveUser(u, rec) ==
  /\ userRec' = [userRec EXCEPT ![u] = rec]
  /\ lastActive' = [lastActive EXCEPT ![u] = IF rec.active \/ userRec[u].active
                                              THEN clock ELSE @]

\* create_access_token, from the records at hand.
IssueToken(u) == tokenEnd' = [tokenEnd EXCEPT ![u] = clock + TokenLife]
------------------------------------------------------------------------------
\* google_login, the identity being verified: index, then record.
Lookup(p, s, i, welcome) ==
  LET u == subIndex[s]
  IN /\ At(p, "idle")
     /\ IF u = NoUser
        THEN Go(p, [at |-> IF i \in Invites THEN "invited" ELSE "uninvited", sub |-> s, code |-> i])
        ELSE u \in welcome /\ Go(p, [at |-> "known", user |-> u, rec |-> userRec[u]])
     /\ UNCHANGED <<userRec, subIndex, invite, homeRec, tokenEnd, clock, lastActive, changes>>

IsActive(u) == userRec[u].active

\* Slip: no test of is_active.
FindAnyUser(p, s, i) == Lookup(p, s, i, UserIds)

FindUser(p, s, i) == Lookup(p, s, i, {u \in UserIds : IsActive(u)})

\* record_login, then a token unless the tenant is gone or inactive.
LoginKnown(p) ==
  LET h == handler[p]
  IN /\ At(p, "known")
     /\ SaveUser(h.user, h.rec)
     /\ IF homeRec[h.rec.home].active THEN IssueToken(h.user) ELSE UNCHANGED tokenEnd
     /\ Reply(p)
     /\ UNCHANGED <<subIndex, invite, homeRec, clock, changes>>

\* redeem_invite: the code must be open and of this address.
ReadInvite(p) ==
  LET h == handler[p]
  IN /\ At(p, "invited")
     /\ IF invite[h.code].status = "open" /\ invite[h.code].for = h.sub
        THEN Go(p, [at |-> "redeem", sub |-> h.sub, code |-> h.code, data |-> invite[h.code]])
        ELSE Reply(p)
     /\ UNCHANGED <<userRec, subIndex, invite, homeRec, tokenEnd, clock, lastActive, changes>>

\* Mark as used; the data read, not the record, says where the user belongs.
Redeem(p, mark) ==
  LET h == handler[p]
  IN /\ At(p, "redeem")
     /\ invite' = [invite EXCEPT ![h.code] = [h.data EXCEPT !.status = mark]]
     /\ Go(p, [at |-> "create", sub |-> h.sub, home |-> h.data.home, role |-> h.data.role])
     /\ UNCHANGED <<userRec, subIndex, homeRec, tokenEnd, clock, lastActive, changes>>

\* Slip: the invite is left as it is.
RedeemNothing(p) == Redeem(p, "open")

RedeemInvite(p) == Redeem(p, "used")

\* Without an invite only the platform owner gets in, to a tenant of that
\* address, which is made if there is none.
ProvisionOwner(p) ==
  LET h == handler[p]
      Owned == {t \in Homes : homeRec[t].email = PlatformOwner}
  IN /\ At(p, "uninvited")
     /\ IF h.sub # PlatformOwner THEN Reply(p) /\ UNCHANGED homeRec
        ELSE \E t \in Homes :
               /\ IF Owned # {} THEN t \in Owned /\ UNCHANGED homeRec
                  ELSE /\ ~homeRec[t].made
                       /\ homeRec' = [homeRec EXCEPT ![t] =
                            [made |-> TRUE, owner |-> Nobody, active |-> TRUE, email |-> PlatformOwner]]
               /\ Go(p, [at |-> "create", sub |-> h.sub, home |-> t, role |-> "owner"])
     /\ UNCHANGED <<userRec, subIndex, invite, tokenEnd, clock, lastActive, changes>>

\* create_user: a fresh record, ...
CreateUser(p) ==
  LET h == handler[p]
      rec == [sub |-> h.sub, home |-> h.home, role |-> h.role, active |-> TRUE]
  IN /\ At(p, "create")
     /\ \E u \in UserIds :
          /\ userRec[u] = NoRec
          /\ SaveUser(u, rec)
          /\ Go(p, [at |-> "index", user |-> u, rec |-> rec])
     /\ UNCHANGED <<subIndex, invite, homeRec, tokenEnd, clock, changes>>

\* ... then _update_index.  Its lock belongs to a manager made for this request.
ReadIndex(p) ==
  /\ At(p, "index")
  /\ Go(p, [at |-> "reindex", user |-> handler[p].user, rec |-> handler[p].rec, index |-> subIndex])
  /\ UNCHANGED <<userRec, subIndex, invite, homeRec, tokenEnd, clock, lastActive, changes>>

WriteIndex(p) ==
  LET h == handler[p]
  IN /\ At(p, "reindex")
     /\ subIndex' = [h.index EXCEPT ![h.rec.sub] = h.user]
     /\ Go(p, [at |-> "first", user |-> h.user, rec |-> h.rec])
     /\ UNCHANGED <<userRec, invite, homeRec, tokenEnd, clock, lastActive, changes>>

\* record_login of the new user; bind_owner_sub reads the tenant of an owner or
\* admin, refuses another subject than the one bound and leaves the same one.
FirstLogin(p) ==
  LET h == handler[p]
      home == homeRec[h.rec.home]
  IN /\ At(p, "first")
     /\ SaveUser(h.user, h.rec)
     /\ IF h.rec.role \in Credentialed /\ home.made /\ home.owner = Nobody
        THEN Go(p, [at |-> "bind", user |-> h.user, rec |-> h.rec, tenant |-> home]) /\ UNCHANGED tokenEnd
        ELSE IssueToken(h.user) /\ Reply(p)
     /\ UNCHANGED <<subIndex, invite, homeRec, clock, changes>>

\* The tenant record is written back as read, but for its owner.
BindOwner(p) ==
  LET h == handler[p]
  IN /\ At(p, "bind")
     /\ homeRec' = [homeRec EXCEPT ![h.rec.home] = [h.tenant EXCEPT !.owner = h.rec.sub]]
     /\ IssueToken(h.user)
     /\ Reply(p)
     /\ UNCHANGED <<userRec, subIndex, invite, clock, lastActive, changes>>
------------------------------------------------------------------------------
\* create_invite: one document.
CreateInvite(i, t, s, r) ==
  /\ invite[i].status = "none"
  /\ homeRec[t].made
  /\ invite' = [invite EXCEPT ![i] = [status |-> "open", home |-> t, for |-> s, role |-> r]]
  /\ UNCHANGED <<userRec, subIndex, homeRec, handler, tokenEnd, clock, lastActive, changes>>

\* update_user_role and deactivate_user read a record ...
AdminReads(p, u, changed) ==
  /\ At(p, "idle")
  /\ userRec[u] # NoRec
  /\ Go(p, [at |-> "admin", user |-> u, rec |-> changed])
  /\ changes < MaxChanges
  /\ changes' = changes + 1
  /\ UNCHANGED <<userRec, subIndex, invite, homeRec, tokenEnd, clock, lastActive>>

UpdateRole(p, u, r) == AdminReads(p, u, [userRec[u] EXCEPT !.role = r])
DeactivateUser(p, u) == AdminReads(p, u, [userRec[u] EXCEPT !.active = FALSE])

\* ... and write it back.
AdminWrites(p) ==
  /\ At(p, "admin")
  /\ SaveUser(handler[p].user, handler[p].rec)
  /\ Reply(p)
  /\ UNCHANGED <<subIndex, invite, homeRec, tokenEnd, clock, changes>>

\* A tenant is switched off elsewhere (TenantStore).
HomeOff(t) ==
  /\ homeRec[t].active
  /\ homeRec' = [homeRec EXCEPT ![t].active = FALSE]
  /\ changes < MaxChanges
  /\ changes' = changes + 1
  /\ UNCHANGED <<userRec, subIndex, invite, handler, tokenEnd, clock, lastActive>>

\* The process dies between two accesses.
ServerDies(p) ==
  /\ ~At(p, "idle")
  /\ Reply(p)
  /\ changes < MaxChanges
  /\ changes' = changes + 1
  /\ UNCHANGED <<userRec, subIndex, invite, homeRec, tokenEnd, clock, lastActive>>

\* A tick, a good part of a token's life, is longer than any handler.
ClockMoves ==
  /\ clock < LastTick
  /\ \A p \in Servers : At(p, "idle")
  /\ clock' = clock + 1
  /\ lastActive' = [u \in UserIds |-> IF userRec[u].active THEN clock + 1 ELSE lastActive[u]]
  /\ UNCHANGED <<userRec, subIndex, invite, homeRec, handler, tokenEnd, changes>>

AccountsNext ==
  \/ \E p \in Servers :
       \/ \E s \in People, i \in Invites \cup {"no code"} : FindUser(p, s, i)
       \/ LoginKnown(p) \/ ReadInvite(p) \/ RedeemInvite(p) \/ ProvisionOwner(p) \/ CreateUser(p)
       \/ ReadIndex(p) \/ WriteIndex(p) \/ FirstLogin(p) \/ BindOwner(p)
       \/ \E u \in UserIds : DeactivateUser(p, u) \/ \E r \in UserRoles : UpdateRole(p, u, r)
       \/ AdminWrites(p) \/ ServerDies(p)
  \/ \E i \in Invites, t \in Homes, s \in People, r \in UserRoles : CreateInvite(i, t, s, r)
  \/ \E t \in Homes : HomeOff(t)
  \/ ClockMoves

AccountsSpec == AccountsInit /\ [][AccountsNext]_accountVars
------------------------------------------------------------------------------
UserRecords == [sub : People, home : Homes, role : UserRoles, active : BOOLEAN]

AccountsTypeOK ==
  /\ userRec \in [UserIds -> UserRecords \cup {NoRec}]
  /\ subIndex \in [People -> UserIds \cup {NoUser}]
  /\ tokenEnd \in [UserIds -> (clock - LastTick)..(clock + TokenLife) \cup {NoToken}]

Members == {u \in UserIds : userRec[u] # NoRec}

\* google_login, _update_index, redeem_invite, bind_owner_sub: whatever two
\* processes do at once and wherever one dies, the index leads to records of
\* the person, everybody but the platform owner is in a tenant an invite that
\* has been used up named, and credentials are bound to a user of the tenant.
AccountsAreGrounded ==
  /\ \A s \in People : subIndex[s] # NoUser => subIndex[s] \in Members /\ userRec[subIndex[s]].sub = s
  /\ \A u \in Members : \/ userRec[u].sub = PlatformOwner /\ homeRec[userRec[u].home].email = PlatformOwner
                        \/ \E i \in Invites : /\ invite[i].status = "used"
                                              /\ invite[i].for = userRec[u].sub
                                              /\ invite[i].home = userRec[u].home
  /\ \A t \in Homes : homeRec[t].owner # Nobody =>
       \E u \in Members : userRec[u].sub = homeRec[t].owner /\ userRec[u].home = t

\* deactivate_user: nobody is asked whether a user is still active until the
\* next login, so a token may outlive its user, but not by more than its life.
AccessEnds ==
  \A u \in UserIds : tokenEnd[u] >= clock => userRec[u].active \/ clock - lastActive[u] <= TokenLife
==============================================================================
