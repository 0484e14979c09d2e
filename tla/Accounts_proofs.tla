--------------------------- MODULE Accounts_proofs ---------------------------
(***************************************************************************)
(* Who has an account and for how long a token is good, and whose jobs a   *)
(* session may poll, for any number of API processes, people, users,       *)
(* invites, tenants and jobs.                                              *)
(***************************************************************************)
EXTENDS Accounts, JobTracking, SequenceTheorems, TLAPS

------------------------------------------------------------------------------
(***************************************************************************)
(* Accounts, invites and tokens.                                           *)
(***************************************************************************)

HomeRecords ==
  [made : BOOLEAN, owner : People \cup {Nobody}, active : BOOLEAN, email : People \cup {Nobody}]

OpenInvites == [status : {"open"}, home : Homes, for : People, role : UserRoles]
GivenInvites == [status : {"open", "used"}, home : Homes, for : People, role : UserRoles]

AccountShapes ==
  /\ userRec \in [UserIds -> UserRecords \cup {NoRec}]
  /\ subIndex \in [People -> UserIds \cup {NoUser}]
  /\ invite \in [Invites -> GivenInvites \cup {[status |-> "none"]}]
  /\ homeRec \in [Homes -> HomeRecords]
  /\ DOMAIN handler = Servers

\* The platform owner at home, or somebody an invite that was used named.
Warranted(s, t) ==
  \/ s = PlatformOwner /\ homeRec[t].email = PlatformOwner
  \/ \E i \in Invites : invite[i].status = "used" /\ invite[i].for = s /\ invite[i].home = t

Indexed(index) ==
  /\ index \in [People -> UserIds \cup {NoUser}]
  /\ \A s \in People : index[s] # NoUser =>
       index[s] \in UserIds /\ userRec[index[s]] # NoRec /\ userRec[index[s]].sub = s

\* A copy of a user's record may be old, but it is of the same person and tenant.
CopyOf(u, rec) ==
  /\ u \in UserIds /\ rec \in UserRecords
  /\ userRec[u] # NoRec /\ userRec[u].sub = rec.sub /\ userRec[u].home = rec.home

\* The invite a handler is redeeming was open when it was read, and is still of the
\* same person and tenant.
Redeeming(h) ==
  /\ h.code \in Invites /\ h.data \in OpenInvites /\ h.data.for = h.sub
  /\ invite[h.code].status # "none"
  /\ invite[h.code].for = h.data.for /\ invite[h.code].home = h.data.home

\* What a handler relies on, by the step it is at.
HandlerAt(h) ==
  \/ h.at = "idle"
  \/ h.at = "invited" /\ h.sub \in People /\ h.code \in Invites
  \/ h.at = "uninvited" /\ h.sub \in People
  \/ h.at = "redeem" /\ h.sub \in People /\ Redeeming(h)
  \/ /\ h.at = "create"
     /\ h.sub \in People /\ h.home \in Homes /\ h.role \in UserRoles /\ Warranted(h.sub, h.home)
  \/ h.at \in {"known", "index", "first", "admin"} /\ CopyOf(h.user, h.rec)
  \/ h.at = "reindex" /\ CopyOf(h.user, h.rec) /\ Indexed(h.index)
  \/ /\ h.at = "bind" /\ CopyOf(h.user, h.rec)
     /\ h.tenant \in HomeRecords /\ h.tenant.made /\ homeRec[h.rec.home].made
     /\ h.tenant.email = homeRec[h.rec.home].email

\* The owner a tenant's credentials are bound to is one of its users.
OwnedByMember(t) ==
  homeRec[t].owner # Nobody =>
    \E u \in UserIds : userRec[u] # NoRec /\ userRec[u].sub = homeRec[t].owner /\ userRec[u].home = t

AccountsInv ==
  /\ AccountShapes
  /\ Indexed(subIndex)
  /\ \A u \in UserIds : userRec[u] # NoRec => Warranted(userRec[u].sub, userRec[u].home)
  /\ \A t \in Homes : OwnedByMember(t) /\ (~homeRec[t].made => homeRec[t].email = Nobody)
  /\ \A p \in Servers : HandlerAt(handler[p])
------------------------------------------------------------------------------
\* What is noted of a user, an invite and a tenant for good.
RecordsLast ==
  /\ \A u \in UserIds : userRec[u] # NoRec =>
       userRec'[u] # NoRec /\ userRec'[u].sub = userRec[u].sub /\ userRec'[u].home = userRec[u].home
  /\ \A i \in Invites : invite[i].status # "none" =>
       /\ invite'[i].status # "none" /\ (invite[i].status = "used" => invite'[i].status = "used")
       /\ invite'[i].for = invite[i].for /\ invite'[i].home = invite[i].home
  /\ \A t \in Homes : homeRec[t].made => homeRec'[t].made /\ homeRec'[t].email = homeRec[t].email

\* The step of one process leaves the others' footing as it is.
LEMMA FootingStays ==
  ASSUME AccountsInv, RecordsLast, NEW h, HandlerAt(h)
  PROVE  HandlerAt(h)'
<1>1. ASSUME NEW s \in People, NEW t \in Homes, Warranted(s, t) PROVE Warranted(s, t)'
  BY <1>1, AccountsAssumption DEF Warranted, RecordsLast, AccountsInv, AccountsAssumption
<1>2. ASSUME NEW index, Indexed(index) PROVE Indexed(index)'
  BY <1>2 DEF Indexed, RecordsLast
<1>3. ASSUME NEW u, NEW rec, CopyOf(u, rec) PROVE CopyOf(u, rec)'
  BY <1>3 DEF CopyOf, RecordsLast
<1>4. CASE h.at = "idle"
  BY <1>4 DEF HandlerAt
<1>5. CASE h.at \in {"invited", "uninvited"}
  BY <1>5 DEF HandlerAt
<1>6. CASE h.at = "redeem"
  BY <1>6 DEF HandlerAt, Redeeming, RecordsLast
<1>7. CASE h.at = "create"
  BY <1>7, <1>1 DEF HandlerAt
<1>8. CASE h.at \in {"known", "index", "first", "admin"}
  BY <1>8, <1>3 DEF HandlerAt
<1>9. CASE h.at = "reindex"
  BY <1>9, <1>2, <1>3 DEF HandlerAt
<1>10. CASE h.at = "bind"
  <2>1. CopyOf(h.user, h.rec) /\ h.rec.home \in Homes
    BY <1>10 DEF HandlerAt, CopyOf, UserRecords
  <2>2. QED
    BY <1>10, <1>3, <2>1 DEF HandlerAt, RecordsLast
<1>11. QED
  BY <1>4, <1>5, <1>6, <1>7, <1>8, <1>9, <1>10 DEF HandlerAt

\* Who had the warrant to be there keeps it.
LEMMA UsersStayWarranted ==
  ASSUME AccountsInv, RecordsLast,
         \A u \in UserIds : userRec[u] = NoRec /\ userRec'[u] # NoRec =>
           Warranted(userRec[u].sub, userRec[u].home)'
  PROVE  \A u \in UserIds : userRec'[u] # NoRec => Warranted(userRec[u].sub, userRec[u].home)'
<1> SUFFICES ASSUME NEW u \in UserIds, userRec'[u] # NoRec
             PROVE  Warranted(userRec[u].sub, userRec[u].home)'
  OBVIOUS
<1>1. CASE userRec[u] = NoRec
  BY <1>1
<1>2. CASE userRec[u] # NoRec
  <2>1. userRec[u] \in UserRecords
    BY <1>2 DEF AccountsInv, AccountShapes
  <2>2. /\ userRec[u].sub \in People /\ userRec[u].home \in Homes
        /\ userRec'[u].sub = userRec[u].sub /\ userRec'[u].home = userRec[u].home
    BY <1>2, <2>1 DEF UserRecords, RecordsLast
  <2>3. PICK s \in People, t \in Homes : s = userRec[u].sub /\ t = userRec[u].home
    BY <2>2
  <2>4. Warranted(s, t)
    BY <1>2, <2>3 DEF AccountsInv
  <2>5. Warranted(s, t)'
    BY <2>4, AccountsAssumption DEF Warranted, RecordsLast, AccountsInv, AccountsAssumption
  <2>6. QED
    BY <2>2, <2>3, <2>5
<1>3. QED
  BY <1>1, <1>2

\* What a process that did not move relies on is still there.
LEMMA StandingStays ==
  ASSUME AccountsInv, RecordsLast, NEW q \in Servers, handler'[q] = handler[q]
  PROVE  HandlerAt(handler[q])'
<1>1. PICK h : h = handler[q]
  OBVIOUS
<1>2. HandlerAt(h)'
  BY <1>1, FootingStays DEF AccountsInv
<1>3. QED
  BY <1>1, <1>2 DEF HandlerAt, CopyOf, Redeeming, Indexed, Warranted

\* A step that ends in a state of the right shape, in which what is noted lasts and the
\* one process that moved knows where it is.
LEMMA StepKeeps ==
  ASSUME AccountsInv, RecordsLast, AccountShapes',
         NEW p \in Servers, \A q \in Servers : q # p => handler'[q] = handler[q],
         HandlerAt(handler[p])',
         Indexed(subIndex)',
         \A u \in UserIds : userRec[u] = NoRec /\ userRec'[u] # NoRec =>
           Warranted(userRec[u].sub, userRec[u].home)',
         \A t \in Homes : OwnedByMember(t)' /\ (~homeRec[t].made => homeRec[t].email = Nobody)'
  PROVE  AccountsInv'
<1>1. ASSUME NEW q \in Servers PROVE HandlerAt(handler[q])'
  <2>1. CASE q = p
    BY <2>1
  <2>2. CASE q # p
    BY <2>2, StandingStays
  <2>3. QED
    BY <2>1, <2>2
<1>2. \A u \in UserIds : userRec'[u] # NoRec => Warranted(userRec[u].sub, userRec[u].home)'
  BY UsersStayWarranted
<1>3. QED
  BY <1>1, <1>2 DEF AccountsInv

\* The same for a step of no process.
LEMMA StandKeeps ==
  ASSUME AccountsInv, RecordsLast, AccountShapes', UNCHANGED handler, Indexed(subIndex)',
         \A u \in UserIds : userRec[u] = NoRec => userRec'[u] = NoRec,
         \A t \in Homes : OwnedByMember(t)' /\ (~homeRec[t].made => homeRec[t].email = Nobody)'
  PROVE  AccountsInv'
<1>1. ASSUME NEW q \in Servers PROVE HandlerAt(handler[q])'
  BY StandingStays
<1>2. \A u \in UserIds : userRec'[u] # NoRec => Warranted(userRec[u].sub, userRec[u].home)'
  BY UsersStayWarranted
<1>3. QED
  BY <1>1, <1>2 DEF AccountsInv

\* The same for a step to a place whose footing was there before.
LEMMA MoveKeeps ==
  ASSUME AccountsInv, RecordsLast, AccountShapes',
         NEW p \in Servers, NEW h, HandlerAt(h), handler' = [handler EXCEPT ![p] = h],
         Indexed(subIndex)',
         \A u \in UserIds : userRec[u] = NoRec => userRec'[u] = NoRec,
         \A t \in Homes : OwnedByMember(t)' /\ (~homeRec[t].made => homeRec[t].email = Nobody)'
  PROVE  AccountsInv'
<1>1. HandlerAt(h)'
  BY FootingStays
<1>2. handler'[p] = h /\ \A q \in Servers : q # p => handler'[q] = handler[q]
  BY DEF AccountsInv, AccountShapes
<1>3. HandlerAt(handler[p])'
  BY <1>1, <1>2 DEF HandlerAt, CopyOf, Redeeming, Indexed, Warranted
<1>4. QED
  BY <1>2, <1>3, StepKeeps

\* A step that reads.
LEMMA ReadKeeps ==
  ASSUME AccountsInv, NEW p \in Servers, NEW h, HandlerAt(h), handler' = [handler EXCEPT ![p] = h],
         UNCHANGED <<userRec, subIndex, invite, homeRec>>
  PROVE  AccountsInv'
<1>1. RecordsLast
  BY DEF RecordsLast
<1>2. AccountShapes'
  BY DEF AccountsInv, AccountShapes
<1>3. Indexed(subIndex)'
  BY DEF AccountsInv, Indexed
<1>4. \A t \in Homes : OwnedByMember(t)' /\ (~homeRec[t].made => homeRec[t].email = Nobody)'
  BY DEF AccountsInv, OwnedByMember
<1>5. QED
  BY <1>1, <1>2, <1>3, <1>4, MoveKeeps

\* A step that writes a copy of a user's record back.
LEMMA SaveKeeps ==
  ASSUME AccountsInv, NEW p \in Servers, NEW h, HandlerAt(h), handler' = [handler EXCEPT ![p] = h],
         NEW u, NEW rec, CopyOf(u, rec), userRec' = [userRec EXCEPT ![u] = rec],
         UNCHANGED <<subIndex, invite, homeRec>>
  PROVE  AccountsInv'
<1>1. u \in UserIds /\ rec \in UserRecords /\ rec # NoRec
  BY AccountsAssumption DEF AccountsAssumption, CopyOf, UserRecords, NoRec
<1>2. /\ userRec' \in [UserIds -> UserRecords \cup {NoRec}]
      /\ userRec[u] # NoRec /\ userRec'[u] # NoRec
      /\ userRec'[u].sub = userRec[u].sub /\ userRec'[u].home = userRec[u].home
      /\ \A v \in UserIds : v # u => userRec'[v] = userRec[v]
  BY <1>1 DEF CopyOf, AccountsInv, AccountShapes
<1>3. \A v \in UserIds : (userRec'[v] # NoRec <=> userRec[v] # NoRec)
        /\ (userRec[v] # NoRec => userRec'[v].sub = userRec[v].sub /\ userRec'[v].home = userRec[v].home)
  BY <1>2
<1>4. RecordsLast
  BY <1>3 DEF RecordsLast
<1>5. AccountShapes'
  BY <1>2 DEF AccountsInv, AccountShapes
<1>6. Indexed(subIndex)'
  BY <1>3 DEF AccountsInv, Indexed
<1>7. \A t \in Homes : OwnedByMember(t)' /\ (~homeRec[t].made => homeRec[t].email = Nobody)'
  BY <1>3 DEF AccountsInv, OwnedByMember
<1>8. QED
  BY <1>3, <1>4, <1>5, <1>6, <1>7, MoveKeeps
------------------------------------------------------------------------------
\* Looking a subject up takes nothing but a copy of what is there.
LEMMA FindUserKeeps ==
  ASSUME AccountsInv, NEW p \in Servers, NEW s \in People, NEW i \in Invites \cup {"no code"}, FindUser(p, s, i)
  PROVE  AccountsInv'
<1> DEFINE u == subIndex[s]
<1>1. CASE u = NoUser
  <2>1. PICK h : /\ h = [at |-> IF i \in Invites THEN "invited" ELSE "uninvited", sub |-> s, code |-> i]
                 /\ handler' = [handler EXCEPT ![p] = h]
    BY <1>1 DEF FindUser, Lookup, Go
  <2>2. HandlerAt(h)
    BY <2>1 DEF HandlerAt
  <2>3. QED
    BY <2>1, <2>2, ReadKeeps DEF FindUser, Lookup
<1>2. CASE u # NoUser
  <2>1. u \in UserIds /\ userRec[u].active
    BY <1>2 DEF FindUser, Lookup, IsActive
  <2>2. userRec[u] \in UserRecords /\ userRec[u] # NoRec
    <3>1. NoRec.active = FALSE
      BY DEF NoRec
    <3>2. userRec[u] # NoRec
      BY <2>1, <3>1, Zenon
    <3>3. QED
      BY <2>1, <3>2 DEF AccountsInv, AccountShapes
  <2>3. PICK h : h = [at |-> "known", user |-> u, rec |-> userRec[u]] /\ handler' = [handler EXCEPT ![p] = h]
    BY <1>2 DEF FindUser, Lookup, Go
  <2>4. HandlerAt(h)
    BY <2>1, <2>2, <2>3 DEF HandlerAt, CopyOf
  <2>5. QED
    BY <2>3, <2>4, ReadKeeps DEF FindUser, Lookup
<1>3. QED
  BY <1>1, <1>2

\* record_login, the writing half of an administrator's change, and the end of a
\* handler for whatever reason.
LEMMA IdleIsFine == HandlerAt(Idle)
BY DEF HandlerAt, Idle

\* A login or an update by an administrator saves the copy it has of a record.
LEMMA SavingsKeep ==
  ASSUME AccountsInv, NEW p \in Servers, LoginKnown(p) \/ AdminWrites(p)
  PROVE  AccountsInv'
<1>1. PICK h : h = handler[p]
  OBVIOUS
<1>2. h.at \in {"known", "admin"} /\ CopyOf(h.user, h.rec)
  BY <1>1 DEF AccountsInv, HandlerAt, LoginKnown, AdminWrites, At
<1>3. /\ userRec' = [userRec EXCEPT ![h.user] = h.rec] /\ handler' = [handler EXCEPT ![p] = Idle]
      /\ UNCHANGED <<subIndex, invite, homeRec>>
  BY <1>1 DEF LoginKnown, AdminWrites, SaveUser, Reply
<1>4. QED
  BY <1>2, <1>3, IdleIsFine, SaveKeeps

\* Who logs in without a record gets one only at home or by an invite.
LEMMA FirstLoginKeeps ==
  ASSUME AccountsInv, NEW p \in Servers, FirstLogin(p)
  PROVE  AccountsInv'
<1>1. PICK h : h = handler[p]
  OBVIOUS
<1>2. h.at = "first" /\ CopyOf(h.user, h.rec)
  BY <1>1 DEF AccountsInv, HandlerAt, FirstLogin, At
<1>3. userRec' = [userRec EXCEPT ![h.user] = h.rec] /\ UNCHANGED <<subIndex, invite, homeRec>>
  BY <1>1 DEF FirstLogin, SaveUser
<1>4. CASE handler' = [handler EXCEPT ![p] = Idle]
  BY <1>2, <1>3, <1>4, IdleIsFine, SaveKeeps
<1>5. CASE homeRec[h.rec.home].made
           /\ handler' = [handler EXCEPT ![p] = [at |-> "bind", user |-> h.user, rec |-> h.rec,
                                                 tenant |-> homeRec[h.rec.home]]]
  <2>1. PICK g : g = [at |-> "bind", user |-> h.user, rec |-> h.rec, tenant |-> homeRec[h.rec.home]]
    OBVIOUS
  <2>2. HandlerAt(g)
    BY <1>2, <1>5, <2>1 DEF HandlerAt, CopyOf, UserRecords, AccountsInv, AccountShapes
  <2>3. QED
    BY <1>2, <1>3, <1>5, <2>1, <2>2, SaveKeeps
<1>6. QED
  BY <1>1, <1>4, <1>5 DEF FirstLogin, Go, Reply

\* The steps that only read, or give up.
LEMMA ReadingsKeep ==
  ASSUME AccountsInv, NEW p \in Servers,
         \/ ReadInvite(p) \/ ReadIndex(p) \/ ServerDies(p)
         \/ \E u \in UserIds : DeactivateUser(p, u) \/ \E r \in UserRoles : UpdateRole(p, u, r)
  PROVE  AccountsInv'
<1>1. PICK h : h = handler[p]
  OBVIOUS
<1>2. HandlerAt(h)
  BY <1>1 DEF AccountsInv
<1>3. CASE ServerDies(p)
  BY <1>3, IdleIsFine, ReadKeeps DEF ServerDies, Reply
<1>4. CASE ReadInvite(p)
  <2>1. h.at = "invited" /\ h.sub \in People /\ h.code \in Invites
    BY <1>1, <1>2, <1>4 DEF HandlerAt, ReadInvite, At
  <2>2. CASE invite[h.code].status = "open" /\ invite[h.code].for = h.sub
    <3>1. invite[h.code] \in OpenInvites
      BY <2>1, <2>2 DEF AccountsInv, AccountShapes, GivenInvites, OpenInvites
    <3>2. PICK g : g = [at |-> "redeem", sub |-> h.sub, code |-> h.code, data |-> invite[h.code]]
      OBVIOUS
    <3>3. HandlerAt(g)
      BY <2>1, <2>2, <3>1, <3>2 DEF HandlerAt, Redeeming
    <3>4. handler' = [handler EXCEPT ![p] = g]
      BY <1>1, <1>4, <2>2, <3>2 DEF ReadInvite, Go
    <3>5. QED
      BY <1>4, <3>3, <3>4, ReadKeeps DEF ReadInvite
  <2>3. CASE ~(invite[h.code].status = "open" /\ invite[h.code].for = h.sub)
    BY <1>1, <1>4, <2>3, IdleIsFine, ReadKeeps DEF ReadInvite, Reply
  <2>4. QED
    BY <2>2, <2>3
<1>5. CASE ReadIndex(p)
  <2>1. CopyOf(h.user, h.rec)
    BY <1>1, <1>2, <1>5 DEF HandlerAt, ReadIndex, At
  <2>2. PICK g : g = [at |-> "reindex", user |-> h.user, rec |-> h.rec, index |-> subIndex]
    OBVIOUS
  <2>3. HandlerAt(g)
    BY <2>1, <2>2 DEF HandlerAt, AccountsInv
  <2>4. handler' = [handler EXCEPT ![p] = g]
    BY <1>1, <1>5, <2>2 DEF ReadIndex, Go
  <2>5. QED
    BY <1>5, <2>3, <2>4, ReadKeeps DEF ReadIndex
<1>6. ASSUME NEW u \in UserIds, NEW rec, AdminReads(p, u, rec), rec \in UserRecords,
             rec.sub = userRec[u].sub, rec.home = userRec[u].home
      PROVE  AccountsInv'
  <2>1. PICK g : g = [at |-> "admin", user |-> u, rec |-> rec]
    OBVIOUS
  <2>2. HandlerAt(g)
    BY <1>6, <2>1 DEF HandlerAt, CopyOf, AdminReads
  <2>3. handler' = [handler EXCEPT ![p] = g]
    BY <1>6, <2>1 DEF AdminReads, Go
  <2>4. QED
    BY <1>6, <2>2, <2>3, ReadKeeps DEF AdminReads
<1>7. ASSUME NEW u \in UserIds, DeactivateUser(p, u) PROVE AccountsInv'
  <2>1. userRec[u] \in UserRecords
    BY <1>7 DEF DeactivateUser, AdminReads, AccountsInv, AccountShapes
  <2>2. QED
    BY <1>6, <1>7, <2>1 DEF DeactivateUser, UserRecords
<1>8. ASSUME NEW u \in UserIds, NEW r \in UserRoles, UpdateRole(p, u, r) PROVE AccountsInv'
  <2>1. userRec[u] \in UserRecords
    BY <1>8 DEF UpdateRole, AdminReads, AccountsInv, AccountShapes
  <2>2. QED
    BY <1>6, <1>8, <2>1 DEF UpdateRole, UserRecords
<1>9. QED
  BY <1>3, <1>4, <1>5, <1>7, <1>8

\* redeem_invite: the mark makes the warrant.
LEMMA RedeemKeeps ==
  ASSUME AccountsInv, NEW p \in Servers, RedeemInvite(p)
  PROVE  AccountsInv'
<1>1. PICK h : h = handler[p]
  OBVIOUS
<1>2. h.at = "redeem" /\ h.sub \in People /\ Redeeming(h)
  BY <1>1 DEF AccountsInv, HandlerAt, RedeemInvite, Redeem, At
<1>3. PICK used : used = [h.data EXCEPT !.status = "used"]
  OBVIOUS
<1>4. /\ used \in GivenInvites /\ used.status = "used" /\ used.for = h.sub /\ used.home = h.data.home
      /\ h.data.home \in Homes /\ h.data.role \in UserRoles /\ h.code \in Invites
  BY <1>2, <1>3 DEF Redeeming, OpenInvites, GivenInvites
<1>5. PICK g : g = [at |-> "create", sub |-> h.sub, home |-> h.data.home, role |-> h.data.role]
  OBVIOUS
<1>6. /\ invite' = [invite EXCEPT ![h.code] = used] /\ handler' = [handler EXCEPT ![p] = g]
      /\ UNCHANGED <<userRec, subIndex, homeRec>>
  BY <1>1, <1>3, <1>5 DEF RedeemInvite, Redeem, Go
<1>7. /\ invite' \in [Invites -> GivenInvites \cup {[status |-> "none"]}]
      /\ invite'[h.code] = used /\ \A i \in Invites : i # h.code => invite'[i] = invite[i]
  BY <1>4, <1>6 DEF AccountsInv, AccountShapes
<1>8. RecordsLast
  BY <1>2, <1>4, <1>6, <1>7 DEF RecordsLast, Redeeming
<1>9. AccountShapes'
  BY <1>6, <1>7 DEF AccountsInv, AccountShapes
<1>10. Warranted(h.sub, h.data.home)'
  BY <1>4, <1>7 DEF Warranted
<1>11. HandlerAt(g)'
  BY <1>2, <1>4, <1>5, <1>10 DEF HandlerAt
<1>12. handler'[p] = g /\ \A q \in Servers : q # p => handler'[q] = handler[q]
  BY <1>6 DEF AccountsInv, AccountShapes
<1>13. HandlerAt(handler[p])'
  BY <1>11, <1>12 DEF HandlerAt, CopyOf, Redeeming, Indexed, Warranted
<1>14. Indexed(subIndex)'
  BY <1>6 DEF AccountsInv, Indexed
<1>15. \A t \in Homes : OwnedByMember(t)' /\ (~homeRec[t].made => homeRec[t].email = Nobody)'
  BY <1>6 DEF AccountsInv, OwnedByMember
<1>16. QED
  BY <1>6, <1>8, <1>9, <1>12, <1>13, <1>14, <1>15, StepKeeps

\* _provision_platform_owner: a tenant that is made is made for the address.
LEMMA ProvisionKeeps ==
  ASSUME AccountsInv, NEW p \in Servers, ProvisionOwner(p)
  PROVE  AccountsInv'
<1>1. PICK h : h = handler[p]
  OBVIOUS
<1>2. h.at = "uninvited" /\ h.sub \in People
  BY <1>1 DEF AccountsInv, HandlerAt, ProvisionOwner, At
<1>3. CASE h.sub # PlatformOwner
  BY <1>1, <1>3, IdleIsFine, ReadKeeps DEF ProvisionOwner, Reply
<1>4. CASE h.sub = PlatformOwner
  <2>1. PICK home : home = [made |-> TRUE, owner |-> Nobody, active |-> TRUE, email |-> PlatformOwner]
    OBVIOUS
  <2>2. home \in HomeRecords /\ home.made = TRUE /\ home.owner = Nobody /\ home.email = PlatformOwner
    BY <2>1, AccountsAssumption DEF HomeRecords, AccountsAssumption
  <2>3. PICK t \in Homes :
          /\ \/ homeRec[t].email = PlatformOwner /\ UNCHANGED homeRec
             \/ ~homeRec[t].made /\ homeRec' = [homeRec EXCEPT ![t] = home]
          /\ Go(p, [at |-> "create", sub |-> h.sub, home |-> t, role |-> "owner"])
    BY <1>1, <1>4, <2>1 DEF ProvisionOwner
  <2>4. PICK g : g = [at |-> "create", sub |-> h.sub, home |-> t, role |-> "owner"]
    OBVIOUS
  <2>5. UNCHANGED <<userRec, subIndex, invite>> /\ handler' = [handler EXCEPT ![p] = g]
    BY <2>3, <2>4 DEF ProvisionOwner, Go
  <2>6. /\ homeRec' \in [Homes -> HomeRecords] /\ homeRec'[t].email = PlatformOwner
        /\ \A x \in Homes : homeRec'[x] = homeRec[x] \/ (~homeRec[x].made /\ homeRec'[x] = home)
    BY <2>2, <2>3 DEF AccountsInv, AccountShapes
  <2>7. RecordsLast
    BY <2>5, <2>6 DEF RecordsLast
  <2>8. AccountShapes'
    BY <2>5, <2>6 DEF AccountsInv, AccountShapes
  <2>9. HandlerAt(g)'
    BY <1>2, <1>4, <2>4, <2>6 DEF HandlerAt, Warranted, UserRoles
  <2>10. handler'[p] = g /\ \A q \in Servers : q # p => handler'[q] = handler[q]
    BY <2>5 DEF AccountsInv, AccountShapes
  <2>11. HandlerAt(handler[p])'
    BY <2>9, <2>10 DEF HandlerAt, CopyOf, Redeeming, Indexed, Warranted
  <2>12. Indexed(subIndex)'
    BY <2>5 DEF AccountsInv, Indexed
  <2>13. ASSUME NEW x \in Homes
         PROVE  OwnedByMember(x)' /\ (~homeRec[x].made => homeRec[x].email = Nobody)'
    BY <2>2, <2>5, <2>6 DEF AccountsInv, OwnedByMember
  <2>14. QED
    BY <2>5, <2>7, <2>8, <2>10, <2>11, <2>12, <2>13, StepKeeps
<1>5. QED
  BY <1>3, <1>4

\* create_user: the fresh record has the warrant the handler came with.
LEMMA CreateUserKeeps ==
  ASSUME AccountsInv, NEW p \in Servers, CreateUser(p)
  PROVE  AccountsInv'
<1>1. PICK h : h = handler[p]
  OBVIOUS
<1>2. /\ h.at = "create"
      /\ h.sub \in People /\ h.home \in Homes /\ h.role \in UserRoles /\ Warranted(h.sub, h.home)
  BY <1>1 DEF AccountsInv, HandlerAt, CreateUser, At
<1>3. PICK rec : rec = [sub |-> h.sub, home |-> h.home, role |-> h.role, active |-> TRUE]
  OBVIOUS
<1>4. rec \in UserRecords /\ rec # NoRec /\ rec.sub = h.sub /\ rec.home = h.home
  BY <1>2, <1>3, AccountsAssumption DEF AccountsAssumption, UserRecords, NoRec
<1>5. PICK u \in UserIds : /\ userRec[u] = NoRec /\ SaveUser(u, rec)
                           /\ Go(p, [at |-> "index", user |-> u, rec |-> rec])
  BY <1>1, <1>3 DEF CreateUser
<1>6. PICK g : g = [at |-> "index", user |-> u, rec |-> rec]
  OBVIOUS
<1>7. /\ userRec' = [userRec EXCEPT ![u] = rec] /\ handler' = [handler EXCEPT ![p] = g]
      /\ UNCHANGED <<subIndex, invite, homeRec>>
  BY <1>5, <1>6 DEF CreateUser, SaveUser, Go
<1>8. /\ userRec' \in [UserIds -> UserRecords \cup {NoRec}]
      /\ userRec'[u] = rec /\ \A v \in UserIds : v # u => userRec'[v] = userRec[v]
  BY <1>4, <1>7 DEF AccountsInv, AccountShapes
<1>9. RecordsLast
  BY <1>5, <1>7, <1>8 DEF RecordsLast
<1>10. AccountShapes'
  BY <1>7, <1>8 DEF AccountsInv, AccountShapes
<1>11. HandlerAt(g)'
  BY <1>4, <1>6, <1>8 DEF HandlerAt, CopyOf
<1>12. handler'[p] = g /\ \A q \in Servers : q # p => handler'[q] = handler[q]
  BY <1>7 DEF AccountsInv, AccountShapes
<1>13. HandlerAt(handler[p])'
  BY <1>11, <1>12 DEF HandlerAt, CopyOf, Redeeming, Indexed, Warranted
<1>14. Indexed(subIndex)'
  BY <1>5, <1>7, <1>8 DEF AccountsInv, Indexed
<1>15. Warranted(h.sub, h.home)'
  BY <1>2, <1>7 DEF Warranted
<1>16. ASSUME NEW v \in UserIds, userRec[v] = NoRec, userRec'[v] # NoRec
       PROVE  Warranted(userRec[v].sub, userRec[v].home)'
  <2>1. v = u
    BY <1>8, <1>16
  <2>2. QED
    BY <1>4, <1>8, <1>15, <2>1 DEF Warranted
<1>17. \A t \in Homes : OwnedByMember(t)' /\ (~homeRec[t].made => homeRec[t].email = Nobody)'
  BY <1>5, <1>7, <1>8 DEF AccountsInv, OwnedByMember
<1>18. QED
  BY <1>9, <1>10, <1>12, <1>13, <1>14, <1>16, <1>17, StepKeeps

\* _update_index with an index that may have grown meanwhile: entries may be lost, none
\* is wrong.
LEMMA WriteIndexKeeps ==
  ASSUME AccountsInv, NEW p \in Servers, WriteIndex(p)
  PROVE  AccountsInv'
<1>1. PICK h : h = handler[p]
  OBVIOUS
<1>2. CopyOf(h.user, h.rec) /\ Indexed(h.index)
  BY <1>1 DEF AccountsInv, HandlerAt, WriteIndex, At
<1>3. PICK g : g = [at |-> "first", user |-> h.user, rec |-> h.rec]
  OBVIOUS
<1>4. HandlerAt(g)
  BY <1>2, <1>3 DEF HandlerAt
<1>5. /\ subIndex' = [h.index EXCEPT ![h.rec.sub] = h.user] /\ handler' = [handler EXCEPT ![p] = g]
      /\ UNCHANGED <<userRec, invite, homeRec>>
  BY <1>1, <1>3 DEF WriteIndex, Go
<1>6. h.user \in UserIds /\ h.rec.sub \in People /\ userRec[h.user] # NoRec /\ userRec[h.user].sub = h.rec.sub
  BY <1>2 DEF CopyOf, UserRecords
<1>7. Indexed(subIndex)'
  BY <1>2, <1>5, <1>6 DEF Indexed
<1>8. RecordsLast
  BY <1>5 DEF RecordsLast
<1>9. AccountShapes'
  BY <1>5, <1>7 DEF AccountsInv, AccountShapes, Indexed
<1>10. \A t \in Homes : OwnedByMember(t)' /\ (~homeRec[t].made => homeRec[t].email = Nobody)'
  BY <1>5 DEF AccountsInv, OwnedByMember
<1>11. QED
  BY <1>4, <1>5, <1>7, <1>8, <1>9, <1>10, MoveKeeps

\* bind_owner_sub with a tenant's record that may be old: it becomes that of one of
\* the tenant's users.
LEMMA BindOwnerKeeps ==
  ASSUME AccountsInv, NEW p \in Servers, BindOwner(p)
  PROVE  AccountsInv'
<1>1. PICK h : h = handler[p]
  OBVIOUS
<1>2. /\ CopyOf(h.user, h.rec) /\ h.tenant \in HomeRecords /\ h.tenant.made /\ homeRec[h.rec.home].made
      /\ h.tenant.email = homeRec[h.rec.home].email
  BY <1>1 DEF AccountsInv, HandlerAt, BindOwner, At
<1>3. /\ h.user \in UserIds /\ h.rec.sub \in People /\ h.rec.home \in Homes
      /\ userRec[h.user] # NoRec /\ userRec[h.user].sub = h.rec.sub /\ userRec[h.user].home = h.rec.home
  BY <1>2 DEF CopyOf, UserRecords
<1>4. PICK bound : bound = [h.tenant EXCEPT !.owner = h.rec.sub]
  OBVIOUS
<1>5. /\ bound \in HomeRecords /\ bound.made /\ bound.owner = h.rec.sub
      /\ bound.email = homeRec[h.rec.home].email
  BY <1>2, <1>3, <1>4 DEF HomeRecords
<1>6. /\ homeRec' = [homeRec EXCEPT ![h.rec.home] = bound] /\ handler' = [handler EXCEPT ![p] = Idle]
      /\ UNCHANGED <<userRec, subIndex, invite>>
  BY <1>1, <1>4 DEF BindOwner, Reply
<1>7. /\ homeRec' \in [Homes -> HomeRecords] /\ homeRec'[h.rec.home] = bound
      /\ \A t \in Homes : t # h.rec.home => homeRec'[t] = homeRec[t]
  BY <1>3, <1>5, <1>6 DEF AccountsInv, AccountShapes
<1>8. RecordsLast
  BY <1>5, <1>6, <1>7 DEF RecordsLast
<1>9. AccountShapes'
  BY <1>6, <1>7 DEF AccountsInv, AccountShapes
<1>10. Indexed(subIndex)'
  BY <1>6 DEF AccountsInv, Indexed
<1>11. ASSUME NEW t \in Homes
       PROVE  OwnedByMember(t)' /\ (~homeRec[t].made => homeRec[t].email = Nobody)'
  <2>1. CASE t = h.rec.home
    BY <1>3, <1>5, <1>6, <1>7, <2>1 DEF OwnedByMember
  <2>2. CASE t # h.rec.home
    BY <1>6, <1>7, <2>2 DEF AccountsInv, OwnedByMember
  <2>3. QED
    BY <2>1, <2>2
<1>12. QED
  BY <1>6, <1>8, <1>9, <1>10, <1>11, IdleIsFine, MoveKeeps

\* create_invite: a code nobody has used becomes an open invite.
LEMMA CreateInviteKeeps ==
  ASSUME AccountsInv,
         NEW i \in Invites, NEW t \in Homes, NEW s \in People, NEW r \in UserRoles, CreateInvite(i, t, s, r)
  PROVE  AccountsInv'
<1>1. PICK open : open = [status |-> "open", home |-> t, for |-> s, role |-> r]
  OBVIOUS
<1>2. open \in GivenInvites /\ open.status = "open"
  BY <1>1 DEF GivenInvites
<1>3. /\ invite[i].status = "none" /\ invite' = [invite EXCEPT ![i] = open]
      /\ UNCHANGED <<userRec, subIndex, homeRec, handler>>
  BY <1>1 DEF CreateInvite
<1>4. /\ invite' \in [Invites -> GivenInvites \cup {[status |-> "none"]}]
      /\ \A j \in Invites : j # i => invite'[j] = invite[j]
  BY <1>2, <1>3 DEF AccountsInv, AccountShapes
<1>5. RecordsLast
  BY <1>3, <1>4 DEF RecordsLast
<1>6. AccountShapes'
  BY <1>3, <1>4 DEF AccountsInv, AccountShapes
<1>7. Indexed(subIndex)'
  BY <1>3 DEF AccountsInv, Indexed
<1>8. \A x \in Homes : OwnedByMember(x)' /\ (~homeRec[x].made => homeRec[x].email = Nobody)'
  BY <1>3 DEF AccountsInv, OwnedByMember
<1>9. QED
  BY <1>3, <1>5, <1>6, <1>7, <1>8, StandKeeps

\* Switching a tenant off touches no account.
LEMMA HomeOffKeeps ==
  ASSUME AccountsInv, NEW t \in Homes, HomeOff(t)
  PROVE  AccountsInv'
<1>1. PICK off : off = [homeRec[t] EXCEPT !.active = FALSE]
  OBVIOUS
<1>2. /\ off \in HomeRecords /\ off.made = homeRec[t].made
      /\ off.owner = homeRec[t].owner /\ off.email = homeRec[t].email
  BY <1>1 DEF AccountsInv, AccountShapes, HomeRecords
<1>3. homeRec' = [homeRec EXCEPT ![t] = off] /\ UNCHANGED <<userRec, subIndex, invite, handler>>
  BY <1>1 DEF HomeOff
<1>4. /\ homeRec' \in [Homes -> HomeRecords]
      /\ \A x \in Homes : /\ homeRec'[x].made = homeRec[x].made
                          /\ homeRec'[x].owner = homeRec[x].owner /\ homeRec'[x].email = homeRec[x].email
  BY <1>2, <1>3 DEF AccountsInv, AccountShapes
<1>5. RecordsLast
  BY <1>3, <1>4 DEF RecordsLast
<1>6. AccountShapes'
  BY <1>3, <1>4 DEF AccountsInv, AccountShapes
<1>7. Indexed(subIndex)'
  BY <1>3 DEF AccountsInv, Indexed
<1>8. \A x \in Homes : OwnedByMember(x)' /\ (~homeRec[x].made => homeRec[x].email = Nobody)'
  BY <1>3, <1>4 DEF AccountsInv, OwnedByMember
<1>9. QED
  BY <1>3, <1>5, <1>6, <1>7, <1>8, StandKeeps

\* Nobody has an account at first.
LEMMA AccountsInvInit == AccountsInit => AccountsInv
<1> SUFFICES ASSUME AccountsInit PROVE AccountsInv
  OBVIOUS
<1>1. AccountShapes
  BY DEF AccountsInit, AccountShapes, NoHome, HomeRecords
<1>2. Indexed(subIndex)
  BY DEF AccountsInit, Indexed
<1>3. \A t \in Homes : homeRec[t].made = FALSE /\ homeRec[t].owner = Nobody /\ homeRec[t].email = Nobody
  BY DEF AccountsInit, NoHome
<1>4. \A p \in Servers : HandlerAt(handler[p])
  BY DEF AccountsInit, HandlerAt, Idle
<1>5. QED
  BY <1>1, <1>2, <1>3, <1>4 DEF AccountsInit, AccountsInv, OwnedByMember

\* Every step keeps the accounts grounded.
LEMMA AccountsInvStep == AccountsInv /\ [AccountsNext]_accountVars => AccountsInv'
<1> SUFFICES ASSUME AccountsInv, [AccountsNext]_accountVars PROVE AccountsInv'
  OBVIOUS
<1>1. ASSUME NEW p \in Servers, NEW s \in People, NEW i \in Invites \cup {"no code"}, FindUser(p, s, i)
      PROVE  AccountsInv'
  BY <1>1, FindUserKeeps
<1>2. ASSUME NEW p \in Servers, LoginKnown(p) \/ AdminWrites(p) PROVE AccountsInv'
  BY <1>2, SavingsKeep
<1>3. ASSUME NEW p \in Servers,
             \/ ReadInvite(p) \/ ReadIndex(p) \/ ServerDies(p)
             \/ \E u \in UserIds : DeactivateUser(p, u) \/ \E r \in UserRoles : UpdateRole(p, u, r)
      PROVE  AccountsInv'
  BY <1>3, ReadingsKeep
<1>4. ASSUME NEW p \in Servers, RedeemInvite(p) \/ ProvisionOwner(p) \/ CreateUser(p) PROVE AccountsInv'
  BY <1>4, RedeemKeeps, ProvisionKeeps, CreateUserKeeps
<1>5. ASSUME NEW p \in Servers, WriteIndex(p) \/ FirstLogin(p) \/ BindOwner(p) PROVE AccountsInv'
  BY <1>5, WriteIndexKeeps, FirstLoginKeeps, BindOwnerKeeps
<1>6. ASSUME NEW i \in Invites, NEW t \in Homes, NEW s \in People, NEW r \in UserRoles,
             CreateInvite(i, t, s, r)
      PROVE  AccountsInv'
  BY <1>6, CreateInviteKeeps
<1>7. ASSUME NEW t \in Homes, HomeOff(t) PROVE AccountsInv'
  BY <1>7, HomeOffKeeps
<1>8. CASE ClockMoves \/ UNCHANGED accountVars
  <2>1. UNCHANGED <<userRec, subIndex, invite, homeRec, handler>>
    BY <1>8 DEF ClockMoves, accountVars
  <2>2. RecordsLast /\ AccountShapes' /\ Indexed(subIndex)'
    BY <2>1 DEF RecordsLast, AccountsInv, AccountShapes, Indexed
  <2>3. \A x \in Homes : OwnedByMember(x)' /\ (~homeRec[x].made => homeRec[x].email = Nobody)'
    BY <2>1 DEF AccountsInv, OwnedByMember
  <2>4. QED
    BY <2>1, <2>2, <2>3, StandKeeps
<1>9. QED
  BY <1>1, <1>2, <1>3, <1>4, <1>5, <1>6, <1>7, <1>8 DEF AccountsNext

\* google_login, _update_index, redeem_invite, bind_owner_sub: whatever two processes do
\* at once and wherever one dies, the index leads to records of the person, everybody
\* but the platform owner is in a tenant that a used invite named, and credentials are
\* bound to a user of the tenant.
THEOREM AccountsGroundedAlways == AccountsSpec => []AccountsAreGrounded
<1>1. AccountsInv => AccountsAreGrounded
  BY DEF AccountsInv, AccountsAreGrounded, Indexed, Warranted, OwnedByMember, Members
<1>2. QED
  BY <1>1, AccountsInvInit, AccountsInvStep, PTL DEF AccountsSpec
------------------------------------------------------------------------------
\* A user is noted as active up to the moment, a token is good for no longer than its
\* life after that, and who is about to give a token has just found its user active.
LastSeen ==
  /\ clock \in Nat
  /\ lastActive \in [UserIds -> Int] /\ tokenEnd \in [UserIds -> Int]
  /\ \A u \in UserIds :
       /\ lastActive[u] <= clock
       /\ userRec[u].active => lastActive[u] = clock
       /\ tokenEnd[u] # NoToken => tokenEnd[u] <= lastActive[u] + TokenLife

AboutToAdmit(h) ==
  /\ h.at \in {"known", "index", "reindex", "first"} => h.rec.active
  /\ h.at = "bind" => lastActive[h.user] = clock

AccessInv == LastSeen /\ \A p \in Servers : AboutToAdmit(handler[p])

\* Within one tick nothing is forgotten: a user once active in it stays noted so.
SeenStays ==
  /\ clock' = clock
  /\ lastActive' \in [UserIds -> Int]
  /\ \A u \in UserIds : lastActive'[u] = lastActive[u] \/ lastActive'[u] = clock

\* What a handler that did not move is about to admit, it still may.
LEMMA OthersStillAdmit ==
  ASSUME AccountsInv, AccessInv, SeenStays, NEW q \in Servers, handler'[q] = handler[q]
  PROVE  AboutToAdmit(handler[q])'
<1>1. PICK h : h = handler[q]
  OBVIOUS
<1>2. h.at = "bind" => h.user \in UserIds
  BY <1>1 DEF AccountsInv, HandlerAt, CopyOf
<1>3. QED
  BY <1>1, <1>2 DEF AccessInv, AboutToAdmit, LastSeen, SeenStays

\* A step of one process that saves no user and gives no token.
LEMMA AccessMoves ==
  ASSUME AccountsInv, AccessInv, NEW p \in Servers, NEW h, handler' = [handler EXCEPT ![p] = h], AboutToAdmit(h),
         UNCHANGED <<userRec, tokenEnd, clock, lastActive>>
  PROVE  AccessInv'
<1>1. SeenStays /\ LastSeen'
  BY DEF AccessInv, LastSeen, SeenStays
<1>2. handler'[p] = h /\ \A q \in Servers : q # p => handler'[q] = handler[q]
  BY DEF AccountsInv, AccountShapes
<1>3. AboutToAdmit(handler[p])'
  BY <1>2 DEF AboutToAdmit
<1>4. QED
  BY <1>1, <1>2, <1>3, OthersStillAdmit DEF AccessInv

\* _save_user: an active record, or the end of one, is noted at the clock.
LEMMA SavingNotes ==
  ASSUME AccountsInv, AccessInv, NEW u \in UserIds, NEW rec, rec.active \in BOOLEAN, SaveUser(u, rec), UNCHANGED clock
  PROVE  /\ SeenStays
         /\ rec.active => lastActive'[u] = clock
         /\ \A v \in UserIds : /\ lastActive'[v] <= clock /\ lastActive'[v] >= lastActive[v]
                               /\ userRec'[v].active => lastActive'[v] = clock
<1>1. PICK seen : seen = IF rec.active \/ userRec[u].active THEN clock ELSE lastActive[u]
  OBVIOUS
<1>2. lastActive' = [lastActive EXCEPT ![u] = seen] /\ userRec' = [userRec EXCEPT ![u] = rec]
  BY <1>1 DEF SaveUser
<1>3. seen \in Int /\ seen <= clock /\ seen >= lastActive[u] /\ (seen = lastActive[u] \/ seen = clock)
      /\ (rec.active => seen = clock)
  BY <1>1 DEF AccessInv, LastSeen
<1>4. /\ lastActive' \in [UserIds -> Int] /\ lastActive'[u] = seen /\ userRec'[u] = rec
      /\ \A v \in UserIds : v # u => lastActive'[v] = lastActive[v] /\ userRec'[v] = userRec[v]
  BY <1>2, <1>3 DEF AccessInv, LastSeen, AccountsInv, AccountShapes
<1>5. QED
  BY <1>3, <1>4 DEF AccessInv, LastSeen, SeenStays

\* A step of one process that saves a user, and gives it a token only when the record
\* it saved is active.
SavesAndGoes(p, u, rec, h) ==
  /\ rec.active \in BOOLEAN
  /\ handler' = [handler EXCEPT ![p] = h] /\ SaveUser(u, rec) /\ UNCHANGED clock
  /\ UNCHANGED tokenEnd \/ (rec.active /\ IssueToken(u))
  /\ h.at \in {"known", "index", "reindex", "first", "bind"} => rec.active /\ h.rec = rec /\ h.user = u

\* Who saves a record on the way out of a handler admits nobody by it.
LEMMA AccessSaves ==
  ASSUME AccountsInv, AccessInv, NEW p \in Servers, NEW u \in UserIds, NEW rec, NEW h, SavesAndGoes(p, u, rec, h)
  PROVE  AccessInv'
<1> USE DEF SavesAndGoes
<1>1. /\ SeenStays
      /\ rec.active => lastActive'[u] = clock
      /\ \A v \in UserIds : /\ lastActive'[v] <= clock /\ lastActive'[v] >= lastActive[v]
                            /\ userRec'[v].active => lastActive'[v] = clock
  BY SavingNotes
<1>2. /\ tokenEnd' \in [UserIds -> Int]
      /\ \A v \in UserIds : tokenEnd'[v] = tokenEnd[v]
                            \/ (v = u /\ rec.active /\ tokenEnd'[v] = clock + TokenLife)
  BY AccountsAssumption DEF IssueToken, AccessInv, LastSeen, AccountsAssumption
<1>3. ASSUME NEW v \in UserIds, tokenEnd'[v] # NoToken PROVE tokenEnd'[v] <= lastActive'[v] + TokenLife
  <2>1. CASE tokenEnd'[v] = tokenEnd[v]
    BY <1>1, <1>3, <2>1, AccountsAssumption DEF AccessInv, LastSeen, SeenStays, AccountsAssumption
  <2>2. CASE v = u /\ rec.active /\ tokenEnd'[v] = clock + TokenLife
    BY <1>1, <2>2, AccountsAssumption DEF AccessInv, LastSeen, AccountsAssumption
  <2>3. QED
    BY <1>2, <2>1, <2>2
<1>4. LastSeen'
  BY <1>1, <1>2, <1>3 DEF AccessInv, LastSeen, SeenStays
<1>5. handler'[p] = h /\ \A q \in Servers : q # p => handler'[q] = handler[q]
  BY DEF AccountsInv, AccountShapes
<1>6. AboutToAdmit(handler[p])'
  BY <1>1, <1>5 DEF AboutToAdmit, SeenStays
<1>7. QED
  BY <1>1, <1>4, <1>5, <1>6, OthersStillAdmit DEF AccessInv

\* The steps of a process that neither save a user nor give a token.
LEMMA QuietStepsAdmit ==
  ASSUME AccountsInv, AccessInv, NEW p \in Servers,
         \/ \E s \in People, i \in Invites \cup {"no code"} : FindUser(p, s, i)
         \/ ReadInvite(p) \/ RedeemInvite(p) \/ ProvisionOwner(p) \/ ReadIndex(p) \/ WriteIndex(p)
         \/ \E u \in UserIds : DeactivateUser(p, u) \/ \E r \in UserRoles : UpdateRole(p, u, r)
         \/ ServerDies(p)
  PROVE  AccessInv'
<1>1. PICK h : h = handler[p]
  OBVIOUS
<1>2. AboutToAdmit(h) /\ AboutToAdmit(Idle)
  BY <1>1 DEF AccessInv, AboutToAdmit, Idle
<1>3. CASE \E s \in People, i \in Invites \cup {"no code"} : FindUser(p, s, i)
  <2>1. PICK s \in People, i \in Invites \cup {"no code"} : FindUser(p, s, i)
    BY <1>3
  <2>2. UNCHANGED <<userRec, tokenEnd, clock, lastActive>>
    BY <2>1 DEF FindUser, Lookup
  <2>3. CASE subIndex[s] = NoUser
    <3>1. PICK g : /\ g = [at |-> IF i \in Invites THEN "invited" ELSE "uninvited", sub |-> s, code |-> i]
                   /\ handler' = [handler EXCEPT ![p] = g]
      BY <2>1, <2>3 DEF FindUser, Lookup, Go
    <3>2. AboutToAdmit(g)
      BY <3>1 DEF AboutToAdmit
    <3>3. QED
      BY <2>2, <3>1, <3>2, AccessMoves
  <2>4. CASE subIndex[s] # NoUser
    <3>1. userRec[subIndex[s]].active
      BY <2>1, <2>4 DEF FindUser, Lookup, IsActive
    <3>2. PICK g : /\ g = [at |-> "known", user |-> subIndex[s], rec |-> userRec[subIndex[s]]]
                   /\ handler' = [handler EXCEPT ![p] = g]
      BY <2>1, <2>4 DEF FindUser, Lookup, Go
    <3>3. AboutToAdmit(g)
      BY <3>1, <3>2 DEF AboutToAdmit
    <3>4. QED
      BY <2>2, <3>2, <3>3, AccessMoves
  <2>5. QED
    BY <2>3, <2>4
<1>4. CASE ReadInvite(p) \/ ServerDies(p)
  <2>1. UNCHANGED <<userRec, tokenEnd, clock, lastActive>>
    BY <1>4 DEF ReadInvite, ServerDies
  <2>2. PICK g : g = [at |-> "redeem", sub |-> h.sub, code |-> h.code, data |-> invite[h.code]]
    OBVIOUS
  <2>3. handler' = [handler EXCEPT ![p] = g] \/ handler' = [handler EXCEPT ![p] = Idle]
    BY <1>1, <1>4, <2>2 DEF ReadInvite, ServerDies, Go, Reply
  <2>4. AboutToAdmit(g)
    BY <2>2 DEF AboutToAdmit
  <2>5. QED
    BY <1>2, <2>1, <2>3, <2>4, AccessMoves
<1>5. CASE RedeemInvite(p)
  <2>1. PICK g : g = [at |-> "create", sub |-> h.sub, home |-> h.data.home, role |-> h.data.role]
    OBVIOUS
  <2>2. handler' = [handler EXCEPT ![p] = g] /\ UNCHANGED <<userRec, tokenEnd, clock, lastActive>>
    BY <1>1, <1>5, <2>1 DEF RedeemInvite, Redeem, Go
  <2>3. AboutToAdmit(g)
    BY <2>1 DEF AboutToAdmit
  <2>4. QED
    BY <2>2, <2>3, AccessMoves
<1>6. CASE ProvisionOwner(p)
  <2>1. UNCHANGED <<userRec, tokenEnd, clock, lastActive>>
    BY <1>6 DEF ProvisionOwner
  <2>2. CASE handler' = [handler EXCEPT ![p] = Idle]
    BY <1>2, <2>1, <2>2, AccessMoves
  <2>3. ASSUME NEW t \in Homes,
               handler' = [handler EXCEPT ![p] = [at |-> "create", sub |-> h.sub, home |-> t, role |-> "owner"]]
        PROVE  AccessInv'
    <3>1. PICK g : g = [at |-> "create", sub |-> h.sub, home |-> t, role |-> "owner"]
      OBVIOUS
    <3>2. AboutToAdmit(g)
      BY <3>1 DEF AboutToAdmit
    <3>3. QED
      BY <2>1, <2>3, <3>1, <3>2, AccessMoves
  <2>4. QED
    BY <1>1, <1>6, <2>2, <2>3 DEF ProvisionOwner, Go, Reply
<1>7. CASE ReadIndex(p) \/ WriteIndex(p)
  <2>1. PICK g : g = IF ReadIndex(p) THEN [at |-> "reindex", user |-> h.user, rec |-> h.rec, index |-> subIndex]
                                     ELSE [at |-> "first", user |-> h.user, rec |-> h.rec]
    OBVIOUS
  <2>2. handler' = [handler EXCEPT ![p] = g] /\ UNCHANGED <<userRec, tokenEnd, clock, lastActive>>
    BY <1>1, <1>7, <2>1 DEF ReadIndex, WriteIndex, Go
  <2>3. h.at \in {"index", "reindex"}
    BY <1>1, <1>7 DEF ReadIndex, WriteIndex, At
  <2>4. g.at \in {"reindex", "first"} /\ g.rec = h.rec
    BY <2>1
  <2>5. AboutToAdmit(g)
    BY <1>2, <2>3, <2>4 DEF AboutToAdmit
  <2>6. QED
    BY <2>2, <2>5, AccessMoves
<1>8. ASSUME NEW u \in UserIds, NEW rec, AdminReads(p, u, rec) PROVE AccessInv'
  <2>1. PICK g : g = [at |-> "admin", user |-> u, rec |-> rec]
    OBVIOUS
  <2>2. handler' = [handler EXCEPT ![p] = g] /\ UNCHANGED <<userRec, tokenEnd, clock, lastActive>>
    BY <1>8, <2>1 DEF AdminReads, Go
  <2>3. AboutToAdmit(g)
    BY <2>1 DEF AboutToAdmit
  <2>4. QED
    BY <2>2, <2>3, AccessMoves
<1>9. QED
  BY <1>3, <1>4, <1>5, <1>6, <1>7, <1>8 DEF DeactivateUser, UpdateRole

\* The steps that save a user, or give it a token.
LEMMA SavingStepsAdmit ==
  ASSUME AccountsInv, AccessInv, NEW p \in Servers,
         LoginKnown(p) \/ CreateUser(p) \/ FirstLogin(p) \/ BindOwner(p) \/ AdminWrites(p)
  PROVE  AccessInv'
<1>1. PICK h : h = handler[p]
  OBVIOUS
<1>2. HandlerAt(h) /\ AboutToAdmit(h) /\ AboutToAdmit(Idle) /\ Idle.at = "idle"
  BY <1>1 DEF AccountsInv, AccessInv, AboutToAdmit, Idle
<1>3. CASE LoginKnown(p) \/ AdminWrites(p)
  <2>1. /\ h.at \in {"known", "admin"} /\ SaveUser(h.user, h.rec) /\ UNCHANGED clock
        /\ handler' = [handler EXCEPT ![p] = Idle]
        /\ UNCHANGED tokenEnd \/ (h.at = "known" /\ IssueToken(h.user))
    BY <1>1, <1>3 DEF LoginKnown, AdminWrites, At, Reply
  <2>2. h.user \in UserIds /\ h.rec.active \in BOOLEAN /\ (h.at = "known" => h.rec.active)
    BY <1>2, <2>1 DEF HandlerAt, CopyOf, UserRecords, AboutToAdmit
  <2>3. SavesAndGoes(p, h.user, h.rec, Idle)
    BY <1>2, <2>1, <2>2 DEF SavesAndGoes
  <2>4. QED
    BY <2>2, <2>3, AccessSaves
<1>4. CASE CreateUser(p)
  <2>1. PICK rec : rec = [sub |-> h.sub, home |-> h.home, role |-> h.role, active |-> TRUE]
    OBVIOUS
  <2>2. PICK u \in UserIds : SaveUser(u, rec) /\ Go(p, [at |-> "index", user |-> u, rec |-> rec])
    BY <1>1, <1>4, <2>1 DEF CreateUser
  <2>3. PICK g : g = [at |-> "index", user |-> u, rec |-> rec]
    OBVIOUS
  <2>4. handler' = [handler EXCEPT ![p] = g] /\ UNCHANGED <<tokenEnd, clock>>
    BY <1>4, <2>2, <2>3 DEF CreateUser, Go
  <2>5. rec.active = TRUE /\ g.rec = rec /\ g.user = u
    BY <2>1, <2>3
  <2>6. SavesAndGoes(p, u, rec, g)
    BY <2>2, <2>4, <2>5 DEF SavesAndGoes
  <2>7. QED
    BY <2>6, AccessSaves
<1>5. CASE FirstLogin(p)
  <2>1. h.at = "first" /\ SaveUser(h.user, h.rec) /\ UNCHANGED clock
    BY <1>1, <1>5 DEF FirstLogin, At
  <2>2. h.user \in UserIds /\ h.rec.active \in BOOLEAN /\ h.rec.active
    BY <1>2, <2>1 DEF HandlerAt, CopyOf, UserRecords, AboutToAdmit
  <2>3. CASE IssueToken(h.user) /\ handler' = [handler EXCEPT ![p] = Idle]
    <3>1. SavesAndGoes(p, h.user, h.rec, Idle)
      BY <1>2, <2>1, <2>2, <2>3 DEF SavesAndGoes
    <3>2. QED
      BY <2>2, <3>1, AccessSaves
  <2>4. CASE ~(IssueToken(h.user) /\ handler' = [handler EXCEPT ![p] = Idle])
    <3>1. PICK g : g = [at |-> "bind", user |-> h.user, rec |-> h.rec, tenant |-> homeRec[h.rec.home]]
      OBVIOUS
    <3>2. handler' = [handler EXCEPT ![p] = g] /\ UNCHANGED tokenEnd
      BY <1>1, <1>5, <2>4, <3>1 DEF FirstLogin, Go, Reply
    <3>3. g.rec = h.rec /\ g.user = h.user
      BY <3>1
    <3>4. SavesAndGoes(p, h.user, h.rec, g)
      BY <2>1, <2>2, <3>2, <3>3 DEF SavesAndGoes
    <3>5. QED
      BY <2>2, <3>4, AccessSaves
  <2>5. QED
    BY <2>3, <2>4
<1>6. CASE BindOwner(p)
  <2>1. /\ h.at = "bind" /\ IssueToken(h.user) /\ handler' = [handler EXCEPT ![p] = Idle]
        /\ UNCHANGED <<userRec, clock, lastActive>>
    BY <1>1, <1>6 DEF BindOwner, At, Reply
  <2>2. h.user \in UserIds /\ lastActive[h.user] = clock
    BY <1>2, <2>1 DEF HandlerAt, CopyOf, AboutToAdmit
  <2>3. SeenStays
    BY <2>1 DEF SeenStays, AccessInv, LastSeen
  <2>4. LastSeen'
    BY <2>1, <2>2, AccountsAssumption DEF AccessInv, LastSeen, IssueToken, AccountsAssumption
  <2>5. handler'[p] = Idle /\ \A q \in Servers : q # p => handler'[q] = handler[q]
    BY <2>1 DEF AccountsInv, AccountShapes
  <2>6. AboutToAdmit(handler[p])'
    BY <1>2, <2>5 DEF AboutToAdmit
  <2>7. QED
    BY <2>3, <2>4, <2>5, <2>6, OthersStillAdmit DEF AccessInv
<1>7. QED
  BY <1>3, <1>4, <1>5, <1>6

\* Every step keeps tokens good only for those they are good for.
LEMMA AccessInvStep == AccountsInv /\ AccessInv /\ [AccountsNext]_accountVars => AccessInv'
<1> SUFFICES ASSUME AccountsInv, AccessInv, [AccountsNext]_accountVars PROVE AccessInv'
  OBVIOUS
<1>1. ASSUME NEW p \in Servers,
             \/ \E s \in People, i \in Invites \cup {"no code"} : FindUser(p, s, i)
             \/ ReadInvite(p) \/ RedeemInvite(p) \/ ProvisionOwner(p) \/ ReadIndex(p) \/ WriteIndex(p)
             \/ \E u \in UserIds : DeactivateUser(p, u) \/ \E r \in UserRoles : UpdateRole(p, u, r)
             \/ ServerDies(p)
      PROVE  AccessInv'
  BY <1>1, QuietStepsAdmit
<1>2. ASSUME NEW p \in Servers,
             LoginKnown(p) \/ CreateUser(p) \/ FirstLogin(p) \/ BindOwner(p) \/ AdminWrites(p)
      PROVE  AccessInv'
  BY <1>2, SavingStepsAdmit
<1>3. CASE UNCHANGED <<userRec, handler, tokenEnd, clock, lastActive>>
  BY <1>3 DEF AccessInv, LastSeen, AboutToAdmit
<1>4. CASE ClockMoves
  <2>1. /\ clock' = clock + 1 /\ UNCHANGED <<userRec, handler, tokenEnd>>
        /\ lastActive' = [u \in UserIds |-> IF userRec[u].active THEN clock + 1 ELSE lastActive[u]]
        /\ \A p \in Servers : handler[p].at = "idle"
    BY <1>4 DEF ClockMoves, At
  <2>2. LastSeen'
    BY <2>1, AccountsAssumption DEF AccessInv, LastSeen, AccountsAssumption
  <2>3. QED
    BY <2>1, <2>2 DEF AccessInv, AboutToAdmit
<1>5. ASSUME NEW i \in Invites, NEW t \in Homes, NEW s \in People, NEW r \in UserRoles,
             CreateInvite(i, t, s, r)
      PROVE  AccessInv'
  BY <1>3, <1>5 DEF CreateInvite
<1>6. ASSUME NEW t \in Homes, HomeOff(t) PROVE AccessInv'
  BY <1>3, <1>6 DEF HomeOff
<1>7. CASE UNCHANGED accountVars
  BY <1>3, <1>7 DEF accountVars
<1>8. QED
  BY <1>1, <1>2, <1>4, <1>5, <1>6, <1>7 DEF AccountsNext

\* deactivate_user: nobody is asked whether a user is still active until the next login,
\* so a token may outlive its user, but not by more than its life.
THEOREM AccessEndsAlways == AccountsSpec => []AccessEnds
<1>1. AccountsInit => AccessInv
  BY DEF AccountsInit, AccessInv, LastSeen, AboutToAdmit, NoToken, NoRec, Idle
<1>2. AccessInv => AccessEnds
  BY AccountsAssumption DEF AccessInv, LastSeen, AccessEnds, NoToken, AccountsAssumption
<1>3. QED
  BY <1>1, <1>2, AccountsInvInit, AccountsInvStep, AccessInvStep, PTL DEF AccountsSpec

------------------------------------------------------------------------------
(***************************************************************************)
(* The notes the webhook API keeps of the jobs it accepted: the most       *)
(* recent ones are known, for any processes, sessions and length of the    *)
(* notes.                                                                  *)
(***************************************************************************)

JobTypes == {"pipeline_run", "digest_generate", "llm_generate", "tenant_operation", "notion_sync",
             "board_analysis", "scoring_config", "notebooklm_extract", "notebooklm"}
JobRecords == [id : Nat, tenant : {s.tenant : s \in Sessions}, type : JobTypes]

JobShapes ==
  /\ jobNote \in [Apis -> Seq(JobRecords)]
  /\ jobQueue \in [Apis -> Seq(JobRecords)]
  /\ accepted \in Seq([by : Apis, for : Sessions])

\* The notes are those of the end of the queue, and of a long end of it.
NotesOf(notes, queue) ==
  /\ Len(notes) <= JobHistory /\ Len(notes) <= Len(queue)
  /\ Len(notes) = Len(queue) \/ Len(notes) >= JobHistory - JobsEvicted + 1
  /\ \A n \in 1..Len(notes) :
       /\ notes[n].id = queue[Len(queue) - Len(notes) + n].id
       /\ notes[n].tenant = queue[Len(queue) - Len(notes) + n].tenant

\* The ids of a queue ascend.
Ascending(queue) ==
  /\ \A i, j \in 1..Len(queue) : i < j => queue[i].id < queue[j].id
  /\ \A i \in 1..Len(queue) : queue[i].id <= Len(accepted)

JobInv ==
  /\ JobShapes
  /\ \A a \in Apis : NotesOf(jobNote[a], jobQueue[a]) /\ Ascending(jobQueue[a])
  /\ \A j \in DOMAIN accepted : MayUse(accepted[j].for, "view:pipeline_runs")

\* Whoever has any permission of rbac.py may look at the runs.
LEMMA WhoActsMayPoll ==
  ASSUME NEW s, NEW p, MayUse(s, p)
  PROVE  MayUse(s, "view:pipeline_runs")
<1>1. ASSUME NEW tier, NEW q, Grants(TierPermissions(tier), q) PROVE "view:pipeline_runs" \in TierPermissions(tier)
  <2>1. "view:pipeline_runs" \in FreeTier /\ "view:pipeline_runs" \in StandardTier /\ "view:pipeline_runs" \in Everything
    BY DEF FreeTier, StandardTier, Everything
  <2>2. CASE tier \in {"free", "standard", "premium", "demo", "vip", "admin"}
    BY <2>1, <2>2 DEF TierPermissions
  <2>3. CASE tier \notin {"free", "standard", "premium", "demo", "vip", "admin"}
    <3>1. TierPermissions(tier) = {}
      BY <2>3 DEF TierPermissions
    <3>2. QED
      BY <1>1, <3>1 DEF Grants
  <2>4. QED
    BY <2>2, <2>3
<1>2. ASSUME NEW role, NEW q, Grants(UserPermissions(role), q) PROVE "view:pipeline_runs" \in UserPermissions(role)
  <2>1. /\ "view:pipeline_runs" \in MemberRole /\ "view:pipeline_runs" \in ViewerRole /\ "view:pipeline_runs" \in Everything
        /\ "view:pipeline_runs" \in ViewerRole \ {"generate:digest"}
    BY DEF MemberRole, ViewerRole, Everything
  <2>2. CASE role \in {"owner", "admin", "member", "viewer", "demo"}
    BY <2>1, <2>2 DEF UserPermissions
  <2>3. CASE role \notin {"owner", "admin", "member", "viewer", "demo"}
    <3>1. UserPermissions(role) = {}
      BY <2>3 DEF UserPermissions
    <3>2. QED
      BY <1>2, <3>1 DEF Grants
  <2>4. QED
    BY <2>2, <2>3
<1>3. Grants(TierPermissions(s.tier), "view:pipeline_runs")
  BY <1>1 DEF MayUse, Grants
<1>4. s.role = NoRole \/ Grants(UserPermissions(s.role), "view:pipeline_runs")
  BY <1>2 DEF MayUse, Grants
<1>5. QED
  BY <1>3, <1>4 DEF MayUse

\* _track_job: one job more in the queue, the same one more in the notes, and the oldest
\* notes gone when there were as many as may be.
LEMMA NotesFollow ==
  ASSUME NEW notes \in Seq(JobRecords), NEW queue \in Seq(JobRecords), NotesOf(notes, queue),
         NEW job \in JobRecords, NEW noted \in JobRecords, noted.id = job.id, noted.tenant = job.tenant
  PROVE  /\ Append(Evicted(notes), noted) \in Seq(JobRecords)
         /\ NotesOf(Append(Evicted(notes), noted), Append(queue, job))
<1> DEFINE kept == Evicted(notes)
           more == Append(kept, noted)
           longer == Append(queue, job)
<1>1. /\ Len(notes) \in Nat /\ Len(queue) \in Nat
      /\ JobHistory \in Nat /\ JobsEvicted \in Nat /\ 1 <= JobsEvicted /\ JobsEvicted <= JobHistory
  BY JobTrackingAssumption DEF JobTrackingAssumption
<1>2. /\ kept \in Seq(JobRecords) /\ Len(kept) \in Nat
      /\ Len(kept) = IF Len(notes) >= JobHistory THEN Len(notes) - JobsEvicted ELSE Len(notes)
      /\ \A n \in 1..Len(kept) : kept[n] = notes[Len(notes) - Len(kept) + n]
  <2>1. CASE Len(notes) >= JobHistory
    <3>1. \A i \in (JobsEvicted + 1)..Len(notes) : notes[i] \in JobRecords
      BY <1>1
    <3>2. /\ SubSeq(notes, JobsEvicted + 1, Len(notes)) \in Seq(JobRecords)
          /\ Len(SubSeq(notes, JobsEvicted + 1, Len(notes))) =
               IF JobsEvicted + 1 <= Len(notes) THEN Len(notes) - (JobsEvicted + 1) + 1 ELSE 0
          /\ \A i \in 1..(Len(notes) - (JobsEvicted + 1) + 1) :
               SubSeq(notes, JobsEvicted + 1, Len(notes))[i] = notes[(JobsEvicted + 1) + i - 1]
      BY <1>1, <3>1, SubSeqProperties
    <3>3. kept = SubSeq(notes, JobsEvicted + 1, Len(notes))
      BY <2>1 DEF Evicted
    <3>4. Len(kept) = Len(notes) - JobsEvicted /\ Len(kept) \in Nat
      BY <1>1, <2>1, <3>2, <3>3
    <3>5. ASSUME NEW n \in 1..Len(kept) PROVE kept[n] = notes[Len(notes) - Len(kept) + n]
      <4>1. n \in 1..(Len(notes) - (JobsEvicted + 1) + 1) /\ (JobsEvicted + 1) + n - 1 = Len(notes) - Len(kept) + n
        BY <1>1, <3>4
      <4>2. QED
        BY <3>2, <3>3, <4>1
    <3>6. QED
      BY <2>1, <3>2, <3>3, <3>4, <3>5
  <2>2. CASE ~(Len(notes) >= JobHistory)
    BY <1>1, <2>2 DEF Evicted
  <2>3. QED
    BY <2>1, <2>2
<1> HIDE DEF kept
<1>3. /\ more \in Seq(JobRecords) /\ Len(more) = Len(kept) + 1 /\ more[Len(kept) + 1] = noted
      /\ \A n \in 1..Len(kept) : more[n] = kept[n]
      /\ Len(longer) = Len(queue) + 1 /\ longer[Len(queue) + 1] = job
      /\ \A n \in 1..Len(queue) : longer[n] = queue[n]
  BY <1>2
<1> HIDE DEF more, longer
<1>4. Len(more) <= JobHistory /\ Len(more) <= Len(longer)
  BY <1>1, <1>2, <1>3 DEF NotesOf
<1>5. Len(more) = Len(longer) \/ Len(more) >= JobHistory - JobsEvicted + 1
  BY <1>1, <1>2, <1>3 DEF NotesOf
<1>6. ASSUME NEW n \in 1..Len(more)
      PROVE  /\ more[n].id = longer[Len(longer) - Len(more) + n].id
             /\ more[n].tenant = longer[Len(longer) - Len(more) + n].tenant
  <2>1. CASE n = Len(kept) + 1
    <3>1. Len(kept) \in Nat /\ Len(more) = Len(kept) + 1 /\ Len(longer) = Len(queue) + 1 /\ Len(queue) \in Nat
      BY <1>1, <1>2, <1>3
    <3>2. Len(longer) - Len(more) + n = Len(queue) + 1
      BY <2>1, <3>1
    <3>3. QED
      BY <1>3, <2>1, <3>2
  <2>2. CASE n \in 1..Len(kept)
    <3>1. Len(notes) - Len(kept) + n \in 1..Len(notes)
      BY <1>1, <1>2, <2>2
    <3>2. Len(longer) - Len(more) + n = Len(queue) - Len(notes) + (Len(notes) - Len(kept) + n)
      BY <1>1, <1>2, <1>3, <2>2
    <3>3. Len(longer) - Len(more) + n \in 1..Len(queue)
      BY <1>1, <1>2, <1>3, <2>2, <3>1 DEF NotesOf
    <3>4. more[n] = notes[Len(notes) - Len(kept) + n]
      BY <1>2, <1>3, <2>2
    <3>5. longer[Len(longer) - Len(more) + n] = queue[Len(queue) - Len(notes) + (Len(notes) - Len(kept) + n)]
      BY <1>3, <3>2, <3>3
    <3>6. QED
      BY <3>1, <3>4, <3>5 DEF NotesOf
  <2>3. QED
    BY <1>2, <1>3, <2>1, <2>2
<1>7. QED
  BY <1>3, <1>4, <1>5, <1>6 DEF NotesOf, more, longer, kept

\* The queue grows by the job that is numbered last.
LEMMA QueueAscends ==
  ASSUME NEW queue \in Seq(JobRecords), NEW count \in Nat,
         \A i, j \in 1..Len(queue) : i < j => queue[i].id < queue[j].id,
         \A i \in 1..Len(queue) : queue[i].id <= count,
         NEW job \in JobRecords, job.id = count + 1
  PROVE  /\ Append(queue, job) \in Seq(JobRecords)
         /\ \A i, j \in 1..Len(Append(queue, job)) : i < j => Append(queue, job)[i].id < Append(queue, job)[j].id
         /\ \A i \in 1..Len(Append(queue, job)) : Append(queue, job)[i].id <= count + 1
<1> DEFINE longer == Append(queue, job)
<1>1. /\ longer \in Seq(JobRecords) /\ Len(longer) = Len(queue) + 1 /\ longer[Len(queue) + 1] = job
      /\ \A n \in 1..Len(queue) : longer[n] = queue[n] /\ queue[n] \in JobRecords
      /\ Len(queue) \in Nat
  OBVIOUS
<1> HIDE DEF longer
<1>2. \A n \in 1..Len(queue) : longer[n].id = queue[n].id /\ queue[n].id \in Nat /\ queue[n].id < job.id
  BY <1>1 DEF JobRecords
<1>3. \A i, j \in 1..Len(longer) : i < j => longer[i].id < longer[j].id
  <2>1. SUFFICES ASSUME NEW i \in 1..Len(longer), NEW j \in 1..Len(longer), i < j
                 PROVE  longer[i].id < longer[j].id
    OBVIOUS
  <2>2. i \in 1..Len(queue) /\ (j \in 1..Len(queue) \/ j = Len(queue) + 1)
    BY <1>1, <2>1
  <2>3. CASE j \in 1..Len(queue)
    <3>1. queue[i].id < queue[j].id
      BY <2>1, <2>2, <2>3
    <3>2. QED
      BY <1>2, <2>2, <2>3, <3>1
  <2>4. CASE j = Len(queue) + 1
    BY <1>1, <1>2, <2>2, <2>4
  <2>5. QED
    BY <2>2, <2>3, <2>4
<1>4. \A i \in 1..Len(longer) : longer[i].id <= count + 1
  BY <1>1, <1>2 DEF JobRecords
<1>5. QED
  BY <1>1, <1>3, <1>4 DEF longer

\* An accepted job is queued and noted under one id, the oldest notes going first.
LEMMA AcceptKeeps ==
  ASSUME JobInv, NEW a \in Apis, NEW s \in Sessions, NEW permission, NEW type \in JobTypes, NEW noted \in JobTypes,
         Accept(a, s, permission, type, noted)
  PROVE  JobInv'
<1>1. PICK job : job = [id |-> Len(accepted) + 1, tenant |-> s.tenant, type |-> type]
  OBVIOUS
<1>2. PICK note : note = [id |-> Len(accepted) + 1, tenant |-> s.tenant, type |-> noted]
  OBVIOUS
<1>3. /\ jobQueue' = [jobQueue EXCEPT ![a] = Append(jobQueue[a], job)]
      /\ jobNote' = [jobNote EXCEPT ![a] = Append(Evicted(jobNote[a]), note)]
      /\ accepted' = Append(accepted, [by |-> a, for |-> s])
      /\ MayUse(s, permission)
  BY <1>1, <1>2 DEF Accept
<1>4. PICK call : call = [by |-> a, for |-> s]
  OBVIOUS
<1>5. /\ accepted \in Seq([by : Apis, for : Sessions]) /\ call \in [by : Apis, for : Sessions]
      /\ accepted' = Append(accepted, call) /\ call.for = s
  BY <1>3, <1>4 DEF JobInv, JobShapes
<1>6. /\ accepted' \in Seq([by : Apis, for : Sessions]) /\ Len(accepted') = Len(accepted) + 1 /\ Len(accepted) \in Nat
      /\ \A j \in DOMAIN accepted' : accepted'[j] = call \/ (j \in DOMAIN accepted /\ accepted'[j] = accepted[j])
  BY <1>5
<1>7. \A j \in DOMAIN accepted' : MayUse(accepted'[j].for, "view:pipeline_runs")
  <2>1. MayUse(call.for, "view:pipeline_runs")
    BY <1>3, <1>5, WhoActsMayPoll
  <2>2. QED
    BY <1>6, <2>1 DEF JobInv
<1>8. job \in JobRecords /\ note \in JobRecords /\ job.id = Len(accepted) + 1 /\ note.id = job.id /\ note.tenant = job.tenant
  BY <1>1, <1>2, <1>6 DEF JobRecords
<1>9. PICK queue, notes : queue = jobQueue[a] /\ notes = jobNote[a]
  OBVIOUS
<1>10. /\ queue \in Seq(JobRecords) /\ notes \in Seq(JobRecords) /\ NotesOf(notes, queue) /\ Ascending(queue)
  BY <1>9 DEF JobInv, JobShapes
<1>11. PICK longer, more : longer = Append(queue, job) /\ more = Append(Evicted(notes), note)
  OBVIOUS
<1>12. more \in Seq(JobRecords) /\ NotesOf(more, longer)
  BY <1>8, <1>10, <1>11, NotesFollow
<1>13. longer \in Seq(JobRecords) /\ Ascending(longer)'
  BY <1>6, <1>8, <1>10, <1>11, QueueAscends DEF Ascending
<1>14. /\ jobQueue' \in [Apis -> Seq(JobRecords)] /\ jobNote' \in [Apis -> Seq(JobRecords)]
       /\ jobQueue'[a] = longer /\ jobNote'[a] = more
       /\ \A b \in Apis : b # a => jobQueue'[b] = jobQueue[b] /\ jobNote'[b] = jobNote[b]
  BY <1>3, <1>9, <1>11, <1>12, <1>13 DEF JobInv, JobShapes
<1>15. ASSUME NEW b \in Apis PROVE NotesOf(jobNote[b], jobQueue[b])' /\ Ascending(jobQueue[b])'
  <2>1. CASE b = a
    BY <1>12, <1>13, <1>14, <2>1 DEF NotesOf, Ascending
  <2>2. CASE b # a
    <3>1. PICK other : other = jobQueue[b]
      OBVIOUS
    <3>2. other \in Seq(JobRecords) /\ Ascending(other) /\ NotesOf(jobNote[b], other)
      BY <3>1 DEF JobInv, JobShapes
    <3>3. \A i \in 1..Len(other) : other[i] \in JobRecords
      BY <3>2
    <3>4. Ascending(other)'
      <4>1. /\ \A i, j \in 1..Len(other) : i < j => other[i].id < other[j].id
            /\ \A i \in 1..Len(other) : other[i].id \in Nat /\ other[i].id <= Len(accepted)
        BY <3>2, <3>3 DEF Ascending, JobRecords
      <4>2. \A i \in 1..Len(other) : other[i].id <= Len(accepted')
        BY <1>6, <4>1
      <4>3. QED
        BY <4>1, <4>2 DEF Ascending
    <3>5. QED
      BY <1>14, <2>2, <3>1, <3>2, <3>4 DEF NotesOf, Ascending
  <2>3. QED
    BY <2>1, <2>2
<1>16. QED
  BY <1>6, <1>7, <1>14, <1>15 DEF JobInv, JobShapes

\* Nothing is queued or noted at first.
LEMMA JobInvInit == JobInit => JobInv
<1> SUFFICES ASSUME JobInit PROVE JobInv
  OBVIOUS
<1>1. JobShapes
  BY DEF JobInit, JobShapes
<1>2. ASSUME NEW a \in Apis PROVE NotesOf(jobNote[a], jobQueue[a]) /\ Ascending(jobQueue[a])
  BY JobTrackingAssumption DEF JobInit, NotesOf, Ascending, JobTrackingAssumption
<1>3. QED
  BY <1>1, <1>2 DEF JobInit, JobInv

\* Every step keeps the notes at the end of the queue.
LEMMA JobInvStep == JobInv /\ [JobNext]_jobVars => JobInv'
<1> SUFFICES ASSUME JobInv, [JobNext]_jobVars PROVE JobInv'
  OBVIOUS
<1>1. ASSUME NEW a \in Apis, RestartApi(a) PROVE JobInv'
  <2>1. /\ jobNote' = [jobNote EXCEPT ![a] = <<>>] /\ jobQueue' = [jobQueue EXCEPT ![a] = <<>>]
        /\ accepted' = accepted
    BY <1>1 DEF RestartApi
  <2>2. JobShapes'
    BY <2>1 DEF JobInv, JobShapes
  <2>3. /\ jobNote'[a] = <<>> /\ jobQueue'[a] = <<>>
        /\ \A b \in Apis : b # a => jobQueue'[b] = jobQueue[b] /\ jobNote'[b] = jobNote[b]
    BY <2>1 DEF JobInv, JobShapes
  <2>4. ASSUME NEW b \in Apis PROVE NotesOf(jobNote[b], jobQueue[b])' /\ Ascending(jobQueue[b])'
    <3>1. CASE b = a
      <4>1. PICK none : none = <<>>
        OBVIOUS
      <4>2. NotesOf(none, none) /\ Ascending(none)'
        BY <4>1, JobTrackingAssumption DEF NotesOf, Ascending, JobTrackingAssumption
      <4>3. jobNote'[b] = none /\ jobQueue'[b] = none
        BY <2>3, <3>1, <4>1
      <4>4. QED
        BY <4>2, <4>3 DEF NotesOf, Ascending
    <3>2. CASE b # a
      <4>1. NotesOf(jobNote[b], jobQueue[b]) /\ Ascending(jobQueue[b])
        BY DEF JobInv
      <4>2. QED
        BY <2>1, <2>3, <3>2, <4>1 DEF NotesOf, Ascending
    <3>3. QED
      BY <3>1, <3>2
  <2>5. QED
    BY <2>1, <2>2, <2>4 DEF JobInv
<1>2. ASSUME NEW a \in Apis, NEW s \in Sessions,
             \/ TriggerPipeline(a, s) \/ TriggerDigest(a, s) \/ TriggerLLM(a, s) \/ TenantOperation(a, s)
             \/ NotionSync(a, s) \/ BoardAnalysis(a, s) \/ ScoringConfig(a, s) \/ NotebookLM(a, s)
      PROVE  JobInv'
  <2>1. CASE TriggerPipeline(a, s)
    BY <2>1, AcceptKeeps DEF TriggerPipeline, JobTypes
  <2>2. CASE TriggerDigest(a, s)
    BY <2>2, AcceptKeeps DEF TriggerDigest, JobTypes
  <2>3. CASE TriggerLLM(a, s)
    BY <2>3, AcceptKeeps DEF TriggerLLM, JobTypes
  <2>4. CASE TenantOperation(a, s)
    BY <2>4, AcceptKeeps DEF TenantOperation, JobTypes
  <2>5. CASE NotionSync(a, s)
    BY <2>5, AcceptKeeps DEF NotionSync, JobTypes
  <2>6. CASE BoardAnalysis(a, s)
    BY <2>6, AcceptKeeps DEF BoardAnalysis, JobTypes
  <2>7. CASE ScoringConfig(a, s)
    BY <2>7, AcceptKeeps DEF ScoringConfig, JobTypes
  <2>8. CASE NotebookLM(a, s)
    BY <2>8, AcceptKeeps DEF NotebookLM, JobTypes
  <2>9. QED
    BY <1>2, <2>1, <2>2, <2>3, <2>4, <2>5, <2>6, <2>7, <2>8
<1>3. ASSUME UNCHANGED <<jobNote, jobQueue, accepted>> PROVE JobInv'
  BY <1>3 DEF JobInv, JobShapes, NotesOf, Ascending
<1>4. ASSUME NEW a \in Apis, NEW s \in Sessions, NEW j \in DOMAIN accepted, Poll(a, s, j) PROVE JobInv'
  BY <1>3, <1>4 DEF Poll
<1>5. CASE UNCHANGED jobVars
  BY <1>3, <1>5 DEF jobVars
<1>6. QED
  BY <1>1, <1>2, <1>4, <1>5 DEF JobNext

\* _track_job: the sweep may forget finished and waiting jobs alike, but never one of the
\* last 901 accepted by the process; each is noted once, for the tenant it was queued
\* for; and whoever may start a job may also poll it.
THEOREM RecentJobsKnownAlways == JobSpec => []RecentJobsKnown
<1>1. JobInv => RecentJobsKnown
  <2> SUFFICES ASSUME JobInv, NEW a \in Apis, NEW n \in Latest(a)
               PROVE  \E k \in DOMAIN jobNote[a] :
                        /\ jobNote[a][k].id = jobQueue[a][n].id /\ jobNote[a][k].tenant = jobQueue[a][n].tenant
                        /\ \A k2 \in DOMAIN jobNote[a] \ {k} : jobNote[a][k2].id # jobNote[a][k].id
    BY DEF RecentJobsKnown, JobInv
  <2>1. PICK queue, notes : queue = jobQueue[a] /\ notes = jobNote[a]
    OBVIOUS
  <2>2. /\ queue \in Seq(JobRecords) /\ notes \in Seq(JobRecords) /\ NotesOf(notes, queue) /\ Ascending(queue)
        /\ n \in 1..Len(queue) /\ n > Len(queue) - (JobHistory - JobsEvicted + 1)
    BY <2>1 DEF JobInv, JobShapes, Latest
  <2>3. /\ Len(queue) \in Nat /\ Len(notes) \in Nat /\ DOMAIN notes = 1..Len(notes)
        /\ JobHistory \in Nat /\ JobsEvicted \in Nat
    BY <2>2, JobTrackingAssumption DEF JobTrackingAssumption
  <2>4. PICK k : k = n - (Len(queue) - Len(notes))
    OBVIOUS
  <2>5. k \in 1..Len(notes) /\ n = Len(queue) - Len(notes) + k
    BY <2>2, <2>3, <2>4 DEF NotesOf
  <2>6. \A i \in 1..Len(queue) : queue[i].id \in Nat
    <3>1. \A i \in 1..Len(queue) : queue[i] \in JobRecords
      BY <2>2
    <3>2. QED
      BY <3>1 DEF JobRecords
  <2>7. ASSUME NEW k2 \in 1..Len(notes), k2 # k PROVE notes[k2].id # notes[k].id
    <3>1. Len(queue) - Len(notes) + k2 \in 1..Len(queue) /\ Len(queue) - Len(notes) + k2 # n
      BY <2>2, <2>3, <2>5, <2>7 DEF NotesOf
    <3>2. queue[Len(queue) - Len(notes) + k2].id # queue[n].id
      <4>1. PICK m \in 1..Len(queue) : m = Len(queue) - Len(notes) + k2
        BY <3>1
      <4>2. m \in Nat /\ n \in Nat /\ m # n
        BY <2>2, <3>1, <4>1
      <4>3. \A i, j \in 1..Len(queue) : i < j => queue[i].id < queue[j].id
        BY <2>2 DEF Ascending
      <4>4. CASE m < n
        BY <2>2, <2>6, <4>1, <4>3, <4>4
      <4>5. CASE n < m
        BY <2>2, <2>6, <4>1, <4>3, <4>5
      <4>6. QED
        BY <4>2, <4>4, <4>5
    <3>3. QED
      BY <2>2, <2>5, <3>2 DEF NotesOf
  <2>8. QED
    BY <2>1, <2>2, <2>3, <2>5, <2>7 DEF NotesOf
<1>2. QED
  BY <1>1, JobInvInit, JobInvStep, PTL DEF JobSpec

==============================================================================
