---------------------------- MODULE AtomicStore ----------------------------
(***************************************************************************)
(* What the users of brain/storage take a backend for: documents that are  *)
(* written, deleted and read in one step each.                             *)
(***************************************************************************)
CONSTANTS StoreUsers, StoreKeys, Documents, Absent

VARIABLES content,   \* what each key holds
          answer     \* what each user's last read returned

storeVars == <<content, answer>>

StoreInit ==
  /\ content = [k \in StoreKeys |-> Absent]
  /\ answer = [u \in StoreUsers |-> Absent]

Put(k, d) == content' = [content EXCEPT ![k] = d] /\ UNCHANGED answer

Remove(k) == content' = [content EXCEPT ![k] = Absent] /\ UNCHANGED answer

Get(u, k) == answer' = [answer EXCEPT ![u] = content[k]] /\ UNCHANGED content

StoreNext ==
  \/ \E k \in StoreKeys : Remove(k) \/ \E d \in Documents : Put(k, d)
  \/ \E u \in StoreUsers, k \in StoreKeys : Get(u, k)

StoreSpec == StoreInit /\ [][StoreNext]_storeVars
=============================================================================
