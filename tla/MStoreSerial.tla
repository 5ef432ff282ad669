---------------------------- MODULE MStoreSerial ----------------------------
(***************************************************************************)
(* The store implements SerialStore.  A history variable follows, for each *)
(* transaction, the worlds that fit the answers it got from its copies;    *)
(* the tree is what the valid entries hold.                                *)
(***************************************************************************)
EXTENDS MStore, SerialTree

VARIABLE worlds \* history: see SerialStore

(* The tree as clients outside transactions see it.                        *)
Visible(d) ==
    [p \in Path |-> [exists |-> IsValid(d[p].e),
                     value |-> IF IsValid(d[p].e) THEN d[p].e.value ELSE EmptyValue,
                     perms |-> IF IsValid(d[p].e) THEN d[p].e.perms ELSE <<>>,
                     children |-> IF IsValid(d[p].e) THEN d[p].e.children ELSE {}]]

Serial == INSTANCE SerialStore WITH contents <- Visible(db), open <- trans

(* The node transaction t finds at p.                                      *)
Found(t, p) ==
    LET te == FetchChildren(Open(db[p], t), t).te[t]
    IN  [exists |-> IsValid(te), value |-> te.value, perms |-> te.perms,
         children |-> CurrentChildren(te)]

(* Transaction t made request r and got its answer.                        *)
Asked(t, r) ==
    worlds' = [worlds EXCEPT ![t] =
                  Answered(@, r, Answer(Found(t, r.path), r))]

InsideNext(t, p) ==
    \/ TransCreate(t, p) /\ Asked(t, Create(p))
    \/ TransRead(t, p) /\ Asked(t, Read(p))
    \/ \E c \in Cid :
          \/ TransGetChildren(t, p, c) /\ Asked(t, GetChildren(p, c))
          \/ TransDel(t, p, c) /\ Asked(t, Del(p, c))
          \/ \E v \in Value :
                TransUpdate(t, p, c, v) /\ Asked(t, Update(p, c, v))
          \/ \E perms \in PermLists :
                TransSetPerms(t, p, c, perms) /\ Asked(t, SetPerms(p, c, perms))

SerialInit == Init /\ worlds = [t \in Tid |-> {}]

SerialNext ==
    \/ SimpleNext /\ UNCHANGED worlds
    \/ \E t \in trans, p \in Path : InsideNext(t, p)
    \/ /\ Branch
       /\ worlds' = IF next_tid \in trans THEN worlds
                    ELSE [worlds EXCEPT ![next_tid] = Fresh]
    \/ \E t \in trans : /\ Merge(t) \/ Abort(t)
                        /\ worlds' = [worlds EXCEPT ![t] = {}]

serialVars == <<vars, worlds>>

SerialSpec == SerialInit /\ [][SerialNext]_serialVars

-----------------------------------------------------------------------------
(* Properties.                                                             *)

(* Transactions are serializable: one that commits could have run, with    *)
(* the very answers it got, all at once when it was merged; what it does   *)
(* before is invisible, and if it aborts leaves no trace (mstore.cc:200,   *)
(* transaction.cc:281).                                                    *)
Serializable == Serial!Spec

=============================================================================
