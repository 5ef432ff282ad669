----------------------------- MODULE MStoreTree -----------------------------
(* The store with a history variable that remembers the entries which      *)
(* committed transactions deleted and that are still there: do_merge does  *)
(* not remove them.  All other entries form a tree.                        *)
EXTENDS MStore

VARIABLE undead \* history: entries deleted by a commit and still valid

DeletedBy(t) == {p \in Records(t) : CanMerge(t) /\ Deleted(db[p].te[t])}

StillValid(ps) == {p \in ps : IsValid(db'[p].e)}

TreeNext ==
    \/ /\ SimpleNext \/ Branch \/ (\E t \in trans : TransNext(t) \/ Abort(t))
       /\ undead' = StillValid(undead)
    \/ \E t \in trans :
          /\ Merge(t)
          /\ undead' = StillValid(undead \cup DeletedBy(t))

TreeSpec == Init /\ undead = {} /\ [][TreeNext]_<<vars, undead>>

(* Every valid entry hangs off a valid parent that lists it, back to the   *)
(* root: what register_with_parent, unregister_from_parent and             *)
(* get_parent_perms take for granted (simple_access.cc:268, 286, 332).     *)
(* The only ones that do not are those a committed transaction deleted.    *)
TreeConsistent ==
    \A p \in Path \ ({<<>>} \cup undead) : IsValid(db[p].e) =>
        IsValid(db[Parent(p)].e) /\ Base(p) \in db[Parent(p)].e.children

=============================================================================
