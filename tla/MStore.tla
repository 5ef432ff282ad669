------------------------------- MODULE MStore -------------------------------
(***************************************************************************)
(* The in-memory store of lixs (inc/lixs/mstore, lib/lixs/mstore): a tree  *)
(* of entries that clients change directly (simple_access) or inside       *)
(* optimistic transactions (transaction).  A transaction keeps a private   *)
(* copy (tentry) of every record it references and is merged only if       *)
(* nothing it relied on changed meanwhile, which the per-record sequence   *)
(* numbers decide.                                                         *)
(*                                                                         *)
(* The program handles one request at a time, so every operation of the    *)
(* store is one atomic action.  Each action is built from operators on a   *)
(* single record, named after the code's own helpers; the recursion of     *)
(* ensure_branch and delete_branch along the tree is written in closed     *)
(* form, as the set of paths it visits.                                    *)
(***************************************************************************)
EXTENDS StoreTree

CONSTANT TidMod \* unsigned int wraps at TidMod (2^32 in the program)

Tid == 0 .. TidMod - 1

ASSUME TidAssumption == TidMod \in Nat /\ TidMod > 1

VARIABLES
    db,       \* store::db: the record of every path
    trans,    \* keys of store::trans: the open transactions
    next_tid  \* store::next_tid

vars == <<db, trans, next_tid>>

-----------------------------------------------------------------------------
(* Records (database.hh).                                                  *)

Entry == [value : Value, perms : PermList, children : SUBSET Name,
          write_seq : Nat, delete_seq : Nat, write_children_seq : Nat]

Tentry == [value : Value, perms : PermList, children : SUBSET Name,
           children_add : SUBSET Name, children_rem : SUBSET Name,
           init_seq : Nat, init_valid : BOOLEAN, read_seq : Nat,
           write_seq : Nat, delete_seq : Nat, read_children_seq : Nat]

Record == [e : Entry, te : [Tid -> Tentry], next_seq : Nat \ {0}]

(* A default-constructed tentry.  init_seq is never 0 once get_tentry ran, *)
(* so 0 stands for "not in the tentry_map".                                *)
NoTentry == [value |-> EmptyValue, perms |-> <<>>, children |-> {},
             children_add |-> {}, children_rem |-> {},
             init_seq |-> 0, init_valid |-> FALSE, read_seq |-> 0,
             write_seq |-> 0, delete_seq |-> 0, read_children_seq |-> 0]

NewEntry == [value |-> EmptyValue, perms |-> <<>>, children |-> {},
             write_seq |-> 0, delete_seq |-> 0, write_children_seq |-> 0]

(* A default-constructed record, which is also what db[path] yields for a  *)
(* path that is not in the database: every operation that leaves a record  *)
(* behind stamps it, so next_seq = 1 stands for "not in the database".     *)
NewRecord == [e |-> NewEntry, te |-> [t \in Tid |-> NoTentry], next_seq |-> 1]

(* An entry, or a transaction's copy of it, is valid when it was written   *)
(* after it was last deleted.                                              *)
IsValid(x) == x.write_seq > x.delete_seq

Touched(r, t) == r.te[t].init_seq # 0
Untouched(r) == \A t \in Tid : ~Touched(r, t)
Present(r) == r.next_seq > 1

-----------------------------------------------------------------------------
(* What simple_access does to one record.                                  *)

WriteEntry(r, v, perms) ==
    [r EXCEPT !.e = [@ EXCEPT !.value = v, !.perms = perms,
                              !.write_seq = r.next_seq],
              !.next_seq = @ + 1]

SetChildren(r, cs) ==
    [r EXCEPT !.e = [@ EXCEPT !.children = cs,
                              !.write_children_seq = r.next_seq],
              !.next_seq = @ + 1]

AddChild(r, c) == SetChildren(r, r.e.children \cup {c})

(* One unregister_from_parent for each name of cs.                         *)
RemoveChildren(r, cs) ==
    IF cs = {} THEN r
    ELSE [r EXCEPT !.e = [@ EXCEPT
                     !.children = r.e.children \ cs,
                     !.write_children_seq = r.next_seq + Cardinality(cs) - 1],
                   !.next_seq = @ + Cardinality(cs)]

(* A deleted entry leaves the database unless a transaction refers to it.  *)
MarkDeleted(r) ==
    IF Untouched(r) THEN NewRecord
    ELSE [r EXCEPT !.e.delete_seq = r.next_seq, !.next_seq = @ + 1]

-----------------------------------------------------------------------------
(* What a transaction t does to one record.                                *)

(* get_tentry: the first reference copies the entry's validity only.       *)
GetTentry(r, t) ==
    IF Touched(r, t) THEN r
    ELSE [r EXCEPT !.te[t] = [NoTentry EXCEPT
                      !.write_seq = r.e.write_seq,
                      !.delete_seq = r.e.delete_seq,
                      !.init_valid = IsValid(r.e),
                      !.init_seq = r.next_seq],
                   !.next_seq = @ + 1]

(* Nothing was written to or deleted from the copy since its first         *)
(* reference.                                                              *)
Pristine(te) == te.write_seq < te.init_seq /\ te.delete_seq < te.init_seq

(* A faulty FetchData that fetches again on every read.                    *)
FetchDataAgain(r, t) ==
    [r EXCEPT !.te[t] = [@ EXCEPT
                 !.value = IF Pristine(r.te[t]) THEN r.e.value ELSE r.te[t].value,
                 !.perms = IF Pristine(r.te[t]) THEN r.e.perms ELSE r.te[t].perms,
                 !.read_seq = IF r.te[t].read_seq # 0 THEN r.te[t].read_seq
                                                      ELSE r.next_seq],
              !.next_seq = @ + 1]

FetchData(r, t) ==
    LET te == r.te[t]
        copy == IF Pristine(te)
                THEN [te EXCEPT !.value = r.e.value, !.perms = r.e.perms]
                ELSE te
    IN  IF te.read_seq # 0 THEN r
        ELSE [r EXCEPT !.te[t] = [copy EXCEPT !.read_seq = r.next_seq],
                       !.next_seq = @ + 1]

FetchChildren(r, t) ==
    LET te == r.te[t]
        copy == IF IsValid(r.e)
                THEN [te EXCEPT !.children = @ \cup r.e.children]
                ELSE te
    IN  IF te.read_children_seq # 0 THEN r
        ELSE [r EXCEPT !.te[t] = [copy EXCEPT !.read_children_seq = r.next_seq],
                       !.next_seq = @ + 1]

CurrentChildren(te) == (te.children \cup te.children_add) \ te.children_rem

TWrite(r, t, v, perms) ==
    [r EXCEPT !.te[t] = [@ EXCEPT !.value = v, !.perms = perms,
                                  !.write_seq = r.next_seq],
              !.next_seq = @ + 1]

TAddChild(r, t, c) ==
    LET te == r.te[t]
    IN  [r EXCEPT !.te[t] = [te EXCEPT !.children_add = @ \cup {c},
                                       !.children_rem = @ \ {c}]]

TRemoveChildren(r, t, cs) ==
    LET te == r.te[t]
    IN  [r EXCEPT !.te[t] = [te EXCEPT !.children_rem = @ \cup cs,
                                       !.children_add = @ \ cs]]

TMarkDeleted(r, t) ==
    [r EXCEPT !.te[t] = [@ EXCEPT !.delete_seq = r.next_seq],
              !.next_seq = @ + 1]

(* A faulty CanMergeRec that forgets condition 2: data read, then written  *)
(* by someone else.                                                        *)
CanMergeRecUnread(r, t) ==
    LET te == r.te[t]
    IN  /\ IF te.init_valid THEN r.e.delete_seq <= te.init_seq
                            ELSE r.e.write_seq <= te.init_seq
        /\ te.read_children_seq # 0 =>
              r.e.write_children_seq <= te.read_children_seq

(* The conditions of can_merge on one record.                              *)
CanMergeRec(r, t) ==
    LET te == r.te[t]
    IN  /\ IF te.init_valid THEN r.e.delete_seq <= te.init_seq
                            ELSE r.e.write_seq <= te.init_seq
        /\ te.read_seq # 0 => r.e.write_seq <= te.read_seq
        /\ te.read_children_seq # 0 =>
              r.e.write_children_seq <= te.read_children_seq

DropTentry(r, t) == [r EXCEPT !.te[t] = NoTentry]

WroteData(te) == IsValid(te) /\ te.write_seq > te.init_seq
WroteChildren(te) == IsValid(te) /\ te.children_add \cup te.children_rem # {}
Deleted(te) == ~IsValid(te) /\ te.delete_seq > te.init_seq

(* A faulty Commit that writes back what was only read.                    *)
CommitReads(r, t) ==
    LET te == r.te[t]
        w  == IF IsValid(te) THEN WriteEntry(r, te.value, te.perms) ELSE r
    IN  IF WroteChildren(te)
        THEN SetChildren(w, (r.e.children \cup te.children_add) \ te.children_rem)
        ELSE w

(* The first half of do_merge's loop body.  For an entry the transaction   *)
(* deleted the code stamps the copy it is about to erase, never the entry. *)
Commit(r, t) ==
    LET te == r.te[t]
        w  == IF WroteData(te) THEN WriteEntry(r, te.value, te.perms) ELSE r
    IN  CASE WroteChildren(te) ->
               SetChildren(w, (r.e.children \cup te.children_add)
                                 \ te.children_rem)
          [] Deleted(te) -> [r EXCEPT !.next_seq = @ + 1]
          [] OTHER -> w

(* A faulty Cleanup that resets the numbers of a record still in use.      *)
CleanupInUse(r) ==
    IF IsValid(r.e)
    THEN [r EXCEPT !.e = [@ EXCEPT !.write_seq = 1, !.delete_seq = 0,
                                   !.write_children_seq = 0],
                   !.next_seq = 2]
    ELSE IF Untouched(r) THEN NewRecord ELSE r

(* Its second half: a record no transaction refers to has its sequence     *)
(* numbers reset, or leaves the database.                                  *)
Cleanup(r) ==
    IF ~Untouched(r) THEN r
    ELSE IF IsValid(r.e)
         THEN [r EXCEPT !.e = [@ EXCEPT !.write_seq = 1, !.delete_seq = 0,
                                        !.write_children_seq = 0],
                        !.next_seq = 2]
         ELSE NewRecord

MergeRec(r, t) == Cleanup(DropTentry(Commit(r, t), t))

(* A faulty AbortRec that erases a deleted entry still in use.             *)
AbortRecInUse(r, t) ==
    IF r.e.delete_seq > r.e.write_seq THEN NewRecord ELSE DropTentry(r, t)

(* One that leaves the last one to refer to a deleted entry with it.       *)
AbortRecKeeping(r, t) == DropTentry(r, t)

AbortRec(r, t) ==
    LET a == DropTentry(r, t)
    IN  IF a.e.delete_seq > a.e.write_seq /\ Untouched(a) THEN NewRecord ELSE a

-----------------------------------------------------------------------------
(* The valid paths, as simple_access and as transaction t see them.        *)
ValidPaths(d) == {q \in Path : IsValid(d[q].e)}
TValidPaths(d, t) == {q \in Path : IsValid(GetTentry(d[q], t).te[t])}

-----------------------------------------------------------------------------
(* simple_access: operations outside transactions.                         *)

(* create, and update of an entry that does not exist.                     *)
CreateBranch(d, p, v) ==
    LET V == ValidPaths(d)
        missing == Missing(V, p)
        perms == InheritedPerms(V, p, [q \in Path |-> d[q].e.perms])
        written(q) ==
            IF q \in missing
            THEN WriteEntry(d[q], IF q = p THEN v ELSE EmptyValue, perms)
            ELSE d[q]
    IN  [q \in Path |-> IF q \in Registrars(V, p)
                        THEN AddChild(written(q), Step(q, p))
                        ELSE written(q)]

(* A faulty DeleteBranch that leaves p listed in its parent.               *)
DeleteBranchListed(d, p) ==
    LET kids == [q \in Path |-> d[q].e.children]
    IN  [q \in Path |->
            IF q \in Subtree(kids, p)
            THEN MarkDeleted(RemoveChildren(d[q], kids[q])) ELSE d[q]]

(* del, and delete_branch, once access to p is granted.                    *)
DeleteBranch(d, p) ==
    LET kids == [q \in Path |-> d[q].e.children]
    IN  [q \in Path |->
            IF q \in Subtree(kids, p)
            THEN MarkDeleted(RemoveChildren(d[q], kids[q]))
            ELSE IF p # <<>> /\ q = Parent(p)
            THEN RemoveChildren(d[q], {Base(p)})
            ELSE d[q]]

SimpleCreate(p) ==
    /\ ~IsValid(db[p].e)
    /\ db' = CreateBranch(db, p, EmptyValue)
    /\ UNCHANGED <<trans, next_tid>>

SimpleUpdate(c, p, v) ==
    /\ \/ /\ IsValid(db[p].e)
          /\ HasWriteAccess(c, db[p].e.perms)
          /\ db' = [db EXCEPT ![p] = WriteEntry(@, v, @.e.perms)]
       \/ /\ ~IsValid(db[p].e)
          /\ db' = CreateBranch(db, p, v)
    /\ UNCHANGED <<trans, next_tid>>

(* delete_branch loops until the list of children is empty, and a child    *)
(* that is listed but not valid would never leave it: the call returns     *)
(* only if the whole listed subtree is valid.                              *)
SimpleDel(c, p) ==
    /\ IsValid(db[p].e)
    /\ HasWriteAccess(c, db[p].e.perms)
    /\ \A q \in Subtree([q \in Path |-> db[q].e.children], p) : IsValid(db[q].e)
    /\ db' = DeleteBranch(db, p)
    /\ UNCHANGED <<trans, next_tid>>

SimpleSetPerms(c, p, perms) ==
    /\ IsValid(db[p].e)
    /\ HasWriteAccess(c, db[p].e.perms)
    /\ db' = [db EXCEPT ![p] = WriteEntry(@, @.e.value, perms)]
    /\ UNCHANGED <<trans, next_tid>>

-----------------------------------------------------------------------------
(* transaction: operations inside transaction t.                           *)

(* create, and update of an entry that does not exist in the transaction.  *)
TCreateBranch(d, t, p, v) ==
    LET V == TValidPaths(d, t)
        missing == Missing(V, p)
        perms == InheritedPerms(V, p,
                    [q \in Path |-> FetchData(GetTentry(d[q], t), t).te[t].perms])
        written(q) ==
            IF q \in missing
            THEN TWrite(GetTentry(d[q], t), t, IF q = p THEN v ELSE EmptyValue, perms)
            ELSE GetTentry(d[q], t)
    IN  [q \in Path |->
            IF q \in Registrars(V, p)
            THEN FetchData(TAddChild(written(q), t, Step(q, p)), t)
            ELSE IF q \in missing THEN written(q)
            ELSE d[q]]

(* del once access to p is granted.  Children that are listed but no       *)
(* longer valid are only referenced.                                       *)
TDeleteBranch(d, t, p) ==
    LET V == TValidPaths(d, t)
        opened(q) == FetchChildren(FetchData(GetTentry(d[q], t), t), t)
        kids == [q \in Path |->
                    IF q \in V THEN CurrentChildren(opened(q).te[t]) ELSE {}]
        visited == Subtree(kids, p)
        removed(q) == {c \in kids[q] : Append(q, c) \in V}
    IN  [q \in Path |->
            IF q \in visited \cap V
            THEN TMarkDeleted(TRemoveChildren(opened(q), t, removed(q)), t)
            ELSE IF q \in visited
            THEN GetTentry(d[q], t)
            ELSE IF p # <<>> /\ q = Parent(p)
            THEN TRemoveChildren(GetTentry(d[q], t), t, {Base(p)})
            ELSE d[q]]

(* What every operation on p begins with: it references the entry and, if  *)
(* the entry is valid in the transaction, fetches the data to check access.*)
Open(r, t) ==
    LET g == GetTentry(r, t) IN IF IsValid(g.te[t]) THEN FetchData(g, t) ELSE g

InTransaction(t) == t \in trans /\ t # 0

TransCreate(t, p) ==
    /\ InTransaction(t)
    /\ db' = IF p \in TValidPaths(db, t)
             THEN [db EXCEPT ![p] = GetTentry(@, t)]
             ELSE TCreateBranch(db, t, p, EmptyValue)
    /\ UNCHANGED <<trans, next_tid>>

(* read and get_perms, whatever the outcome of the access check.           *)
TransRead(t, p) ==
    /\ InTransaction(t)
    /\ db' = [db EXCEPT ![p] = Open(@, t)]
    /\ UNCHANGED <<trans, next_tid>>

TransGetChildren(t, p, c) ==
    /\ InTransaction(t)
    /\ LET o == Open(db[p], t)
       IN  db' = [db EXCEPT ![p] =
                    IF IsValid(o.te[t]) /\ HasReadAccess(c, o.te[t].perms)
                    THEN FetchChildren(o, t) ELSE o]
    /\ UNCHANGED <<trans, next_tid>>

TransUpdate(t, p, c, v) ==
    /\ InTransaction(t)
    /\ LET o == Open(db[p], t)
       IN  db' = IF ~IsValid(o.te[t]) THEN TCreateBranch(db, t, p, v)
                 ELSE [db EXCEPT ![p] =
                        IF HasWriteAccess(c, o.te[t].perms)
                        THEN TWrite(o, t, v, o.te[t].perms) ELSE o]
    /\ UNCHANGED <<trans, next_tid>>

TransDel(t, p, c) ==
    /\ InTransaction(t)
    /\ LET o == Open(db[p], t)
       IN  db' = IF IsValid(o.te[t]) /\ HasWriteAccess(c, o.te[t].perms)
                 THEN TDeleteBranch(db, t, p)
                 ELSE [db EXCEPT ![p] = o]
    /\ UNCHANGED <<trans, next_tid>>

TransSetPerms(t, p, c, perms) ==
    /\ InTransaction(t)
    /\ LET o == Open(db[p], t)
       IN  db' = [db EXCEPT ![p] =
                    IF IsValid(o.te[t]) /\ HasWriteAccess(c, o.te[t].perms)
                    THEN TWrite(o, t, o.te[t].value, perms) ELSE o]
    /\ UNCHANGED <<trans, next_tid>>

-----------------------------------------------------------------------------
(* store: the life of a transaction.                                       *)

(* transaction::records. *)
Records(t) == {p \in Path : Touched(db[p], t)}

CanMerge(t) == \A p \in Records(t) : CanMergeRec(db[p], t)

(* A faulty Branch whose ids grow past the width of the type.              *)
BranchUnwrapped ==
    /\ trans' = trans \cup {next_tid}
    /\ next_tid' = next_tid + 1
    /\ UNCHANGED db

(* A faulty Merge that checks and merges in the same loop.                 *)
MergePartly(t) ==
    /\ t \in trans
    /\ db' = [p \in Path |-> IF p \notin Records(t) THEN db[p]
                             ELSE IF CanMergeRec(db[p], t) THEN MergeRec(db[p], t)
                             ELSE AbortRec(db[p], t)]
    /\ trans' = trans \ {t}
    /\ UNCHANGED next_tid

(* A faulty Abort that forgets the transaction but not its records.        *)
AbortLeaky(t) ==
    /\ t \in trans
    /\ trans' = trans \ {t}
    /\ UNCHANGED <<db, next_tid>>

(* Inserting a tid that is still open (after next_tid wrapped) is a no-op. *)
Branch ==
    /\ trans' = trans \cup {next_tid}
    /\ next_tid' = IF next_tid = TidMod - 1 THEN 0 ELSE next_tid + 1
    /\ UNCHANGED db

Merge(t) ==
    /\ t \in trans
    /\ db' = IF CanMerge(t)
             THEN [p \in Path |-> IF p \in Records(t) THEN MergeRec(db[p], t) ELSE db[p]]
             ELSE [p \in Path |-> IF p \in Records(t) THEN AbortRec(db[p], t) ELSE db[p]]
    /\ trans' = trans \ {t}
    /\ UNCHANGED next_tid

Abort(t) ==
    /\ t \in trans
    /\ db' = [p \in Path |-> IF p \in Records(t) THEN AbortRec(db[p], t) ELSE db[p]]
    /\ trans' = trans \ {t}
    /\ UNCHANGED next_tid

-----------------------------------------------------------------------------
(* The store as xenstore's constructor leaves it: the root exists.         *)
Init ==
    /\ db = [p \in Path |-> IF p = <<>> THEN WriteEntry(NewRecord, EmptyValue, DefaultPerms)
                                        ELSE NewRecord]
    /\ trans = {}
    /\ next_tid = 1

SimpleNext ==
    \E p \in Path :
       \/ SimpleCreate(p)
       \/ \E c \in Cid :
             \/ \E v \in Value : SimpleUpdate(c, p, v)
             \/ SimpleDel(c, p)
             \/ \E perms \in PermLists : SimpleSetPerms(c, p, perms)

(* Every operation of a transaction but del.                               *)
TransWriteNext(t, p) ==
    \/ TransCreate(t, p)
    \/ TransRead(t, p)
    \/ \E c \in Cid :
          \/ TransGetChildren(t, p, c)
          \/ \E v \in Value : TransUpdate(t, p, c, v)
          \/ \E perms \in PermLists : TransSetPerms(t, p, c, perms)

TransNext(t) ==
    \E p \in Path : TransWriteNext(t, p) \/ \E c \in Cid : TransDel(t, p, c)

StoreNext ==
    \/ Branch
    \/ \E t \in trans : Merge(t) \/ Abort(t)

Next == SimpleNext \/ (\E t \in trans : TransNext(t)) \/ StoreNext

Spec == Init /\ [][Next]_vars

-----------------------------------------------------------------------------
(* Properties.                                                             *)

(* The types of the store's state (database.hh, store.hh).                 *)
TypeOK ==
    /\ db \in [Path -> Record]
    /\ trans \subseteq Tid
    /\ next_tid \in Tid

(* What transaction t knows of a record is what the store holds: that the  *)
(* entry exists, the data it fetched and did not overwrite itself, the     *)
(* children list it read.                                                  *)
CopyCurrent(r, t) ==
    LET te == r.te[t]
    IN  /\ te.init_valid <=> IsValid(r.e)
        /\ te.read_seq # 0 /\ Pristine(te) =>
              te.value = r.e.value /\ te.perms = r.e.perms
        /\ te.read_children_seq # 0 => te.children = r.e.children

(* Backward validation is sound: whenever can_merge (transaction.cc:277)   *)
(* would let a transaction commit, everything it relied on is still what   *)
(* the store holds now, whatever was changed, deleted, re-created, merged  *)
(* or aborted since.                                                       *)
CommittableReadsAreCurrent ==
    \A t \in Tid : CanMerge(t) => \A p \in Records(t) : CopyCurrent(db[p], t)

(* The invariant behind it, record by record.  Sequence numbers were all   *)
(* handed out by next_seq; an entry that does not exist lists no children; *)
(* and for each transaction t that references the record, the copy agrees  *)
(* with the entry as long as can_merge has no objection to the record.     *)
SeqsBelowNext(r) ==
    /\ r.e.write_seq < r.next_seq
    /\ r.e.delete_seq < r.next_seq
    /\ r.e.write_children_seq < r.next_seq
    /\ \A t \in Tid : Touched(r, t) =>
          /\ r.te[t].init_seq < r.next_seq
          /\ r.te[t].read_seq < r.next_seq
          /\ r.te[t].read_children_seq < r.next_seq

CopySound(r, t) ==
    LET te == r.te[t]
    IN  Touched(r, t) =>
          /\ te.write_seq # te.init_seq
          /\ Pristine(te) => (IsValid(te) <=> te.init_valid)
          /\ te.read_children_seq = 0 => te.children = {}
          /\ CanMergeRec(r, t) => CopyCurrent(r, t)

RecordSound(r) ==
    /\ SeqsBelowNext(r)
    /\ ~IsValid(r.e) => r.e.children = {}
    /\ \A t \in Tid : CopySound(r, t)

RecordsSound == \A p \in Path : RecordSound(db[p])

(* The loop of delete_branch (simple_access.cc:318) empties every children *)
(* list: a listed child always exists, so that its del unregisters it.     *)
ListedChildrenExist ==
    \A q \in Path : \A c \in db[q].e.children :
        Append(q, c) \in Path /\ IsValid(db[Append(q, c)].e)

(* "If the entry is invalid and has no more active transactions we clean   *)
(* it from the DB" (transaction.cc:256): once no transaction refers to it, *)
(* no record is left marked deleted.  (Records of entries that never       *)
(* existed do stay: when a transaction that looked for one aborts, or when *)
(* an entry the tree has lost is unregistered from its missing parent.)    *)
DeletedRecordsReclaimed ==
    \A p \in Path : Untouched(db[p]) /\ ~IsValid(db[p].e) => db[p].e.delete_seq = 0

(* A record keeps no trace of a transaction that was merged or aborted: it *)
(* would keep the record from being cleaned up and its sequence numbers    *)
(* from being reset (transaction.cc:378), and a later transaction with the *)
(* same id, after next_tid wraps, would take the old copy for its own.     *)
NoClosedTransactionInRecords ==
    \A t \in Tid : Records(t) # {} => t \in trans

(* Within a transaction reads repeat: once the data (the children) of an   *)
(* entry was fetched, no step but the transaction's own writes changes     *)
(* what it will read there (mstore.cc:268, transaction.cc:540, 573).       *)
RepeatableReads ==
    [][\A t \in Tid, p \in Path :
         LET te == db[p].te[t]
             new == db'[p].te[t]
         IN  new.init_seq # 0 =>
               /\ te.read_seq # 0 /\ new.write_seq = te.write_seq =>
                     new.value = te.value /\ new.perms = te.perms
               /\ te.read_children_seq # 0 => new.children = te.children]_vars

(* The contents of the store, as clients outside transactions see them.    *)
Contents(d) ==
    [p \in Path |-> IF IsValid(d[p].e)
                    THEN <<d[p].e.value, d[p].e.perms, d[p].e.children>>
                    ELSE <<>>]

(* A step of transaction t: it changes t's copies and leaves t open.       *)
StepOf(t) == t \in trans' /\ \E p \in Path : db'[p].te[t] # db[p].te[t]

(* What a transaction does stays private until it is merged, and leaves no *)
(* trace if it is aborted or its merge is refused.                         *)
UncommittedIsInvisible ==
    [][\A t \in trans : StepOf(t) \/ Abort(t) \/ (Merge(t) /\ ~CanMerge(t))
            => Contents(db') = Contents(db)]_vars

(* Two transactions conflict on a record when u, merged now, changes data  *)
(* of a record t references or a children list t has read.                 *)
Conflicts(u, t) ==
    \E p \in Records(u) \cap Records(t) :
        LET te == db[p].te[u]
        IN  \/ WroteData(te) \/ Deleted(te)
            \/ WroteChildren(te) /\ db[p].te[t].read_children_seq # 0

(* A change outside transactions of an entry that t references.            *)
OutsideChange(t) ==
    /\ \A p \in Path : db'[p].te = db[p].te
    /\ \E p \in Records(t) : db'[p].e # db[p].e

(* Transactions that do not conflict can both succeed (mstore.cc:200): a   *)
(* committable transaction is doomed only by a change outside transactions *)
(* of an entry it references, or by the merge of a transaction it conflicts*)
(* with; never by its own operations, by aborts, or by a merge that only   *)
(* adds children to an entry whose children it has not read.               *)
DoomedOnlyByConflict ==
    [][\A t \in trans \cap trans' : CanMerge(t) /\ ~CanMerge(t)' =>
          \/ OutsideChange(t)
          \/ \E u \in trans \ trans' : CanMerge(u) /\ Conflicts(u, t)]_vars

(* A transaction that lost a race stays lost: no later change, and no      *)
(* operation of its own, makes it committable again (the ABA hazard of     *)
(* comparing sequence numbers that other steps reset).                     *)
DoomedStaysDoomed ==
    [][\A t \in trans \cap trans' : ~CanMerge(t) => ~CanMerge(t)']_vars

(* "Finally mark the entry as deleted and therefore as invalid"            *)
(* (transaction.cc:162): an entry deleted in a transaction is gone once    *)
(* the transaction is merged.                                              *)
CommittedDeleteRemoves ==
    [][\A t \in trans : \A p \in Records(t) :
         Merge(t) /\ CanMerge(t) /\ Deleted(db[p].te[t])
            => ~IsValid(db'[p].e)]_vars

=============================================================================
