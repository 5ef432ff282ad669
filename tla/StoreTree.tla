----------------------------- MODULE StoreTree -----------------------------
(***************************************************************************)
(* What every view of the store's tree shares: paths and how operations    *)
(* walk along them, values, permission lists and the access checks on      *)
(* them.  The recursion of ensure_branch and delete_branch along the tree  *)
(* is written in closed form, as the set of paths it visits.               *)
(***************************************************************************)
EXTENDS Integers, Sequences, FiniteSets

CONSTANTS
    Name,       \* path components
    Path,       \* the paths in use: sequences of names, <<>> being the root
    Value,      \* contents of an entry
    EmptyValue, \* the content of a freshly created entry: the empty string
    Cid,        \* client ids; 0 is the privileged one
    PermLists   \* the permission lists clients may set

(* permission and permission_list of permissions.hh. *)
Perm == [cid : Cid, read : BOOLEAN, write : BOOLEAN]
DefaultPerms == <<[cid |-> 0, read |-> FALSE, write |-> FALSE]>>
PermList == PermLists \cup {<<>>, DefaultPerms}

Parent(p) == SubSeq(p, 1, Len(p) - 1)
Base(p) == p[Len(p)]

ASSUME NameAssumption == IsFiniteSet(Name)
ASSUME PathAssumption ==
    /\ Path \subseteq Seq(Name)
    /\ \A p \in Path : \A n \in 0 .. Len(p) : SubSeq(p, 1, n) \in Path
    /\ <<>> \in Path
ASSUME DataAssumption ==
    /\ EmptyValue \in Value
    /\ Cid \subseteq Nat /\ 0 \in Cid
    /\ PermLists \subseteq Seq(Perm)

(* has_read_access and has_write_access.                                   *)
HasReadAccess(c, perms) ==
    (c # 0 /\ perms # <<>>) =>
        \/ perms[1].cid = c \/ perms[1].read
        \/ \E i \in DOMAIN perms : perms[i].cid = c /\ perms[i].read
HasWriteAccess(c, perms) ==
    (c # 0 /\ perms # <<>>) =>
        \/ perms[1].cid = c \/ perms[1].write
        \/ \E i \in DOMAIN perms : perms[i].cid = c /\ perms[i].write

-----------------------------------------------------------------------------
(* The paths an operation visits.                                          *)

(* p and its ancestors. *)
Chain(p) == {SubSeq(p, 1, n) : n \in 0 .. Len(p)}

(* A faulty Missing: the branch above p is not created.                    *)
MissingLeaf(V, p) == {p} \ V

(* ensure_branch: what must be created for p to exist, given the valid     *)
(* paths V: p and its ancestors up to the nearest valid one.               *)
Missing(V, p) ==
    {q \in Chain(p) : \A r \in Chain(p) : Len(r) >= Len(q) => r \notin V}

(* register_with_parent: the parents of the missing paths, each of which   *)
(* lists the name of the one below it on the way to p.                     *)
Registrars(V, p) ==
    {q \in Chain(p) : \E r \in Missing(V, p) : Len(r) = Len(q) + 1}
Step(q, p) == p[Len(q) + 1]

(* get_parent_perms: the permissions the missing paths inherit, one from   *)
(* the other, from their nearest valid ancestor (perms gives those of each *)
(* path), or the default if even the root is missing.                      *)
InheritedPerms(V, p, perms) ==
    LET nearest == Registrars(V, p) \ Missing(V, p)
    IN  IF nearest = {} THEN DefaultPerms
        ELSE perms[CHOOSE q \in nearest : TRUE]

(* delete_branch: p and everything reached from it through the children    *)
(* lists kids.                                                             *)
Subtree(kids, p) ==
    {q \in Path : /\ p \in Chain(q)
                  /\ \A n \in Len(p) .. Len(q) - 1 :
                        q[n + 1] \in kids[SubSeq(q, 1, n)]}

=============================================================================
