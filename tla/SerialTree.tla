----------------------------- MODULE SerialTree -----------------------------
(***************************************************************************)
(* The store as its clients see it: a tree, what a request answers and     *)
(* what it makes of the tree.                                              *)
(***************************************************************************)
EXTENDS StoreTree

CONSTANT World \* the trees a transaction may run on

-----------------------------------------------------------------------------
(* Trees.                                                                  *)

Absent == [exists |-> FALSE, value |-> EmptyValue, perms |-> <<>>, children |-> {}]
Made(v, perms) == [exists |-> TRUE, value |-> v, perms |-> perms, children |-> {}]

Existing(c) == {p \in Path : c[p].exists}

(* p and the missing part of the branch above it are created, and listed.  *)
WithBranch(c, p, v) ==
    LET missing == Missing(Existing(c), p)
        perms == InheritedPerms(Existing(c), p, [q \in Path |-> c[q].perms])
        made(q) == IF q \in missing THEN Made(IF q = p THEN v ELSE EmptyValue, perms)
                   ELSE c[q]
    IN  [q \in Path |-> IF q \in Registrars(Existing(c), p)
                        THEN [made(q) EXCEPT !.children = @ \cup {Step(q, p)}]
                        ELSE made(q)]

(* p and all that is listed below it are gone, and p is no longer listed.  *)
WithoutBranch(c, p) ==
    LET gone == Subtree([q \in Path |-> c[q].children], p)
    IN  [q \in Path |-> IF q \in gone THEN Absent
                        ELSE IF p # <<>> /\ q = Parent(p)
                        THEN [c[q] EXCEPT !.children = @ \ {Base(p)}]
                        ELSE c[q]]

-----------------------------------------------------------------------------
(* Requests, their answers and their effects.                              *)

Create(p) == [kind |-> "create", path |-> p]
Read(p) == [kind |-> "read", path |-> p, cid |-> 0]
GetChildren(p, c) == [kind |-> "children", path |-> p, cid |-> c]
Update(p, c, v) == [kind |-> "update", path |-> p, cid |-> c, value |-> v]
Del(p, c) == [kind |-> "del", path |-> p, cid |-> c]
SetPerms(p, c, perms) == [kind |-> "set_perms", path |-> p, cid |-> c, perms |-> perms]

Request ==
    UNION {{Create(p), Read(p)}
             \cup {GetChildren(p, c) : c \in Cid} \cup {Del(p, c) : c \in Cid}
             \cup {Update(p, c, v) : c \in Cid, v \in Value}
             \cup {SetPerms(p, c, perms) : c \in Cid, perms \in PermLists} : p \in Path}

(* Access to node n, which exists.                                         *)
Permitted(n, r) ==
    IF r.kind \in {"read", "children"} THEN HasReadAccess(r.cid, n.perms)
                                       ELSE HasWriteAccess(r.cid, n.perms)

(* What request r, on a path where node n is, returns: a status and data.  *)
Answer(n, r) ==
    CASE r.kind = "create" -> <<IF n.exists THEN "exists" ELSE "created", Absent>>
      [] r.kind = "update" /\ ~n.exists -> <<"done", Absent>>
      [] r.kind # "create" /\ ~n.exists -> <<"ENOENT", Absent>>
      [] r.kind # "create" /\ n.exists /\ ~Permitted(n, r) -> <<"EACCES", Absent>>
      [] r.kind = "read" -> <<"done", [n EXCEPT !.children = {}]>>
      [] r.kind = "children" -> <<"done", [Absent EXCEPT !.children = n.children]>>
      [] OTHER -> <<"done", Absent>>

(* What tree c becomes by request r.                                       *)
Changed(c, r) ==
    CASE r.kind = "update" -> [c EXCEPT ![r.path].value = r.value]
      [] r.kind = "set_perms" -> [c EXCEPT ![r.path].perms = r.perms]
      [] r.kind = "del" -> WithoutBranch(c, r.path)
      [] OTHER -> c

After(c, r) ==
    LET n == c[r.path]
    IN  IF n.exists
        THEN IF r.kind # "create" /\ Permitted(n, r) THEN Changed(c, r) ELSE c
        ELSE IF r.kind = "create" THEN WithBranch(c, r.path, EmptyValue)
        ELSE IF r.kind = "update" THEN WithBranch(c, r.path, r.value)
        ELSE c

-----------------------------------------------------------------------------
(* In which worlds a transaction could be running: pairs of a tree it may  *)
(* have started from and what that tree has become.                        *)

Fresh == {<<c, c>> : c \in World}

(* The worlds in which request r gets answer a.                            *)
Answered(W, r, a) ==
    {<<w[1], After(w[2], r)>> : w \in {w \in W : Answer(w[2][r.path], r) = a}}

=============================================================================
