-------------------------- MODULE MStoreTreeProofs --------------------------
(***************************************************************************)
(* Theorems about the shape of the tree, for any tree, values,             *)
(* permissions, clients and number of transactions.  What the entries say  *)
(* of their parents and children rests on what each transaction's copies   *)
(* say (Shape): a child a transaction adds, it has written; a child it     *)
(* removes, it has deleted; and an entry it creates it adds to a parent    *)
(* that is valid.  Each of these is about one path and its parent.         *)
(***************************************************************************)
EXTENDS MStoreProofs, MStoreTree, SequenceTheorems

-----------------------------------------------------------------------------
(* Paths, their parents, and the paths an operation visits.                *)

(* A beginning of a beginning.                                             *)
LEMMA Beginnings ==
    ASSUME NEW p \in Path, NEW n \in 0 .. Len(p)
    PROVE  LET q == SubSeq(p, 1, n)
           IN  /\ q \in Path /\ q \in Chain(p) /\ Len(q) = n
               /\ \A m \in 0 .. n : SubSeq(q, 1, m) = SubSeq(p, 1, m)
               /\ \A m \in 1 .. n : q[m] = p[m]
<1> DEFINE q == SubSeq(p, 1, n)
<1>1. p \in Seq(Name) /\ Len(p) \in Nat
  BY PathAssumption
<1>2. q \in Path /\ q \in Chain(p) /\ Len(q) = n
  BY <1>1, PathAssumption DEF Chain
<1>3. \A m \in 1 .. n : q[m] = p[m]
  BY <1>1
<1>4. ASSUME NEW m \in 0 .. n
      PROVE  SubSeq(q, 1, m) = SubSeq(p, 1, m)
  BY <1>1
<1> QED
  BY <1>2, <1>3, <1>4

LEMMA Splits ==
    ASSUME NEW p \in Path, p # <<>>
    PROVE  /\ Parent(p) \in Path /\ Base(p) \in Name
           /\ Len(p) \in Nat /\ Len(p) > 0 /\ Len(Parent(p)) = Len(p) - 1
           /\ Append(Parent(p), Base(p)) = p
<1>1. p \in Seq(Name) /\ Len(p) \in Nat /\ Len(p) > 0
  BY PathAssumption
<1>2. Len(p) - 1 \in 0 .. Len(p) /\ Parent(p) \in Path
  BY <1>1, PathAssumption DEF Parent
<1>3. Base(p) \in Name
  BY <1>1 DEF Base
<1>4. Len(Parent(p)) = Len(p) - 1
  BY <1>1, <1>2, Beginnings DEF Parent
<1>5. Append(Parent(p), Base(p)) = p
  BY <1>1 DEF Parent, Base
<1> QED
  BY <1>1, <1>2, <1>3, <1>4, <1>5

LEMMA Joins ==
    ASSUME NEW q \in Path, NEW c \in Name
    PROVE  /\ Append(q, c) # <<>> /\ Parent(Append(q, c)) = q /\ Base(Append(q, c)) = c
<1>1. q \in Seq(Name) /\ Len(q) \in Nat
  BY PathAssumption
<1>2. Append(q, c) \in Seq(Name) /\ Len(Append(q, c)) = Len(q) + 1
  BY <1>1
<1>3. Append(q, c)[Len(q) + 1] = c /\ Append(q, c) # <<>>
  BY <1>1, <1>2
<1>4. SubSeq(Append(q, c), 1, Len(q)) = q
  BY <1>1, <1>2
<1> QED
  BY <1>1, <1>2, <1>3, <1>4 DEF Parent, Base

(* The paths to be created, and the parents that are to list them.         *)
LEMMA MissingRegistered ==
    ASSUME NEW V, NEW p \in Path, NEW q \in Missing(V, p)
    PROVE  /\ q \in Path /\ q \notin V
           /\ q # <<>> => Parent(q) \in Registrars(V, p) /\ Base(q) = Step(Parent(q), p)
<1>1. q \in Chain(p) /\ q \notin V
  BY ChainPaths DEF Missing
<1>2. q \in Path /\ Len(q) \in Nat /\ Len(q) <= Len(p) /\ q = SubSeq(p, 1, Len(q))
  BY <1>1, ChainPaths
<1>3. ASSUME q # <<>>
      PROVE  Parent(q) \in Registrars(V, p) /\ Base(q) = Step(Parent(q), p)
  <2> DEFINE n == Len(q)
  <2>1. n \in Nat /\ n > 0 /\ Len(Parent(q)) = n - 1
    BY <1>2, <1>3, Splits
  <2>2. p \in Seq(Name) /\ Len(p) \in Nat
    BY PathAssumption
  <2>3. n \in 0 .. Len(p) /\ n - 1 \in 0 .. n /\ n - 1 \in 0 .. Len(p) /\ n \in 1 .. n
    BY <1>2, <2>1, <2>2
  <2>4. Parent(q) = SubSeq(p, 1, n - 1) /\ q[n] = p[n]
    BY <1>2, <2>3, Beginnings DEF Parent
  <2>5. Parent(q) \in Chain(p)
    BY <2>3, <2>4, Beginnings
  <2>6. Parent(q) \in Registrars(V, p)
    BY <2>1, <2>5 DEF Registrars
  <2>7. Base(q) = Step(Parent(q), p)
    BY <2>1, <2>4 DEF Base, Step
  <2> QED
    BY <2>6, <2>7
<1> QED
  BY <1>1, <1>2, <1>3

LEMMA RegisteredMissing ==
    ASSUME NEW V, NEW p \in Path, NEW q \in Registrars(V, p)
    PROVE  Append(q, Step(q, p)) \in Missing(V, p)
<1>1. PICK r \in Missing(V, p) : Len(r) = Len(q) + 1
  BY DEF Registrars
<1>2. q \in Chain(p) /\ r \in Chain(p)
  BY DEF Registrars, Missing
<1>3. /\ q \in Path /\ Len(q) \in Nat /\ q = SubSeq(p, 1, Len(q))
      /\ Len(r) <= Len(p) /\ r = SubSeq(p, 1, Len(r)) /\ r \in Path
  BY <1>2, ChainPaths
<1>4. r # <<>> /\ r \in Seq(Name)
  BY <1>1, <1>3, PathAssumption
<1>5. Parent(r) \in Registrars(V, p) /\ Base(r) = Step(Parent(r), p)
  BY <1>4, MissingRegistered
<1>6. Len(r) - 1 = Len(q) /\ Parent(r) = SubSeq(r, 1, Len(q))
  BY <1>1, <1>3 DEF Parent
<1>7. Len(r) \in 0 .. Len(p) /\ Len(q) \in 0 .. Len(r)
  BY <1>1, <1>3, PathAssumption
<1>8. Parent(r) = q
  BY <1>3, <1>6, <1>7, Beginnings
<1> QED
  BY <1>3, <1>4, <1>5, <1>8, Splits

(* The paths reached from p through the lists kids.                        *)
LEMMA SubtreeRoot ==
    ASSUME NEW kids, NEW p \in Path
    PROVE  /\ p \in Subtree(kids, p)
           /\ p # <<>> => Parent(p) \notin Subtree(kids, p)
<1>1. p \in Seq(Name) /\ Len(p) \in Nat
  BY PathAssumption
<1>2. p = SubSeq(p, 1, Len(p))
  BY <1>1
<1>3. p \in Chain(p)
  <2>1. Len(p) \in 0 .. Len(p)
    BY <1>1
  <2> QED
    BY <1>2, <2>1, Beginnings
<1>4. p \in Subtree(kids, p)
  BY <1>1, <1>3 DEF Subtree
<1>5. ASSUME p # <<>>, Parent(p) \in Subtree(kids, p)
      PROVE  FALSE
  <2>1. p \in Chain(Parent(p)) /\ Parent(p) \in Path
    BY <1>5 DEF Subtree
  <2>2. Len(p) <= Len(Parent(p))
    BY <2>1, ChainPaths
  <2> QED
    BY <1>1, <1>5, <2>2, Splits
<1> QED
  BY <1>4, <1>5

LEMMA SubtreeStep ==
    ASSUME NEW kids, NEW p \in Path, NEW d \in Path, d # <<>>, d # p
    PROVE  d \in Subtree(kids, p) <=>
              Parent(d) \in Subtree(kids, p) /\ Base(d) \in kids[Parent(d)]
<1> DEFINE q == Parent(d)
           k == Len(d)
<1>1. /\ q \in Path /\ k \in Nat /\ k > 0 /\ Len(q) = k - 1
      /\ Base(d) = d[k] /\ q = SubSeq(d, 1, k - 1)
      /\ Len(p) \in Nat
  BY Splits, PathAssumption DEF Base, Parent
<1>2. /\ \A m \in 0 .. k - 1 : SubSeq(q, 1, m) = SubSeq(d, 1, m)
      /\ \A m \in 1 .. k - 1 : q[m] = d[m]
  <2>1. k - 1 \in 0 .. Len(d)
    BY <1>1
  <2> QED
    BY <1>1, <2>1, Beginnings
<1>3. p \in Chain(d) <=> p \in Chain(q)
  <2>1. ASSUME p \in Chain(d)
        PROVE  p \in Chain(q)
    <3>1. Len(p) <= k /\ p = SubSeq(d, 1, Len(p))
      BY <2>1, ChainPaths
    <3>2. d \in Seq(Name) /\ SubSeq(d, 1, k) = d
      BY PathAssumption
    <3>3. Len(p) \in 0 .. k - 1
      BY <1>1, <3>1, <3>2
    <3>4. p = SubSeq(q, 1, Len(p))
      BY <1>2, <3>1, <3>3
    <3> QED
      BY <1>1, <3>3, <3>4 DEF Chain
  <2>2. ASSUME p \in Chain(q)
        PROVE  p \in Chain(d)
    <3>1. Len(p) <= k - 1 /\ p = SubSeq(q, 1, Len(p))
      BY <1>1, <2>2, ChainPaths
    <3>2. Len(p) \in 0 .. k - 1 /\ Len(p) \in 0 .. Len(d)
      BY <1>1, <3>1
    <3>3. p = SubSeq(d, 1, Len(p))
      BY <1>2, <3>1, <3>2
    <3> QED
      BY <3>2, <3>3 DEF Chain
  <2> QED
    BY <2>1, <2>2
<1>4. ASSUME p \in Chain(q)
      PROVE  Len(p) .. k - 1 = (Len(p) .. k - 2) \cup {k - 1}
  <2>1. Len(p) <= k - 1
    BY <1>1, <1>4, ChainPaths
  <2> QED
    BY <1>1, <2>1
<1>5. ASSUME NEW n \in Len(p) .. k - 2
      PROVE  q[n + 1] = d[n + 1] /\ SubSeq(q, 1, n) = SubSeq(d, 1, n)
  <2>1. n + 1 \in 1 .. k - 1 /\ n \in 0 .. k - 1
    BY <1>1
  <2> QED
    BY <1>2, <2>1
<1>6. Len(q) - 1 = k - 2 /\ Len(d) - 1 = k - 1 /\ (k - 1) + 1 = k
  BY <1>1
<1> HIDE DEF q, k
<1>7. d \in Subtree(kids, p) <=>
         p \in Chain(d) /\ \A n \in Len(p) .. k - 1 : d[n + 1] \in kids[SubSeq(d, 1, n)]
  BY <1>6 DEF Subtree
<1>8. q \in Subtree(kids, p) <=>
         p \in Chain(q) /\ \A n \in Len(p) .. k - 2 : q[n + 1] \in kids[SubSeq(q, 1, n)]
  BY <1>1, <1>6 DEF Subtree
<1>9. q \in Subtree(kids, p) <=>
         p \in Chain(q) /\ \A n \in Len(p) .. k - 2 : d[n + 1] \in kids[SubSeq(d, 1, n)]
  BY <1>5, <1>8
<1>10. Base(d) \in kids[q] <=> d[(k - 1) + 1] \in kids[SubSeq(d, 1, k - 1)]
  BY <1>1, <1>6
<1>11. d \in Subtree(kids, p) <=> q \in Subtree(kids, p) /\ Base(d) \in kids[q]
  BY <1>3, <1>4, <1>7, <1>9, <1>10
<1> QED
  BY <1>11 DEF q

-----------------------------------------------------------------------------
(* What an operation does to one copy.                                     *)

(* An entry that the transaction made exist.                               *)
Created(te) == IsValid(te) /\ ~te.init_valid

(* Everything but the lists of children: what was written or deleted stays *)
(* so, what was valid stays valid, and nothing is created.                 *)
KeptData(x, y) ==
    /\ WroteData(x) => WroteData(y)
    /\ Deleted(x) => Deleted(y)
    /\ IsValid(x) => IsValid(y)
    /\ Created(y) => Created(x)

SameLists(x, y) == y.children_add = x.children_add /\ y.children_rem = x.children_rem

Kept(x, y) == KeptData(x, y) /\ SameLists(x, y)

LEMMA KeptTransitive ==
    ASSUME NEW x, NEW y, NEW z, Kept(x, y), Kept(y, z)
    PROVE  Kept(x, z)
  BY DEF Kept, KeptData, SameLists

LEMMA KeptReflexive == \A x : Kept(x, x)
  BY DEF Kept, KeptData, SameLists

(* A copy whose numbers and validity stay.                                 *)
LEMMA SameNumbers ==
    ASSUME NEW x, NEW y, y.write_seq = x.write_seq, y.delete_seq = x.delete_seq,
           y.init_seq = x.init_seq, y.init_valid = x.init_valid
    PROVE  KeptData(x, y)
  BY DEF KeptData, WroteData, Deleted, IsValid, Created

LEMMA NoCopyStatus ==
    /\ ~IsValid(NoTentry) /\ ~WroteData(NoTentry) /\ ~Deleted(NoTentry)
    /\ ~Created(NoTentry) /\ NoTentry.children_add = {} /\ NoTentry.children_rem = {}
  BY DEF NoTentry, IsValid, WroteData, Deleted, Created

LEMMA GetTentryKeeps ==
    ASSUME NEW r, Whole(r), NEW t \in Tid
    PROVE  Kept(r.te[t], GetTentry(r, t).te[t])
<1>1. CASE Touched(r, t)
  BY <1>1, KeptReflexive DEF GetTentry
<1>2. CASE ~Touched(r, t)
  <2> DEFINE x == [NoTentry EXCEPT !.write_seq = r.e.write_seq,
                                   !.delete_seq = r.e.delete_seq,
                                   !.init_valid = IsValid(r.e),
                                   !.init_seq = r.next_seq]
  <2>1. GetTentry(r, t).te[t] = x
    BY <1>2, Types DEF GetTentry, Whole, Record
  <2>2. r.te[t] = NoTentry
    BY <1>2 DEF Whole, Clean
  <2>3. /\ x.children_add = {} /\ x.children_rem = {}
        /\ x.write_seq = r.e.write_seq /\ x.delete_seq = r.e.delete_seq
        /\ x.init_valid = IsValid(r.e)
    BY DEF NoTentry
  <2> HIDE DEF x
  <2>4. ~Created(x)
    BY <2>3 DEF Created, IsValid
  <2> QED
    BY <2>1, <2>2, <2>3, <2>4, NoCopyStatus DEF Kept, KeptData, SameLists
<1> QED
  BY <1>1, <1>2

LEMMA FetchDataKeeps ==
    ASSUME NEW r, Whole(r), NEW t \in Tid
    PROVE  Kept(r.te[t], FetchData(r, t).te[t])
<1> DEFINE te == r.te[t]
           copy == IF Pristine(te)
                   THEN [te EXCEPT !.value = r.e.value, !.perms = r.e.perms]
                   ELSE te
           x == [copy EXCEPT !.read_seq = r.next_seq]
<1>1. te \in Tentry /\ r \in Record
  BY Types DEF Whole
<1>2. FetchData(r, t).te[t] = te \/ FetchData(r, t).te[t] = x
  BY <1>1 DEF FetchData, Record
<1>3. /\ x.write_seq = te.write_seq /\ x.delete_seq = te.delete_seq
      /\ x.init_seq = te.init_seq /\ x.init_valid = te.init_valid
      /\ x.children_add = te.children_add /\ x.children_rem = te.children_rem
  BY <1>1 DEF Tentry
<1> HIDE DEF x, te
<1>4. Kept(te, x)
  BY <1>3, SameNumbers DEF Kept, SameLists
<1> QED
  BY <1>2, <1>4, KeptReflexive DEF te

LEMMA FetchChildrenKeeps ==
    ASSUME NEW r, Whole(r), NEW t \in Tid
    PROVE  Kept(r.te[t], FetchChildren(r, t).te[t])
<1> DEFINE te == r.te[t]
           copy == IF IsValid(r.e)
                   THEN [te EXCEPT !.children = te.children \cup r.e.children]
                   ELSE te
           x == [copy EXCEPT !.read_children_seq = r.next_seq]
<1>1. te \in Tentry /\ r \in Record
  BY Types DEF Whole
<1>2. FetchChildren(r, t).te[t] = te \/ FetchChildren(r, t).te[t] = x
  BY <1>1 DEF FetchChildren, Record
<1>3. /\ x.write_seq = te.write_seq /\ x.delete_seq = te.delete_seq
      /\ x.init_seq = te.init_seq /\ x.init_valid = te.init_valid
      /\ x.children_add = te.children_add /\ x.children_rem = te.children_rem
  BY <1>1 DEF Tentry
<1> HIDE DEF x, te
<1>4. Kept(te, x)
  BY <1>3, SameNumbers DEF Kept, SameLists
<1> QED
  BY <1>2, <1>4, KeptReflexive DEF te

LEMMA OpenKeeps ==
    ASSUME NEW r, Whole(r), NEW t \in Tid
    PROVE  /\ Kept(r.te[t], Open(r, t).te[t])
           /\ IsValid(Open(r, t).te[t]) => IsValid(GetTentry(r, t).te[t])
<1> DEFINE g == GetTentry(r, t)
<1>1. Whole(g) /\ Kept(r.te[t], g.te[t])
  BY GetTentryWhole, GetTentryKeeps
<1>2. Open(r, t) = g \/ (Open(r, t) = FetchData(g, t) /\ IsValid(g.te[t]))
  BY DEF Open
<1> HIDE DEF g
<1>3. Kept(g.te[t], FetchData(g, t).te[t])
  BY <1>1, FetchDataKeeps
<1>4. Kept(r.te[t], FetchData(g, t).te[t])
  BY <1>1, <1>3, KeptTransitive
<1> QED
  BY <1>1, <1>2, <1>4 DEF g

(* Writing to a copy that is valid changes nothing else of it; writing to  *)
(* one that is not makes it valid.                                         *)
LEMMA TWriteKeeps ==
    ASSUME NEW r, Whole(r), NEW t \in Tid, Touched(r, t), NEW v, NEW pl
    PROVE  LET x == TWrite(r, t, v, pl).te[t]
           IN  /\ WroteData(x) /\ SameLists(r.te[t], x)
               /\ IsValid(r.te[t]) => Kept(r.te[t], x)
<1> DEFINE te == r.te[t]
           x == [te EXCEPT !.value = v, !.perms = pl, !.write_seq = r.next_seq]
<1>1. te \in Tentry /\ r \in Record /\ Below(te, r.next_seq) /\ te.init_seq < r.next_seq
  BY Types DEF Whole, Clean
<1>2. TWrite(r, t, v, pl).te[t] = x
  BY <1>1 DEF TWrite, Record
<1>3. /\ x.write_seq = r.next_seq /\ x.delete_seq = te.delete_seq
      /\ x.init_seq = te.init_seq /\ x.init_valid = te.init_valid
      /\ x.children_add = te.children_add /\ x.children_rem = te.children_rem
  BY <1>1 DEF Tentry
<1> HIDE DEF x, te
<1>4. WroteData(x) /\ IsValid(x)
  BY <1>1, <1>3 DEF WroteData, IsValid, Below
<1>5. SameLists(te, x)
  BY <1>3 DEF SameLists
<1>6. ~Deleted(x) /\ (IsValid(te) => ~Deleted(te))
  BY <1>4 DEF Deleted
<1>7. IsValid(te) => KeptData(te, x)
  BY <1>3, <1>4, <1>6, Zenon DEF KeptData, Created
<1> QED
  BY <1>2, <1>4, <1>5, <1>7 DEF Kept, te

LEMMA TMarkDeletedDeletes ==
    ASSUME NEW r, Whole(r), NEW t \in Tid, Touched(r, t)
    PROVE  LET x == TMarkDeleted(r, t).te[t]
           IN  Deleted(x) /\ SameLists(r.te[t], x)
<1> DEFINE te == r.te[t]
           x == [te EXCEPT !.delete_seq = r.next_seq]
<1>1. te \in Tentry /\ r \in Record /\ Below(te, r.next_seq) /\ te.init_seq < r.next_seq
      /\ te.write_seq \in Nat /\ r.next_seq \in Nat
  BY Types DEF Whole, Clean
<1>2. TMarkDeleted(r, t).te[t] = x
  BY <1>1 DEF TMarkDeleted, Record
<1>3. /\ x.write_seq = te.write_seq /\ x.delete_seq = r.next_seq
      /\ x.init_seq = te.init_seq
      /\ x.children_add = te.children_add /\ x.children_rem = te.children_rem
  BY <1>1 DEF Tentry
<1> HIDE DEF x, te
<1>4. Deleted(x)
  BY <1>1, <1>3 DEF Deleted, IsValid, Below
<1> QED
  BY <1>2, <1>3, <1>4 DEF SameLists, te

LEMMA ListKeeps ==
    ASSUME NEW r, Whole(r), NEW t \in Tid, NEW c, NEW cs
    PROVE  LET x == TAddChild(r, t, c).te[t]
               y == TRemoveChildren(r, t, cs).te[t]
           IN  /\ KeptData(r.te[t], x) /\ KeptData(r.te[t], y)
               /\ x.children_add = r.te[t].children_add \cup {c}
               /\ x.children_rem = r.te[t].children_rem \ {c}
               /\ y.children_add = r.te[t].children_add \ cs
               /\ y.children_rem = r.te[t].children_rem \cup cs
<1> DEFINE te == r.te[t]
           x == [te EXCEPT !.children_add = te.children_add \cup {c},
                           !.children_rem = te.children_rem \ {c}]
           y == [te EXCEPT !.children_rem = te.children_rem \cup cs,
                           !.children_add = te.children_add \ cs]
<1>1. te \in Tentry /\ r \in Record
  BY Types DEF Whole
<1>2. TAddChild(r, t, c).te[t] = x /\ TRemoveChildren(r, t, cs).te[t] = y
  BY <1>1 DEF TAddChild, TRemoveChildren, Record
<1>3. /\ x.write_seq = te.write_seq /\ x.delete_seq = te.delete_seq
      /\ x.init_seq = te.init_seq /\ x.init_valid = te.init_valid
      /\ x.children_add = te.children_add \cup {c}
      /\ x.children_rem = te.children_rem \ {c}
  BY <1>1 DEF Tentry
<1>4. /\ y.write_seq = te.write_seq /\ y.delete_seq = te.delete_seq
      /\ y.init_seq = te.init_seq /\ y.init_valid = te.init_valid
      /\ y.children_add = te.children_add \ cs
      /\ y.children_rem = te.children_rem \cup cs
  BY <1>1 DEF Tentry
<1> HIDE DEF x, y, te
<1>5. KeptData(te, x) /\ KeptData(te, y)
  BY <1>3, <1>4, SameNumbers
<1> QED
  BY <1>2, <1>3, <1>4, <1>5 DEF te

-----------------------------------------------------------------------------
(* What a transaction's copies say of the tree.                            *)

(* x is the copy of an entry that y, the copy of its parent, knows as c.   *)
CopyJoins(x, y, c) ==
    /\ c \in y.children_add => WroteData(x)
    /\ c \in y.children_rem => Deleted(x)
    /\ Created(x) => IsValid(y) /\ c \in y.children_add

InUse(q, cs) == \A c \in cs : Append(q, c) \in Path

Shape(d, t) ==
    /\ \A q \in Path : InUse(q, d[q].te[t].children_add \cup d[q].te[t].children_rem)
    /\ \A p \in Path \ {<<>>} : CopyJoins(d[p].te[t], d[Parent(p)].te[t], Base(p))

LEMMA KeptJoins ==
    ASSUME NEW x, NEW y, NEW v, NEW w, NEW c, Kept(x, v), Kept(y, w), CopyJoins(x, y, c)
    PROVE  CopyJoins(v, w, c)
  BY DEF CopyJoins, Kept, KeptData, SameLists

LEMMA KeptShape ==
    ASSUME NEW d, NEW f, NEW t, Shape(d, t),
           \A q \in Path : Kept(d[q].te[t], f[q].te[t])
    PROVE  Shape(f, t)
<1>1. ASSUME NEW q \in Path
      PROVE  InUse(q, f[q].te[t].children_add \cup f[q].te[t].children_rem)
  <2>1. Kept(d[q].te[t], f[q].te[t])
    OBVIOUS
  <2> QED
    BY <2>1 DEF Shape, InUse, Kept, SameLists
<1>2. ASSUME NEW p \in Path \ {<<>>}
      PROVE  CopyJoins(f[p].te[t], f[Parent(p)].te[t], Base(p))
  <2>1. Parent(p) \in Path /\ CopyJoins(d[p].te[t], d[Parent(p)].te[t], Base(p))
    BY Splits DEF Shape
  <2>2. Kept(d[p].te[t], f[p].te[t]) /\ Kept(d[Parent(p)].te[t], f[Parent(p)].te[t])
    BY <2>1
  <2> QED
    BY <2>1, <2>2, KeptJoins
<1> QED
  BY <1>1, <1>2 DEF Shape

LEMMA UpdateShape ==
    ASSUME NEW d, WholeDb(d), NEW t \in Tid, Shape(d, t), NEW p \in Path, NEW r,
           Kept(d[p].te[t], r.te[t])
    PROVE  Shape([d EXCEPT ![p] = r], t)
<1>1. \A q \in Path : Kept(d[q].te[t], [d EXCEPT ![p] = r][q].te[t])
  BY UpdateAt, KeptReflexive
<1> QED
  BY <1>1, KeptShape

(* Creating a branch: what is missing is written and listed by its parent. *)
LEMMA TCreateBranchCopies ==
    ASSUME NEW d, WholeDb(d), NEW t \in Tid, NEW p \in Path, NEW v \in Value, NEW q \in Path
    PROVE  LET V == TValidPaths(d, t)
               added == IF q \in Registrars(V, p) THEN {Step(q, p)} ELSE {}
               x == d[q].te[t]
               y == TCreateBranch(d, t, p, v)[q].te[t]
           IN  /\ y.children_add = x.children_add \cup added
               /\ y.children_rem = x.children_rem \ added
               /\ q \in Missing(V, p) => WroteData(y)
               /\ q \notin Missing(V, p) => KeptData(x, y)
               /\ q \in Registrars(V, p) => IsValid(y)
<1> DEFINE V == TValidPaths(d, t)
           fetched == [s \in Path |-> FetchData(GetTentry(d[s], t), t).te[t].perms]
           perms == InheritedPerms(V, p, fetched)
           val == IF q = p THEN v ELSE EmptyValue
           g == GetTentry(d[q], t)
           w == IF q \in Missing(V, p) THEN TWrite(g, t, val, perms) ELSE g
           a == TAddChild(w, t, Step(q, p))
           new == IF q \in Registrars(V, p) THEN FetchData(a, t)
                  ELSE IF q \in Missing(V, p) THEN w ELSE d[q]
           x == d[q].te[t]
<1>1. perms \in PermList
  <2>1. ASSUME NEW s \in Path
        PROVE  FetchData(GetTentry(d[s], t), t).te[t].perms \in PermList
    <3>1. FetchData(GetTentry(d[s], t), t) \in Record
      BY WholeDbRecords, GetTentryGood, FetchDataGood DEF Good
    <3> QED
      BY <3>1 DEF Record, Tentry
  <2>2. fetched \in [Path -> PermList]
    BY <2>1
  <2> HIDE DEF fetched
  <2> QED
    BY <2>2, InheritedPermsTyped
<1>2. TCreateBranch(d, t, p, v)[q] = new
  BY DEF TCreateBranch
<1>3. val \in Value
  BY Constants
<1> HIDE DEF perms, val
<1>4. /\ Whole(d[q]) /\ Whole(g) /\ Own(d[q], g, t) /\ Touched(g, t)
      /\ Kept(x, g.te[t])
      /\ q \in V <=> IsValid(g.te[t])
  BY WholeDbRecords, GetTentryWhole, GetTentryKeeps DEF TValidPaths
<1> HIDE DEF g, V
<1>5. /\ Whole(w) /\ Own(d[q], w, t) /\ Touched(w, t) /\ SameLists(x, w.te[t])
      /\ q \in Missing(V, p) => WroteData(w.te[t])
      /\ q \notin Missing(V, p) => KeptData(x, w.te[t])
      /\ q \in V => q \notin Missing(V, p) /\ IsValid(w.te[t])
  <2>1. CASE q \in Missing(V, p)
    <3> DEFINE n == TWrite(g, t, val, perms)
    <3>1. Whole(n) /\ Own(d[q], n, t) /\ Touched(n, t)
      BY <1>1, <1>3, <1>4, TWriteWhole
    <3>2. WroteData(n.te[t]) /\ SameLists(g.te[t], n.te[t])
      BY <1>4, TWriteKeeps
    <3>3. w = n
      BY <2>1
    <3> HIDE DEF n, w
    <3> QED
      BY <1>4, <2>1, <3>1, <3>2, <3>3, MissingRegistered DEF Kept, SameLists
  <2>2. CASE q \notin Missing(V, p)
    BY <1>4, <2>2 DEF Kept
  <2> QED
    BY <2>1, <2>2
<1> HIDE DEF w, x
<1>6. CASE q \in Registrars(V, p)
  <2>1. Step(q, p) \in Name /\ (q \in Missing(V, p) \/ q \in V)
    BY <1>6, RegistrarsExist
  <2>2. Good(a) /\ Own(w, a, t)
    BY <1>5, <2>1, TAddChildGood, TAddChildOwn DEF Whole
  <2>3. /\ KeptData(w.te[t], a.te[t])
        /\ a.te[t].children_add = w.te[t].children_add \cup {Step(q, p)}
        /\ a.te[t].children_rem = w.te[t].children_rem \ {Step(q, p)}
    BY <1>5, ListKeeps
  <2> HIDE DEF a
  <2>4. Whole(a) /\ Touched(a, t)
    BY <1>4, <1>5, <2>2, OwnThen
  <2>5. Kept(a.te[t], FetchData(a, t).te[t])
    BY <2>4, FetchDataKeeps
  <2>6. new = FetchData(a, t)
    BY <1>6
  <2> HIDE DEF new
  <2>7. KeptData(w.te[t], new.te[t])
    BY <2>3, <2>5, <2>6 DEF Kept, KeptData
  <2>8. IsValid(w.te[t])
    BY <1>5, <2>1 DEF WroteData
  <2>9. /\ new.te[t].children_add = x.children_add \cup {Step(q, p)}
        /\ new.te[t].children_rem = x.children_rem \ {Step(q, p)}
    BY <1>5, <2>3, <2>5, <2>6 DEF Kept, SameLists
  <2>10. q \in Missing(V, p) => WroteData(new.te[t])
    BY <1>5, <2>7 DEF KeptData
  <2>11. q \notin Missing(V, p) => KeptData(x, new.te[t])
    BY <1>5, <2>7 DEF KeptData
  <2>12. IsValid(new.te[t])
    BY <2>7, <2>8 DEF KeptData
  <2> QED
    BY <1>2, <1>6, <2>9, <2>10, <2>11, <2>12 DEF V, x
<1>7. CASE q \notin Registrars(V, p)
  <2>1. new = IF q \in Missing(V, p) THEN w ELSE d[q]
    BY <1>7
  <2> HIDE DEF new
  <2>2. SameLists(x, new.te[t])
    BY <1>5, <2>1 DEF SameLists, x
  <2>3. q \notin Missing(V, p) => KeptData(x, new.te[t])
    BY <2>1 DEF KeptData, x
  <2>4. q \in Missing(V, p) => WroteData(new.te[t])
    BY <1>5, <2>1
  <2>5. x.children_add \cup {} = x.children_add /\ x.children_rem \ {} = x.children_rem
    OBVIOUS
  <2> QED
    BY <1>2, <1>7, <2>2, <2>3, <2>4, <2>5 DEF V, x, SameLists
<1> QED
  BY <1>6, <1>7

LEMMA TCreateBranchShape ==
    ASSUME NEW d, WholeDb(d), NEW t \in Tid, Shape(d, t), NEW p \in Path, NEW v \in Value
    PROVE  Shape(TCreateBranch(d, t, p, v), t)
<1> DEFINE V == TValidPaths(d, t)
           f == TCreateBranch(d, t, p, v)
           added(q) == IF q \in Registrars(V, p) THEN {Step(q, p)} ELSE {}
<1>1. \A q \in Path :
         /\ f[q].te[t].children_add = d[q].te[t].children_add \cup added(q)
         /\ f[q].te[t].children_rem = d[q].te[t].children_rem \ added(q)
         /\ q \in Missing(V, p) => WroteData(f[q].te[t])
         /\ q \notin Missing(V, p) => KeptData(d[q].te[t], f[q].te[t])
         /\ q \in Registrars(V, p) => IsValid(f[q].te[t])
  BY TCreateBranchCopies
<1> HIDE DEF V, f
<1>2. ASSUME NEW q \in Path, NEW c \in added(q)
      PROVE  Append(q, c) \in Path
  BY <1>2, RegisteredMissing, MissingRegistered
<1>3. ASSUME NEW q \in Path
      PROVE  InUse(q, f[q].te[t].children_add \cup f[q].te[t].children_rem)
  BY <1>1, <1>2 DEF InUse, Shape
<1>4. ASSUME NEW r \in Path \ {<<>>}
      PROVE  CopyJoins(f[r].te[t], f[Parent(r)].te[t], Base(r))
  <2> DEFINE q == Parent(r)
             c == Base(r)
             x == d[r].te[t]
             y == d[q].te[t]
             m == f[r].te[t]
             n == f[q].te[t]
  <2>1. q \in Path /\ Append(q, c) = r
    BY Splits
  <2>2. CopyJoins(x, y, c)
    BY DEF Shape
  <2>3. /\ n.children_add = y.children_add \cup added(q)
        /\ n.children_rem = y.children_rem \ added(q)
    BY <1>1, <2>1
  <2>4. CASE r \in Missing(V, p)
    <3>1. q \in Registrars(V, p) /\ c = Step(q, p)
      BY <2>4, MissingRegistered
    <3>2. WroteData(m) /\ IsValid(n) /\ added(q) = {c}
      BY <1>1, <2>1, <2>4, <3>1
    <3>3. c \in n.children_add /\ c \notin n.children_rem
      BY <2>3, <3>2
    <3> QED
      BY <3>2, <3>3 DEF CopyJoins
  <2>5. CASE r \notin Missing(V, p)
    <3>1. c \notin added(q)
      BY <2>1, <2>5, RegisteredMissing
    <3>2. (c \in n.children_add <=> c \in y.children_add)
          /\ (c \in n.children_rem <=> c \in y.children_rem)
      BY <2>3, <3>1
    <3>3. KeptData(x, m)
      BY <1>1, <2>5
    <3>4. IsValid(y) => IsValid(n)
      BY <1>1, <2>1 DEF KeptData, WroteData
    <3> HIDE DEF x, y, m, n, c, q
    <3>5. CopyJoins(m, n, c)
      BY <2>2, <3>2, <3>3, <3>4 DEF CopyJoins, KeptData
    <3> QED
      BY <3>5 DEF m, n, c, q
  <2> QED
    BY <2>4, <2>5
<1>5. Shape(f, t)
  BY <1>3, <1>4 DEF Shape
<1> QED
  BY <1>5 DEF f

(* Deleting a branch: what is deleted leaves its parent's list.            *)
LEMMA TDeleteBranchCopies ==
    ASSUME NEW d, WholeDb(d), NEW t \in Tid, NEW p \in Path, NEW q \in Path
    PROVE  LET V == TValidPaths(d, t)
               opened(s) == FetchChildren(FetchData(GetTentry(d[s], t), t), t)
               kids == [s \in Path |->
                           IF s \in V THEN CurrentChildren(opened(s).te[t]) ELSE {}]
               visited == Subtree(kids, p)
               removed == IF q \in visited \cap V THEN {c \in kids[q] : Append(q, c) \in V}
                          ELSE IF q \notin visited /\ p # <<>> /\ q = Parent(p)
                          THEN {Base(p)} ELSE {}
               x == d[q].te[t]
               y == TDeleteBranch(d, t, p)[q].te[t]
           IN  /\ y.children_add = x.children_add \ removed
               /\ y.children_rem = x.children_rem \cup removed
               /\ q \in visited \cap V => Deleted(y)
               /\ q \notin visited \cap V => KeptData(x, y)
               /\ IsValid(x) => q \in V
               /\ SameLists(x, opened(q).te[t])
<1> DEFINE V == TValidPaths(d, t)
           opened(s) == FetchChildren(FetchData(GetTentry(d[s], t), t), t)
           kids == [s \in Path |->
                       IF s \in V THEN CurrentChildren(opened(s).te[t]) ELSE {}]
           visited == Subtree(kids, p)
           gone == {c \in kids[q] : Append(q, c) \in V}
           removed == IF q \in visited \cap V THEN gone
                      ELSE IF q \notin visited /\ p # <<>> /\ q = Parent(p)
                      THEN {Base(p)} ELSE {}
           g == GetTentry(d[q], t)
           f == FetchData(g, t)
           o == FetchChildren(f, t)
           new == IF q \in visited \cap V
                  THEN TMarkDeleted(TRemoveChildren(o, t, gone), t)
                  ELSE IF q \in visited THEN g
                  ELSE IF p # <<>> /\ q = Parent(p)
                  THEN TRemoveChildren(g, t, {Base(p)})
                  ELSE d[q]
           x == d[q].te[t]
<1>1. TDeleteBranch(d, t, p)[q] = new
  BY DEF TDeleteBranch
<1>2. opened(q) = o
  OBVIOUS
<1>3. /\ Whole(d[q]) /\ Whole(g) /\ Own(d[q], g, t) /\ Touched(g, t)
      /\ Kept(x, g.te[t])
      /\ q \in V <=> IsValid(g.te[t])
  BY WholeDbRecords, GetTentryWhole, GetTentryKeeps DEF TValidPaths
<1>4. IsValid(x) => q \in V
  BY <1>3 DEF Kept, KeptData
<1> HIDE DEF opened, kids, V, visited, gone, g
<1>5. Whole(f) /\ Own(d[q], f, t) /\ Touched(f, t) /\ Kept(g.te[t], f.te[t])
  BY <1>3, FetchDataWhole, FetchDataKeeps
<1> HIDE DEF f
<1>6. Whole(o) /\ Own(d[q], o, t) /\ Touched(o, t) /\ Kept(f.te[t], o.te[t])
  BY <1>3, <1>5, FetchChildrenWhole, FetchChildrenKeeps
<1> HIDE DEF o, x
<1>7. Kept(x, o.te[t])
  BY <1>3, <1>5, <1>6, KeptTransitive
<1>8. CASE q \in visited \cap V
  <2> DEFINE w == TRemoveChildren(o, t, gone)
  <2>1. gone \in SUBSET Name
    <3>1. opened(q).te[t] \in Tentry
      BY <1>2, <1>6, Types DEF Whole
    <3>2. kids[q] \in SUBSET Name
      BY <3>1 DEF kids, CurrentChildren, Tentry
    <3> QED
      BY <3>2 DEF gone
  <2>2. Good(w) /\ Own(o, w, t)
    BY <1>6, <2>1, TRemoveChildrenGood, TRemoveChildrenOwn DEF Whole
  <2>3. /\ w.te[t].children_add = o.te[t].children_add \ gone
        /\ w.te[t].children_rem = o.te[t].children_rem \cup gone
    BY <1>6, ListKeeps
  <2> HIDE DEF w
  <2>4. Whole(w) /\ Touched(w, t)
    BY <1>3, <1>6, <2>2, OwnThen
  <2>5. Deleted(TMarkDeleted(w, t).te[t]) /\ SameLists(w.te[t], TMarkDeleted(w, t).te[t])
    BY <2>4, TMarkDeletedDeletes
  <2>6. new = TMarkDeleted(w, t) /\ removed = gone
    BY <1>8 DEF w
  <2> HIDE DEF new, removed
  <2>7. /\ new.te[t].children_add = x.children_add \ removed
        /\ new.te[t].children_rem = x.children_rem \cup removed
        /\ Deleted(new.te[t])
    BY <1>7, <2>3, <2>5, <2>6 DEF SameLists, Kept
  <2> QED
    BY <1>1, <1>2, <1>4, <1>7, <1>8, <2>7
       DEF Kept, x, removed, gone, visited, V, kids, opened
<1>9. CASE q \notin visited /\ p # <<>> /\ q = Parent(p)
  <2>1. new = TRemoveChildren(g, t, {Base(p)}) /\ removed = {Base(p)}
    BY <1>9
  <2>2. /\ KeptData(g.te[t], TRemoveChildren(g, t, {Base(p)}).te[t])
        /\ TRemoveChildren(g, t, {Base(p)}).te[t].children_add
              = g.te[t].children_add \ {Base(p)}
        /\ TRemoveChildren(g, t, {Base(p)}).te[t].children_rem
              = g.te[t].children_rem \cup {Base(p)}
    BY <1>3, ListKeeps
  <2> HIDE DEF new, removed
  <2>3. /\ new.te[t].children_add = x.children_add \ removed
        /\ new.te[t].children_rem = x.children_rem \cup removed
        /\ KeptData(x, new.te[t])
    BY <1>3, <2>1, <2>2 DEF SameLists, Kept, KeptData, x
  <2> QED
    BY <1>1, <1>2, <1>4, <1>7, <1>9, <2>3
       DEF Kept, x, removed, gone, visited, V, kids, opened
<1>10. CASE q \notin visited \cap V /\ ~(q \notin visited /\ p # <<>> /\ q = Parent(p))
  <2>1. (new = g \/ new = d[q]) /\ removed = {}
    BY <1>10
  <2>2. Kept(x, new.te[t])
    BY <1>3, <2>1, KeptReflexive DEF x
  <2> HIDE DEF new, removed
  <2>3. /\ new.te[t].children_add = x.children_add \ removed
        /\ new.te[t].children_rem = x.children_rem \cup removed
        /\ KeptData(x, new.te[t])
    BY <2>1, <2>2 DEF SameLists, Kept
  <2> QED
    BY <1>1, <1>2, <1>4, <1>7, <1>10, <2>3
       DEF Kept, x, removed, gone, visited, V, kids, opened
<1> QED
  BY <1>8, <1>9, <1>10

LEMMA TDeleteBranchShape ==
    ASSUME NEW d, WholeDb(d), NEW t \in Tid, Shape(d, t), NEW p \in Path,
           p \in TValidPaths(d, t)
    PROVE  Shape(TDeleteBranch(d, t, p), t)
<1> DEFINE V == TValidPaths(d, t)
           f == TDeleteBranch(d, t, p)
           opened(s) == FetchChildren(FetchData(GetTentry(d[s], t), t), t)
           kids == [s \in Path |->
                       IF s \in V THEN CurrentChildren(opened(s).te[t]) ELSE {}]
           visited == Subtree(kids, p)
           removed(q) == IF q \in visited \cap V THEN {c \in kids[q] : Append(q, c) \in V}
                         ELSE IF q \notin visited /\ p # <<>> /\ q = Parent(p)
                         THEN {Base(p)} ELSE {}
<1>1. \A q \in Path :
         /\ f[q].te[t].children_add = d[q].te[t].children_add \ removed(q)
         /\ f[q].te[t].children_rem = d[q].te[t].children_rem \cup removed(q)
         /\ q \in visited \cap V => Deleted(f[q].te[t])
         /\ q \notin visited \cap V => KeptData(d[q].te[t], f[q].te[t])
         /\ IsValid(d[q].te[t]) => q \in V
         /\ SameLists(d[q].te[t], opened(q).te[t])
  BY TDeleteBranchCopies
<1>2. ASSUME NEW q \in V
      PROVE  kids[q] = CurrentChildren(opened(q).te[t])
  BY DEF TValidPaths
<1>3. ASSUME NEW q \in Path \ V
      PROVE  kids[q] = {}
  OBVIOUS
<1>4. p \in visited /\ p \in V /\ V \subseteq Path
  BY SubtreeRoot DEF TValidPaths
<1>5. \A r \in Path : r # <<>> /\ r # p =>
         (r \in visited <=> Parent(r) \in visited /\ Base(r) \in kids[Parent(r)])
  BY SubtreeStep
<1>6. p # <<>> => Parent(p) \notin visited
  BY SubtreeRoot
<1> HIDE DEF V, f, opened, kids, visited
<1>7. ASSUME NEW q \in Path, NEW c \in removed(q)
      PROVE  Append(q, c) \in Path
  BY <1>4, <1>7, Splits
<1>8. ASSUME NEW q \in Path
      PROVE  InUse(q, f[q].te[t].children_add \cup f[q].te[t].children_rem)
  BY <1>1, <1>7 DEF InUse, Shape
<1>9. ASSUME NEW r \in Path \ {<<>>}
      PROVE  CopyJoins(f[r].te[t], f[Parent(r)].te[t], Base(r))
  <2> DEFINE q == Parent(r)
             c == Base(r)
             x == d[r].te[t]
             y == d[q].te[t]
             m == f[r].te[t]
             n == f[q].te[t]
  <2>1. q \in Path /\ Append(q, c) = r
    BY Splits
  <2>2. CopyJoins(x, y, c)
    BY DEF Shape
  <2>3. /\ n.children_add = y.children_add \ removed(q)
        /\ n.children_rem = y.children_rem \cup removed(q)
        /\ IsValid(x) => r \in V
        /\ IsValid(y) => q \in V
    BY <1>1, <2>1
  (* c leaves the lists of q exactly with r. *)
  <2>4. c \in removed(q) => r \in visited /\ r \in V
    <3>1. CASE q \in visited \cap V
      <4>1. r \in Path /\ r # <<>> /\ r # p
        BY <1>6, <3>1
      <4> QED
        BY <1>5, <2>1, <3>1, <4>1
    <3>2. CASE q \notin visited /\ p # <<>> /\ q = Parent(p)
      <4>1. c \in removed(q) => c = Base(p)
        BY <3>2
      <4>2. c = Base(p) => r = p
        BY <2>1, <3>2, Splits
      <4> QED
        BY <1>4, <4>1, <4>2
    <3> QED
      BY <3>1, <3>2
  <2>5. r = p => c \in removed(q)
    BY <1>6
  <2>6. ASSUME r \in visited, r \in V, c \in y.children_add
        PROVE  c \in removed(q)
    <3>1. CASE r = p
      BY <2>5, <3>1
    <3>2. CASE r # p
      <4>1. q \in visited /\ c \in kids[q]
        BY <1>5, <2>6, <3>2
      <4>2. q \in V
        BY <1>3, <2>1, <4>1
      <4> QED
        BY <2>1, <2>6, <4>1, <4>2
    <3> QED
      BY <3>1, <3>2
  (* A child that is valid and listed goes with its parent. *)
  <2>7. ASSUME c \in y.children_add, q \in visited, IsValid(y)
        PROVE  r \in visited
    <3>1. c \notin y.children_rem
      BY <2>2, <2>7 DEF CopyJoins, WroteData, Deleted
    <3>2. q \in V /\ kids[q] = CurrentChildren(opened(q).te[t])
      BY <1>2, <2>3, <2>7
    <3>3. SameLists(y, opened(q).te[t])
      BY <1>1, <2>1
    <3>4. c \in kids[q]
      BY <2>7, <3>1, <3>2, <3>3 DEF SameLists, CurrentChildren
    <3> QED
      BY <1>4, <1>5, <2>7, <3>4
  <2>8. /\ r \in visited \cap V => Deleted(m)
        /\ r \notin visited \cap V => KeptData(x, m)
        /\ q \notin visited \cap V => KeptData(y, n)
    BY <1>1, <2>1
  <2> HIDE DEF x, y, m, n, c, q, removed
  <2>9. ASSUME c \in n.children_add
        PROVE  WroteData(m)
    <3>1. c \in y.children_add /\ c \notin removed(q)
      BY <2>3, <2>9
    <3>2. WroteData(x)
      BY <2>2, <3>1 DEF CopyJoins
    <3>3. r \notin visited \cap V
      BY <2>6, <3>1
    <3> QED
      BY <2>8, <3>2, <3>3 DEF KeptData
  <2>10. ASSUME c \in n.children_rem
         PROVE  Deleted(m)
    BY <2>2, <2>3, <2>4, <2>8, <2>10 DEF CopyJoins, KeptData
  <2>11. ASSUME Created(m)
         PROVE  IsValid(n) /\ c \in n.children_add
    <3>1. r \notin visited \cap V /\ Created(x)
      BY <2>8, <2>11 DEF KeptData, Created, Deleted
    <3>2. r \in V /\ IsValid(y) /\ c \in y.children_add
      BY <2>2, <2>3, <3>1 DEF CopyJoins, Created
    <3>3. q \notin visited
      BY <2>7, <3>1, <3>2
    <3>4. c \notin removed(q)
      BY <2>4, <3>1
    <3> QED
      BY <2>3, <2>8, <3>2, <3>3, <3>4 DEF KeptData
  <2>12. CopyJoins(m, n, c)
    BY <2>9, <2>10, <2>11 DEF CopyJoins
  <2> QED
    BY <2>12 DEF m, n, c, q
<1>10. Shape(f, t)
  BY <1>8, <1>9 DEF Shape
<1> QED
  BY <1>10 DEF f

(* The operations of a transaction keep its copies in shape.               *)
LEMMA TransShape ==
    ASSUME WholeDb(db), NEW t \in Tid, TransNext(t), Shape(db, t)
    PROVE  Shape(db', t)
<1>1. PICK p \in Path :
         \/ TransCreate(t, p)
         \/ TransRead(t, p)
         \/ \E c \in Cid :
               \/ TransGetChildren(t, p, c)
               \/ \E v \in Value : TransUpdate(t, p, c, v)
               \/ \E perms \in PermLists : TransSetPerms(t, p, c, perms)
               \/ TransDel(t, p, c)
  BY DEF TransNext, TransWriteNext
<1> DEFINE o == Open(db[p], t)
<1>2. /\ Whole(db[p]) /\ Whole(o) /\ Touched(o, t) /\ Kept(db[p].te[t], o.te[t])
      /\ IsValid(o.te[t]) => p \in TValidPaths(db, t)
  BY WholeDbRecords, OpenOwn, OpenKeeps DEF TValidPaths
<1>3. ASSUME NEW r, Kept(db[p].te[t], r.te[t]), db' = [db EXCEPT ![p] = r]
      PROVE  Shape(db', t)
  BY <1>3, UpdateShape
<1>4. ASSUME NEW v, NEW pl, IsValid(o.te[t]), db' = [db EXCEPT ![p] = TWrite(o, t, v, pl)]
      PROVE  Shape(db', t)
  <2> HIDE DEF o
  <2>1. Kept(o.te[t], TWrite(o, t, v, pl).te[t])
    BY <1>2, <1>4, TWriteKeeps
  <2>2. Kept(db[p].te[t], TWrite(o, t, v, pl).te[t])
    BY <1>2, <2>1, KeptTransitive
  <2> QED
    BY <1>3, <1>4, <2>2
<1> HIDE DEF o
<1>5. CASE TransCreate(t, p)
  <2>1. Kept(db[p].te[t], GetTentry(db[p], t).te[t])
    BY <1>2, GetTentryKeeps
  <2>2. \/ db' = [db EXCEPT ![p] = GetTentry(db[p], t)]
        \/ db' = TCreateBranch(db, t, p, EmptyValue)
    BY <1>5 DEF TransCreate
  <2> QED
    BY <1>3, <2>1, <2>2, Constants, TCreateBranchShape
<1>6. CASE TransRead(t, p)
  BY <1>2, <1>3, <1>6 DEF TransRead, o
<1>7. ASSUME NEW c \in Cid, TransGetChildren(t, p, c)
      PROVE  Shape(db', t)
  <2>1. Kept(o.te[t], FetchChildren(o, t).te[t])
    BY <1>2, FetchChildrenKeeps
  <2>2. Kept(db[p].te[t], FetchChildren(o, t).te[t])
    BY <1>2, <2>1, KeptTransitive
  <2>3. db' = [db EXCEPT ![p] = FetchChildren(o, t)] \/ db' = [db EXCEPT ![p] = o]
    BY <1>7 DEF TransGetChildren, o
  <2> QED
    BY <1>2, <1>3, <2>2, <2>3
<1>8. ASSUME NEW c \in Cid, NEW v \in Value, TransUpdate(t, p, c, v)
      PROVE  Shape(db', t)
  <2>1. \/ db' = TCreateBranch(db, t, p, v)
        \/ IsValid(o.te[t]) /\ db' = [db EXCEPT ![p] = TWrite(o, t, v, o.te[t].perms)]
        \/ db' = [db EXCEPT ![p] = o]
    BY <1>8 DEF TransUpdate, o
  <2> QED
    BY <1>2, <1>3, <1>4, <2>1, TCreateBranchShape
<1>9. ASSUME NEW c \in Cid, NEW perms \in PermLists, TransSetPerms(t, p, c, perms)
      PROVE  Shape(db', t)
  <2>1. \/ IsValid(o.te[t]) /\ db' = [db EXCEPT ![p] = TWrite(o, t, o.te[t].value, perms)]
        \/ db' = [db EXCEPT ![p] = o]
    BY <1>9 DEF TransSetPerms, o
  <2> QED
    BY <1>2, <1>3, <1>4, <2>1
<1>10. ASSUME NEW c \in Cid, TransDel(t, p, c)
       PROVE  Shape(db', t)
  <2>1. \/ p \in TValidPaths(db, t) /\ db' = TDeleteBranch(db, t, p)
        \/ db' = [db EXCEPT ![p] = o]
    BY <1>2, <1>10 DEF TransDel, o
  <2> QED
    BY <1>2, <1>3, <2>1, TDeleteBranchShape
<1> QED
  BY <1>1, <1>5, <1>6, <1>7, <1>8, <1>9, <1>10

-----------------------------------------------------------------------------
(* What an operation does to one entry.                                    *)

(* The numbers of an entry are only equal as long as neither was ever set; *)
(* and a record marked deleted is referenced.                              *)
Apart(r) == r.e.write_seq = r.e.delete_seq => r.e.delete_seq = 0
Reclaimed(r) == Apart(r) /\ (Untouched(r) /\ ~IsValid(r.e) => r.e.delete_seq = 0)

LEMMA NewRecordReclaimed ==
    /\ ~IsValid(NewRecord.e) /\ NewRecord.e.children = {} /\ Reclaimed(NewRecord)
  BY DEF NewRecord, NewEntry, IsValid, Reclaimed, Apart

LEMMA ValidReclaimed ==
    ASSUME NEW r, Good(r), IsValid(r.e)
    PROVE  Reclaimed(r)
  BY Types DEF Reclaimed, Apart, IsValid

LEMMA AddChildEntry ==
    ASSUME NEW r, Good(r), NEW c
    PROVE  /\ AddChild(r, c).e.children = r.e.children \cup {c}
           /\ IsValid(AddChild(r, c).e) <=> IsValid(r.e)
<1> DEFINE x == [r.e EXCEPT !.children = r.e.children \cup {c},
                            !.write_children_seq = r.next_seq]
<1>1. AddChild(r, c).e = x
  BY Types DEF AddChild, SetChildren, Record
<1>2. /\ x.children = r.e.children \cup {c}
      /\ x.write_seq = r.e.write_seq /\ x.delete_seq = r.e.delete_seq
  BY Types DEF Entry
<1> QED
  BY <1>1, <1>2 DEF IsValid

LEMMA RemoveChildrenEntry ==
    ASSUME NEW r, Good(r), NEW cs \in SUBSET Name
    PROVE  /\ RemoveChildren(r, cs).te = r.te
           /\ RemoveChildren(r, cs).e.children = r.e.children \ cs
           /\ RemoveChildren(r, cs).e.write_seq = r.e.write_seq
           /\ RemoveChildren(r, cs).e.delete_seq = r.e.delete_seq
<1>1. CASE cs = {}
  BY <1>1 DEF RemoveChildren
<1>2. CASE cs # {}
  <2> DEFINE k == Cardinality(cs)
             n == r.next_seq + k
             x == [r.e EXCEPT !.children = r.e.children \ cs,
                              !.write_children_seq = r.next_seq + k - 1]
  <2>1. RemoveChildren(r, cs) = [r EXCEPT !.e = x, !.next_seq = n]
    BY <1>2 DEF RemoveChildren
  <2>2. /\ x.children = r.e.children \ cs
        /\ x.write_seq = r.e.write_seq /\ x.delete_seq = r.e.delete_seq
    BY Types DEF Entry
  <2> HIDE DEF x, n
  <2>3. RemoveChildren(r, cs).e = x /\ RemoveChildren(r, cs).te = r.te
    BY <2>1, Types DEF Record
  <2> QED
    BY <2>2, <2>3
<1> QED
  BY <1>1, <1>2

LEMMA MarkDeletedEntry ==
    ASSUME NEW r, Good(r), r.e.children = {}
    PROVE  /\ ~IsValid(MarkDeleted(r).e) /\ MarkDeleted(r).e.children = {}
           /\ Reclaimed(MarkDeleted(r))
<1>1. CASE Untouched(r)
  BY <1>1, NewRecordReclaimed DEF MarkDeleted
<1>2. CASE ~Untouched(r)
  <2> DEFINE x == [r.e EXCEPT !.delete_seq = r.next_seq]
             w == MarkDeleted(r)
  <2>1. w.e = x /\ w.te = r.te
    BY <1>2, Types DEF MarkDeleted, Record
  <2>2. x.children = {} /\ x.write_seq = r.e.write_seq /\ x.delete_seq = r.next_seq
    BY Types DEF Entry
  <2> HIDE DEF x, w
  <2>3. ~IsValid(w.e) /\ w.e.write_seq # w.e.delete_seq
    BY <2>1, <2>2, Types DEF IsValid
  <2>4. ~Untouched(w)
    BY <1>2, <2>1 DEF Untouched, Touched
  <2> QED
    BY <2>1, <2>2, <2>3, <2>4 DEF Reclaimed, Apart, w
<1> QED
  BY <1>1, <1>2

(* What a merge makes of an entry.                                         *)
LEMMA CleanupEntry ==
    ASSUME NEW r, Good(r), Apart(r)
    PROVE  /\ IsValid(Cleanup(r).e) <=> IsValid(r.e)
           /\ Cleanup(r).e.children = r.e.children
           /\ Reclaimed(Cleanup(r))
<1>1. CASE ~Untouched(r)
  BY <1>1 DEF Cleanup, Reclaimed
<1>2. CASE Untouched(r) /\ ~IsValid(r.e)
  <2>1. r.e.children = {}
    BY <1>2 DEF Good, RecordSound
  <2> QED
    BY <1>2, <2>1, NewRecordReclaimed DEF Cleanup
<1>3. CASE Untouched(r) /\ IsValid(r.e)
  <2> DEFINE x == [r.e EXCEPT !.write_seq = 1, !.delete_seq = 0,
                              !.write_children_seq = 0]
             w == Cleanup(r)
  <2>1. w.e = x
    BY <1>3, Types DEF Cleanup, Record
  <2>2. x.children = r.e.children /\ x.write_seq = 1 /\ x.delete_seq = 0
    BY Types DEF Entry
  <2> HIDE DEF x
  <2>3. IsValid(w.e) /\ Good(w)
    BY <2>1, <2>2, CleanupGood DEF IsValid
  <2> QED
    BY <1>3, <2>1, <2>2, <2>3, ValidReclaimed
<1> QED
  BY <1>1, <1>2, <1>3

LEMMA CommitEntry ==
    ASSUME NEW r, Good(r), NEW t \in Tid, Touched(r, t), CanMergeRec(r, t)
    PROVE  LET te == r.te[t]
               w == Commit(r, t)
           IN  /\ IsValid(w.e) <=> IsValid(r.e) \/ WroteData(te)
               /\ IsValid(te) => IsValid(w.e)
               /\ w.e.children = IF WroteChildren(te)
                                 THEN (r.e.children \cup te.children_add) \ te.children_rem
                                 ELSE r.e.children
               /\ IsValid(w.e) \/ w.e = r.e
<1> DEFINE te == r.te[t]
           w == IF WroteData(te) THEN WriteEntry(r, te.value, te.perms) ELSE r
           cs == (r.e.children \cup te.children_add) \ te.children_rem
<1>1. te \in Tentry /\ r.e \in Entry /\ te.value \in Value /\ te.perms \in PermList
  BY Types DEF Tentry
<1>2. /\ Good(w) /\ w.e.children = r.e.children
      /\ IsValid(w.e) <=> IsValid(r.e) \/ WroteData(te)
      /\ IsValid(w.e) \/ w.e = r.e
  BY <1>1, WriteEntryGood
<1>3. ASSUME IsValid(te), ~WroteData(te)
      PROVE  IsValid(r.e)
  <2>1. te.write_seq # te.init_seq
    BY DEF Good, RecordSound, CopySound
  <2>2. Pristine(te)
    BY <1>1, <1>3, <2>1 DEF WroteData, Pristine, IsValid, Tentry
  <2>3. te.init_valid
    BY <1>3, <2>2 DEF Good, RecordSound, CopySound
  <2> QED
    BY <2>3 DEF Good, RecordSound, CopySound, CopyCurrent
<1> HIDE DEF te, w
<1>4. CASE WroteChildren(te)
  <2>1. Commit(r, t) = SetChildren(w, cs)
    <3>1. ~Deleted(te)
      BY <1>4 DEF WroteChildren, Deleted
    <3> QED
      BY <1>4, <3>1 DEF Commit, te, w
  <2>2. IsValid(w.e)
    BY <1>2, <1>3, <1>4 DEF WroteChildren
  <2>3. SetChildren(w, cs).e.children = cs
    <3>1. w \in Record /\ w.e \in Entry
      BY <1>2, Types
    <3> QED
      BY <3>1 DEF SetChildren, Record, Entry
  <2>4. IsValid(SetChildren(w, cs).e)
    BY <1>2, <2>2, SetChildrenOutside DEF IsValid
  <2> QED
    BY <1>2, <1>4, <2>1, <2>2, <2>3, <2>4 DEF te
<1>5. CASE ~WroteChildren(te) /\ Deleted(te)
  <2>1. Commit(r, t).e = r.e
    BY <1>5, Types DEF Commit, te, Record
  <2>2. ~IsValid(te) /\ ~WroteData(te)
    BY <1>5 DEF Deleted, WroteData
  <2> QED
    BY <1>5, <2>1, <2>2 DEF te
<1>6. CASE ~WroteChildren(te) /\ ~Deleted(te)
  <2>1. Commit(r, t) = w
    BY <1>6 DEF Commit, te, w
  <2> QED
    BY <1>2, <1>3, <1>6, <2>1 DEF te
<1> QED
  BY <1>4, <1>5, <1>6

LEMMA MergeRecEntry ==
    ASSUME NEW r, Whole(r), Reclaimed(r), NEW t \in Tid, Touched(r, t), CanMergeRec(r, t)
    PROVE  LET te == r.te[t]
               w == MergeRec(r, t)
           IN  /\ IsValid(w.e) <=> IsValid(r.e) \/ WroteData(te)
               /\ IsValid(te) => IsValid(w.e)
               /\ w.e.children = IF WroteChildren(te)
                                 THEN (r.e.children \cup te.children_add) \ te.children_rem
                                 ELSE r.e.children
               /\ Reclaimed(w)
<1> DEFINE c == Commit(r, t)
           d == DropTentry(c, t)
<1>1. Good(r) /\ Good(c) /\ Good(d) /\ d.e = c.e
  BY CommitGood, DropTentryGood DEF Whole
<1>2. /\ IsValid(c.e) <=> IsValid(r.e) \/ WroteData(r.te[t])
      /\ IsValid(r.te[t]) => IsValid(c.e)
      /\ c.e.children = IF WroteChildren(r.te[t])
                        THEN (r.e.children \cup r.te[t].children_add)
                                \ r.te[t].children_rem
                        ELSE r.e.children
      /\ IsValid(c.e) \/ c.e = r.e
  BY <1>1, CommitEntry
<1>3. MergeRec(r, t) = Cleanup(d)
  BY DEF MergeRec
<1> HIDE DEF c, d
<1>4. Apart(d)
  <2>1. CASE IsValid(c.e)
    BY <1>1, <2>1, ValidReclaimed DEF Reclaimed, Apart
  <2>2. CASE c.e = r.e
    BY <1>1, <2>2 DEF Reclaimed, Apart
  <2> QED
    BY <1>2, <2>1, <2>2
<1>5. /\ IsValid(Cleanup(d).e) <=> IsValid(d.e)
      /\ Cleanup(d).e.children = d.e.children
      /\ Reclaimed(Cleanup(d))
  BY <1>1, <1>4, CleanupEntry
<1> QED
  BY <1>1, <1>2, <1>3, <1>5

LEMMA AbortRecEntry ==
    ASSUME NEW r, Whole(r), Reclaimed(r), NEW t \in Tid
    PROVE  LET w == AbortRec(r, t)
           IN  /\ IsValid(w.e) <=> IsValid(r.e)
               /\ w.e.children = r.e.children
               /\ Reclaimed(w)
<1> DEFINE d == DropTentry(r, t)
<1>1. Good(r) /\ Good(d) /\ d.e = r.e
  BY DropTentryGood DEF Whole
<1>2. CASE d.e.delete_seq > d.e.write_seq /\ Untouched(d)
  <2>1. ~IsValid(r.e)
    BY <1>1, <1>2, Types DEF IsValid
  <2>2. r.e.children = {}
    BY <1>1, <2>1 DEF Good, RecordSound
  <2> QED
    BY <1>2, <2>1, <2>2, NewRecordReclaimed DEF AbortRec
<1>3. CASE ~(d.e.delete_seq > d.e.write_seq /\ Untouched(d))
  <2>1. AbortRec(r, t) = d
    BY <1>3 DEF AbortRec
  <2> HIDE DEF d
  <2>2. Reclaimed(d)
    BY <1>1, <1>3, Types DEF Reclaimed, Apart, IsValid
  <2> QED
    BY <1>1, <2>1, <2>2
<1> QED
  BY <1>2, <1>3

-----------------------------------------------------------------------------
(* What the entries say of the tree.                                       *)

Listed(d) ==
    /\ \A q \in Path : InUse(q, d[q].e.children)
    /\ \A p \in Path \ {<<>>} : Base(p) \in d[Parent(p)].e.children => IsValid(d[p].e)

(* Every valid entry, but for those in lost, hangs off a valid parent.     *)
Hung(d, lost) ==
    \A p \in Path \ ({<<>>} \cup lost) : IsValid(d[p].e) =>
        IsValid(d[Parent(p)].e) /\ Base(p) \in d[Parent(p)].e.children

Tidy(d) == \A q \in Path : Reclaimed(d[q])

StaysHung(d, f) == \A lost : Hung(d, lost) => Hung(f, lost)

SameEntry(x, y) == (IsValid(y) <=> IsValid(x)) /\ y.children = x.children

LEMMA SameTree ==
    ASSUME NEW d, NEW f, Listed(d), \A q \in Path : SameEntry(d[q].e, f[q].e)
    PROVE  Listed(f) /\ StaysHung(d, f)
<1>1. \A q \in Path : /\ IsValid(f[q].e) <=> IsValid(d[q].e)
                      /\ f[q].e.children = d[q].e.children
  BY DEF SameEntry
<1>2. \A p \in Path \ {<<>>} : Parent(p) \in Path
  BY Splits
<1>3. Listed(f)
  BY <1>1, <1>2 DEF Listed
<1>4. StaysHung(d, f)
  BY <1>1, <1>2 DEF StaysHung, Hung
<1> QED
  BY <1>3, <1>4

(* create: what is missing becomes valid and is listed by its parent.      *)
LEMMA CreateBranchEntry ==
    ASSUME NEW d, WholeDb(d), Tidy(d), NEW p \in Path, NEW v \in Value, NEW q \in Path
    PROVE  LET V == ValidPaths(d)
               added == IF q \in Registrars(V, p) THEN {Step(q, p)} ELSE {}
               w == CreateBranch(d, p, v)[q]
           IN  /\ IsValid(w.e) <=> q \in Missing(V, p) \/ IsValid(d[q].e)
               /\ q \in Registrars(V, p) => IsValid(w.e)
               /\ w.e.children = d[q].e.children \cup added
               /\ Reclaimed(w)
<1> DEFINE V == ValidPaths(d)
           perms == InheritedPerms(V, p, [s \in Path |-> d[s].e.perms])
           val == IF q = p THEN v ELSE EmptyValue
           w == IF q \in Missing(V, p) THEN WriteEntry(d[q], val, perms) ELSE d[q]
           new == IF q \in Registrars(V, p) THEN AddChild(w, Step(q, p)) ELSE w
<1>1. perms \in PermList
  <2>1. [s \in Path |-> d[s].e.perms] \in [Path -> PermList]
    BY WholeDbRecords DEF Entry
  <2> QED
    BY <2>1, InheritedPermsTyped
<1>2. CreateBranch(d, p, v)[q] = new
  BY DEF CreateBranch
<1>3. val \in Value
  BY Constants
<1> HIDE DEF perms, val
<1>4. Good(d[q]) /\ Reclaimed(d[q]) /\ (q \in V <=> IsValid(d[q].e))
  BY WholeDbRecords DEF Tidy, ValidPaths
<1>5. Good(CreateBranch(d, p, v)[q])
  <2>1. GoodDb(CreateBranch(d, p, v))
    BY CreateBranchGood DEF WholeDb
  <2> QED
    BY <2>1, GoodDbRecords
<1> HIDE DEF V
<1>6. /\ Good(w) /\ w.e.children = d[q].e.children /\ Reclaimed(w)
      /\ IsValid(w.e) <=> q \in Missing(V, p) \/ IsValid(d[q].e)
  <2>1. CASE q \in Missing(V, p)
    BY <1>1, <1>3, <1>4, <2>1, WriteEntryGood, ValidReclaimed
  <2>2. CASE q \notin Missing(V, p)
    BY <1>4, <2>2
  <2> QED
    BY <2>1, <2>2
<1>7. q \in Registrars(V, p) => IsValid(w.e)
  BY <1>4, <1>6, RegistrarsExist
<1> HIDE DEF w
<1>8. CASE q \in Registrars(V, p)
  <2>1. /\ new.e.children = w.e.children \cup {Step(q, p)}
        /\ IsValid(new.e) <=> IsValid(w.e)
    BY <1>6, <1>8, AddChildEntry
  <2>2. Reclaimed(new)
    BY <1>2, <1>5, <1>7, <1>8, <2>1, ValidReclaimed
  <2> QED
    BY <1>2, <1>6, <1>7, <1>8, <2>1, <2>2 DEF V
<1>9. CASE q \notin Registrars(V, p)
  BY <1>2, <1>6, <1>9 DEF V
<1> QED
  BY <1>8, <1>9

LEMMA CreateBranchTree ==
    ASSUME NEW d, WholeDb(d), Tidy(d), Listed(d), NEW p \in Path, NEW v \in Value
    PROVE  /\ Listed(CreateBranch(d, p, v)) /\ Tidy(CreateBranch(d, p, v))
           /\ StaysHung(d, CreateBranch(d, p, v))
<1> DEFINE V == ValidPaths(d)
           f == CreateBranch(d, p, v)
           added(q) == IF q \in Registrars(V, p) THEN {Step(q, p)} ELSE {}
<1>1. \A q \in Path :
        /\ IsValid(f[q].e) <=> q \in Missing(V, p) \/ IsValid(d[q].e)
        /\ q \in Registrars(V, p) => IsValid(f[q].e)
        /\ f[q].e.children = d[q].e.children \cup added(q)
        /\ Reclaimed(f[q])
  BY CreateBranchEntry
<1>2. \A q \in Path : \A c \in added(q) : Append(q, c) \in Missing(V, p)
  BY RegisteredMissing
<1>3. \A q \in Missing(V, p) :
         /\ q \in Path
         /\ q # <<>> => Parent(q) \in Registrars(V, p) /\ Base(q) = Step(Parent(q), p)
  BY MissingRegistered
<1> HIDE DEF f, V
<1>4. Tidy(f)
  BY <1>1 DEF Tidy
<1>5. ASSUME NEW q \in Path
      PROVE  InUse(q, f[q].e.children)
  BY <1>1, <1>2, <1>3 DEF Listed, InUse
<1>6. ASSUME NEW r \in Path \ {<<>>}, Base(r) \in f[Parent(r)].e.children
      PROVE  IsValid(f[r].e)
  <2>1. Parent(r) \in Path /\ Append(Parent(r), Base(r)) = r
    BY Splits
  <2>2. CASE Base(r) \in d[Parent(r)].e.children
    BY <1>1, <2>2 DEF Listed
  <2>3. CASE Base(r) \in added(Parent(r))
    <3>1. r \in Missing(V, p)
      BY <1>2, <2>1, <2>3
    <3> QED
      BY <1>1, <3>1
  <2> QED
    BY <1>1, <1>6, <2>1, <2>2, <2>3
<1>7. ASSUME NEW lost, Hung(d, lost), NEW r \in Path \ ({<<>>} \cup lost), IsValid(f[r].e)
      PROVE  IsValid(f[Parent(r)].e) /\ Base(r) \in f[Parent(r)].e.children
  <2>1. Parent(r) \in Path
    BY Splits
  <2>2. CASE r \in Missing(V, p)
    BY <1>1, <1>3, <2>1, <2>2
  <2>3. CASE IsValid(d[r].e)
    BY <1>1, <1>7, <2>1, <2>3 DEF Hung
  <2> QED
    BY <1>1, <1>7, <2>2, <2>3
<1>8. Listed(f) /\ StaysHung(d, f)
  BY <1>5, <1>6, <1>7 DEF Listed, StaysHung, Hung
<1> QED
  BY <1>4, <1>8 DEF f

(* del: the listed subtree goes, and its name from the parent's list.      *)
LEMMA DeleteBranchTree ==
    ASSUME NEW d, WholeDb(d), Tidy(d), Listed(d), NEW p \in Path,
           \A q \in Subtree([q \in Path |-> d[q].e.children], p) : IsValid(d[q].e)
    PROVE  /\ Listed(DeleteBranch(d, p)) /\ Tidy(DeleteBranch(d, p))
           /\ StaysHung(d, DeleteBranch(d, p))
<1> DEFINE kids == [q \in Path |-> d[q].e.children]
           S == Subtree(kids, p)
           f == DeleteBranch(d, p)
           cut(q) == IF p # <<>> /\ q = Parent(p) THEN {Base(p)} ELSE {}
<1>1. ASSUME NEW q \in Path
      PROVE  /\ Reclaimed(f[q])
             /\ q \in S => ~IsValid(f[q].e) /\ f[q].e.children = {}
             /\ q \notin S => /\ IsValid(f[q].e) <=> IsValid(d[q].e)
                              /\ f[q].e.children = d[q].e.children \ cut(q)
  <2>1. Good(d[q]) /\ Reclaimed(d[q]) /\ kids[q] = d[q].e.children
    BY WholeDbRecords DEF Tidy
  <2>2. kids[q] \in SUBSET Name
    BY <2>1, Types DEF Entry
  <2>3. CASE q \in S
    <3> DEFINE r == RemoveChildren(d[q], kids[q])
    <3>1. Good(r) /\ r.e.children = {}
      BY <2>1, <2>2, RemoveChildrenGood
    <3> HIDE DEF r
    <3>2. f[q] = MarkDeleted(r)
      BY <2>3 DEF DeleteBranch, r
    <3> QED
      BY <2>3, <3>1, <3>2, MarkDeletedEntry
  <2>4. CASE q \notin S /\ p # <<>> /\ q = Parent(p)
    <3> DEFINE r == RemoveChildren(d[q], {Base(p)})
    <3>1. /\ r.te = d[q].te /\ r.e.children = d[q].e.children \ {Base(p)}
          /\ r.e.write_seq = d[q].e.write_seq /\ r.e.delete_seq = d[q].e.delete_seq
      <4>1. {Base(p)} \in SUBSET Name
        BY <2>4, Splits
      <4> QED
        BY <2>1, <4>1, RemoveChildrenEntry
    <3> HIDE DEF r
    <3>2. f[q] = r
      BY <2>4 DEF DeleteBranch, r
    <3>3. Reclaimed(r) /\ (IsValid(r.e) <=> IsValid(d[q].e))
      BY <2>1, <3>1 DEF Reclaimed, Apart, Untouched, Touched, IsValid
    <3> QED
      BY <2>4, <3>1, <3>2, <3>3
  <2>5. CASE q \notin S /\ ~(p # <<>> /\ q = Parent(p))
    BY <2>1, <2>5 DEF DeleteBranch
  <2> QED
    BY <2>3, <2>4, <2>5
<1>2. p \in S
  BY SubtreeRoot
<1>3. \A r \in Path \ {<<>>} : r # p =>
         (r \in S <=> Parent(r) \in S /\ Base(r) \in d[Parent(r)].e.children)
  <2>1. ASSUME NEW r \in Path \ {<<>>}, r # p
        PROVE  r \in S <=> Parent(r) \in S /\ Base(r) \in d[Parent(r)].e.children
    <3>1. Parent(r) \in Path
      BY Splits
    <3>2. kids[Parent(r)] = d[Parent(r)].e.children
      BY <3>1
    <3> HIDE DEF kids
    <3> QED
      BY <2>1, <3>2, SubtreeStep
  <2> QED
    BY <2>1
<1>4. \A r \in Path \ {<<>>} :
         /\ Parent(r) \in Path
         /\ Base(r) \in cut(Parent(r)) <=> r = p
  <2>1. ASSUME NEW r \in Path \ {<<>>}, Base(r) \in cut(Parent(r))
        PROVE  r = p
    <3>1. p # <<>> /\ Parent(r) = Parent(p) /\ Base(r) = Base(p)
      BY <2>1
    <3> QED
      BY <3>1, Splits
  <2> QED
    BY <2>1, Splits
<1> HIDE DEF f, S, cut
<1>5. Tidy(f)
  BY <1>1 DEF Tidy
<1>6. ASSUME NEW q \in Path
      PROVE  InUse(q, f[q].e.children)
  BY <1>1 DEF Listed, InUse
<1>7. ASSUME NEW r \in Path \ {<<>>}, Base(r) \in f[Parent(r)].e.children
      PROVE  IsValid(f[r].e)
  <2>1. Parent(r) \in Path /\ Parent(r) \notin S
    BY <1>1, <1>4, <1>7
  <2>2. Base(r) \in d[Parent(r)].e.children /\ r # p
    BY <1>1, <1>4, <1>7, <2>1
  <2>3. r \notin S /\ IsValid(d[r].e)
    BY <1>3, <2>1, <2>2 DEF Listed
  <2> QED
    BY <1>1, <2>3
<1>8. ASSUME NEW lost, Hung(d, lost), NEW r \in Path \ ({<<>>} \cup lost), IsValid(f[r].e)
      PROVE  IsValid(f[Parent(r)].e) /\ Base(r) \in f[Parent(r)].e.children
  <2>1. r \notin S /\ IsValid(d[r].e) /\ r # p
    BY <1>1, <1>2, <1>8
  <2>2. IsValid(d[Parent(r)].e) /\ Base(r) \in d[Parent(r)].e.children
    BY <1>8, <2>1 DEF Hung
  <2>3. Parent(r) \notin S
    BY <1>3, <2>1, <2>2
  <2> QED
    BY <1>1, <1>4, <2>1, <2>2, <2>3
<1>9. Listed(f) /\ StaysHung(d, f)
  BY <1>6, <1>7, <1>8 DEF Listed, StaysHung, Hung
<1> QED
  BY <1>5, <1>9 DEF f

-----------------------------------------------------------------------------
(* What each kind of step does to the tree.                                *)

LEMMA SameCopies ==
    ASSUME NEW d, NEW f, NEW t, Shape(d, t), \A q \in Path : f[q].te[t] = d[q].te[t]
    PROVE  Shape(f, t)
  BY KeptShape, KeptReflexive

LEMMA SimpleTree ==
    ASSUME WholeDb(db), Tidy(db), Listed(db), SimpleNext
    PROVE  /\ Listed(db') /\ Tidy(db') /\ StaysHung(db, db')
           /\ \A t \in Tid : Shape(db, t) => Shape(db', t)
<1>1. PICK p \in Path :
         \/ SimpleCreate(p)
         \/ \E c \in Cid :
               \/ \E v \in Value : SimpleUpdate(c, p, v)
               \/ SimpleDel(c, p)
               \/ \E perms \in PermLists : SimpleSetPerms(c, p, perms)
  BY DEF SimpleNext
<1> DEFINE Done == Listed(db') /\ Tidy(db') /\ StaysHung(db, db')
<1>2. Good(db[p]) /\ db[p].e.perms \in PermList /\ db[p].e.value \in Value
  BY WholeDbRecords DEF Entry
<1>3. ASSUME NEW v \in Value, NEW pl \in PermList, IsValid(db[p].e),
             db' = [db EXCEPT ![p] = WriteEntry(@, v, pl)]
      PROVE  Done
  <2> DEFINE w == WriteEntry(db[p], v, pl)
  <2>1. Good(w) /\ IsValid(w.e) /\ w.e.children = db[p].e.children
    BY <1>2, WriteEntryGood
  <2>2. \A q \in Path : db'[q] = IF q = p THEN w ELSE db[q]
    BY <1>3, UpdateAt
  <2> HIDE DEF w
  <2>3. Tidy(db')
    BY <2>1, <2>2, ValidReclaimed DEF Tidy
  <2>4. \A q \in Path : SameEntry(db[q].e, db'[q].e)
    BY <1>3, <2>1, <2>2 DEF SameEntry
  <2> QED
    BY <2>3, <2>4, SameTree
<1>4. ASSUME SimpleCreate(p)
      PROVE  Done
  BY <1>4, Constants, CreateBranchTree DEF SimpleCreate
<1>5. ASSUME NEW c \in Cid, NEW v \in Value, SimpleUpdate(c, p, v)
      PROVE  Done
  <2>1. \/ /\ IsValid(db[p].e)
           /\ db' = [db EXCEPT ![p] = WriteEntry(@, v, db[p].e.perms)]
        \/ db' = CreateBranch(db, p, v)
    BY <1>5 DEF SimpleUpdate
  <2> QED
    BY <1>2, <1>3, <2>1, CreateBranchTree
<1>6. ASSUME NEW c \in Cid, SimpleDel(c, p)
      PROVE  Done
  BY <1>6, DeleteBranchTree DEF SimpleDel
<1>7. ASSUME NEW c \in Cid, NEW perms \in PermLists, SimpleSetPerms(c, p, perms)
      PROVE  Done
  <2>1. /\ IsValid(db[p].e) /\ perms \in PermList
        /\ db' = [db EXCEPT ![p] = WriteEntry(@, db[p].e.value, perms)]
    BY <1>7, Constants DEF SimpleSetPerms
  <2> QED
    BY <1>2, <1>3, <2>1
<1>8. ASSUME NEW t \in Tid, Shape(db, t)
      PROVE  Shape(db', t)
  <2>1. \A q \in Path : db'[q].te[t] = db[q].te[t]
    BY SimpleDirect DEF Direct, Outside
  <2> QED
    BY <1>8, <2>1, SameCopies
<1> QED
  BY <1>1, <1>4, <1>5, <1>6, <1>7, <1>8

LEMMA TransTree ==
    ASSUME WholeDb(db), Tidy(db), Listed(db), NEW u \in Tid, TransNext(u)
    PROVE  /\ Listed(db') /\ Tidy(db') /\ StaysHung(db, db')
           /\ \A t \in Tid : Shape(db, t) => Shape(db', t)
<1>1. \A q \in Path : db'[q] = db[q] \/ Own(db[q], db'[q], u)
  BY TransWithin DEF Within, OwnAt
<1>2. \A q \in Path : db'[q].e = db[q].e
  BY <1>1 DEF Own
<1>3. Listed(db') /\ StaysHung(db, db')
  BY <1>2, SameTree DEF SameEntry
<1>4. ASSUME NEW q \in Path
      PROVE  Reclaimed(db'[q])
  <2>1. Reclaimed(db[q])
    BY DEF Tidy
  <2>2. CASE Own(db[q], db'[q], u)
    <3>1. ~Untouched(db'[q])
      BY <2>2 DEF Own, OwnCopy, Untouched, Touched
    <3> QED
      BY <1>2, <2>1, <3>1 DEF Reclaimed, Apart
  <2> QED
    BY <1>1, <2>1, <2>2
<1>5. ASSUME NEW t \in Tid, Shape(db, t)
      PROVE  Shape(db', t)
  <2>1. CASE t = u
    BY <1>5, <2>1, TransShape
  <2>2. CASE t # u
    <3>1. \A q \in Path : db'[q].te[t] = db[q].te[t]
      BY <1>1, <2>2 DEF Own
    <3> QED
      BY <1>5, <3>1, SameCopies
  <2> QED
    BY <2>1, <2>2
<1> QED
  BY <1>3, <1>4, <1>5 DEF Tidy

(* The end of a transaction leaves it without copies, and the others alone.*)
LEMMA EndShape ==
    ASSUME NEW u \in Tid, EndOf(u), NEW t \in Tid, Shape(db, t)
    PROVE  Shape(db', t)
<1>1. CASE t = u
  <2>1. \A q \in Path : db'[q].te[t] = NoTentry
    BY <1>1 DEF EndOf, Ended
  <2>2. \A p \in Path \ {<<>>} : Parent(p) \in Path
    BY Splits
  <2> QED
    BY <2>1, <2>2, NoCopyStatus DEF Shape, InUse, CopyJoins
<1>2. CASE t # u
  <2>1. \A q \in Path : db'[q].te[t] = db[q].te[t]
    BY <1>2 DEF EndOf, Ended
  <2> QED
    BY <2>1, SameCopies
<1> QED
  BY <1>1, <1>2

LEMMA AbortTree ==
    ASSUME WholeDb(db), Tidy(db), Listed(db), NEW u \in Tid, Aborts(u)
    PROVE  /\ Listed(db') /\ Tidy(db') /\ StaysHung(db, db')
           /\ \A t \in Tid : Shape(db, t) => Shape(db', t)
<1>1. \A q \in Path : db'[q] = IF Touched(db[q], u) THEN AbortRec(db[q], u) ELSE db[q]
  BY AbortEnds
<1>2. ASSUME NEW q \in Path
      PROVE  SameEntry(db[q].e, db'[q].e) /\ Reclaimed(db'[q])
  <2>1. Whole(db[q]) /\ Reclaimed(db[q])
    BY WholeDbRecords DEF Tidy
  <2> QED
    BY <1>1, <2>1, AbortRecEntry DEF SameEntry
<1>3. Listed(db') /\ StaysHung(db, db')
  BY <1>2, SameTree
<1> QED
  BY <1>2, <1>3, AbortEnds, EndShape DEF Tidy

LEMMA MergeTree ==
    ASSUME WholeDb(db), Tidy(db), Listed(db), NEW u \in Tid, Shape(db, u),
           Merge(u), CanMerge(u)
    PROVE  /\ Listed(db') /\ Tidy(db')
           /\ \A lost : Hung(db, lost) => Hung(db', lost \cup DeletedBy(u))
           /\ \A t \in Tid : Shape(db, t) => Shape(db', t)
<1>1. ASSUME NEW q \in Path
      PROVE  LET te == db[q].te[u]
                 w == db'[q]
             IN  /\ IsValid(w.e) <=> IsValid(db[q].e) \/ WroteData(te)
                 /\ IsValid(te) => IsValid(w.e)
                 /\ w.e.children =
                      IF WroteChildren(te)
                      THEN (db[q].e.children \cup te.children_add) \ te.children_rem
                      ELSE db[q].e.children
                 /\ Reclaimed(w)
                 /\ WroteData(te) /\ ~IsValid(db[q].e) => Created(te)
                 /\ Deleted(te) => q \in DeletedBy(u)
  <2>1. /\ Whole(db[q]) /\ Good(db[q]) /\ Reclaimed(db[q])
        /\ db'[q] = IF Touched(db[q], u) THEN MergeRec(db[q], u) ELSE db[q]
    BY WholeDbRecords, MergeEnds DEF Tidy
  <2>2. CASE Touched(db[q], u)
    <3>1. CanMergeRec(db[q], u) /\ q \in Records(u)
      BY <2>2 DEF CanMerge, Records
    <3>2. CopyCurrent(db[q], u)
      BY <2>1, <2>2, <3>1 DEF Good, RecordSound, CopySound
    <3>3. WroteData(db[q].te[u]) /\ ~IsValid(db[q].e) => Created(db[q].te[u])
      BY <3>2 DEF CopyCurrent, Created, WroteData
    <3>4. Deleted(db[q].te[u]) => q \in DeletedBy(u)
      BY <3>1 DEF DeletedBy
    <3>5. db'[q] = MergeRec(db[q], u)
      BY <2>1, <2>2
    <3> QED
      BY <2>1, <2>2, <3>1, <3>3, <3>4, <3>5, MergeRecEntry
  <2>3. CASE ~Touched(db[q], u)
    <3>1. db[q].te[u] = NoTentry
      BY <2>1, <2>3 DEF Whole, Clean
    <3>2. db'[q] = db[q] /\ ~WroteChildren(NoTentry)
      BY <2>1, <2>3, NoCopyStatus DEF WroteChildren
    <3> QED
      BY <2>1, <3>1, <3>2, NoCopyStatus
  <2> QED
    BY <2>2, <2>3
<1>2. Tidy(db')
  BY <1>1 DEF Tidy
<1>3. ASSUME NEW q \in Path
      PROVE  InUse(q, db'[q].e.children)
  <2>1. \A c \in db'[q].e.children :
           c \in db[q].e.children \/ c \in db[q].te[u].children_add
    BY <1>1
  <2> QED
    BY <2>1 DEF Listed, Shape, InUse
<1>4. ASSUME NEW r \in Path \ {<<>>}
      PROVE  /\ Parent(r) \in Path
             /\ CopyJoins(db[r].te[u], db[Parent(r)].te[u], Base(r))
  BY Splits DEF Shape
<1>5. ASSUME NEW r \in Path \ {<<>>}, Base(r) \in db'[Parent(r)].e.children
      PROVE  IsValid(db'[r].e)
  <2>1. CASE Base(r) \in db[Parent(r)].e.children
    BY <1>1, <2>1 DEF Listed
  <2>2. CASE Base(r) \in db[Parent(r)].te[u].children_add
    <3>1. WroteData(db[r].te[u])
      BY <1>4, <2>2 DEF CopyJoins
    <3> QED
      BY <1>1, <3>1
  <2> QED
    BY <1>1, <1>4, <1>5, <2>1, <2>2
<1>6. ASSUME NEW lost, Hung(db, lost),
             NEW r \in Path \ ({<<>>} \cup (lost \cup DeletedBy(u))), IsValid(db'[r].e)
      PROVE  IsValid(db'[Parent(r)].e) /\ Base(r) \in db'[Parent(r)].e.children
  <2> DEFINE x == db[r].te[u]
             y == db[Parent(r)].te[u]
  <2>1. CopyJoins(x, y, Base(r)) /\ ~Deleted(x)
    BY <1>1, <1>4
  <2>2. Base(r) \notin y.children_rem
    BY <2>1 DEF CopyJoins
  <2>3. CASE IsValid(db[r].e)
    <3>1. IsValid(db[Parent(r)].e) /\ Base(r) \in db[Parent(r)].e.children
      BY <1>6, <2>3 DEF Hung
    <3> QED
      BY <1>1, <1>4, <2>2, <3>1
  <2>4. CASE ~IsValid(db[r].e)
    <3>1. Created(x)
      BY <1>1, <1>6, <2>4
    <3>2. IsValid(y) /\ Base(r) \in y.children_add
      BY <2>1, <3>1 DEF CopyJoins
    <3>3. WroteChildren(y)
      BY <3>2 DEF WroteChildren
    <3> QED
      BY <1>1, <1>4, <2>2, <3>2, <3>3
  <2> QED
    BY <2>3, <2>4
<1>7. Listed(db')
  BY <1>3, <1>5 DEF Listed
<1>8. \A lost : Hung(db, lost) => Hung(db', lost \cup DeletedBy(u))
  BY <1>6 DEF Hung
<1> QED
  BY <1>2, <1>7, <1>8, MergeEnds, EndShape

-----------------------------------------------------------------------------
(* The invariant.                                                          *)

TreeInv ==
    /\ StepInv /\ Listed(db) /\ Tidy(db)
    /\ \A t \in Tid : Shape(db, t)

LEMMA InitTreeInv == Init => TreeInv /\ Hung(db, {})
<1> SUFFICES ASSUME Init
             PROVE  TreeInv /\ Hung(db, {})
  OBVIOUS
<1> DEFINE root == WriteEntry(NewRecord, EmptyValue, DefaultPerms)
<1>1. /\ Good(root) /\ IsValid(root.e) /\ root.e.children = {}
      /\ root.te = NewRecord.te
  BY NewRecordGood, NewRecordReclaimed, Constants, WriteEntryGood
<1>2. \A q \in Path : db[q] = IF q = <<>> THEN root ELSE NewRecord
  BY DEF Init
<1> HIDE DEF root
<1>3. /\ \A q \in Path : db[q].e.children = {} /\ Reclaimed(db[q])
      /\ \A q \in Path, t \in Tid : db[q].te[t] = NoTentry
      /\ \A q \in Path : IsValid(db[q].e) => q = <<>>
  BY <1>1, <1>2, NewRecordReclaimed, ValidReclaimed, NoCopy
<1>4. \A q \in Path \ {<<>>} : Parent(q) \in Path
  BY Splits
<1>5. Listed(db) /\ Tidy(db) /\ Hung(db, {})
  BY <1>3, <1>4 DEF Listed, InUse, Tidy, Hung
<1>6. \A t \in Tid : Shape(db, t)
  BY <1>3, <1>4, NoCopyStatus DEF Shape, InUse, CopyJoins
<1> QED
  BY <1>5, <1>6, InitStepInv DEF TreeInv

(* One step, of either specification.                                      *)
LEMMA TreeKinds ==
    ASSUME TreeInv, [Next]_vars
    PROVE  /\ Listed(db') /\ Tidy(db')
           /\ \A t \in Tid : Shape(db', t)
           /\ \/ StaysHung(db, db')
              \/ \E t \in trans : Merge(t) /\ CanMerge(t)
<1>1. /\ WholeDb(db) /\ trans \subseteq Tid /\ Listed(db) /\ Tidy(db)
      /\ \A t \in Tid : Shape(db, t)
  BY StepInvDb DEF TreeInv
<1>2. CASE SimpleNext
  BY <1>1, <1>2, SimpleTree
<1>3. CASE \E u \in trans : TransNext(u)
  BY <1>1, <1>3, TransTree
<1>4. CASE Branch \/ UNCHANGED vars
  BY <1>1, <1>4 DEF Branch, vars, StaysHung
<1>5. CASE \E u \in trans : Aborts(u)
  BY <1>1, <1>5, AbortTree
<1>6. CASE \E u \in trans : Merge(u) /\ CanMerge(u)
  BY <1>1, <1>6, MergeTree
<1> QED
  BY <1>2, <1>3, <1>4, <1>5, <1>6 DEF Next, StoreNext, Aborts

LEMMA NextTreeInv == TreeInv /\ [Next]_vars => TreeInv'
<1>1. TreeInv /\ [Next]_vars => StepInv'
  BY NextStepInv DEF TreeInv
<1> QED
  BY <1>1, TreeKinds DEF TreeInv

THEOREM SpecTreeInv == Spec => []TreeInv
  BY InitTreeInv, NextTreeInv, PTL DEF Spec

(* The loop of delete_branch comes to an end: whatever is listed exists,   *)
(* so that its del takes it off the list (simple_access.cc:318).           *)
THEOREM ListedExist == Spec => []ListedChildrenExist
<1>1. TreeInv => ListedChildrenExist
  <2> SUFFICES ASSUME TreeInv, NEW q \in Path, NEW c \in db[q].e.children
               PROVE  Append(q, c) \in Path /\ IsValid(db[Append(q, c)].e)
    BY DEF ListedChildrenExist
  <2>1. Append(q, c) \in Path
    BY DEF TreeInv, Listed, InUse
  <2>2. c \in Name
    BY StepInvDb, WholeDbRecords DEF TreeInv, Entry
  <2>3. /\ Append(q, c) \in Path \ {<<>>}
        /\ Parent(Append(q, c)) = q /\ Base(Append(q, c)) = c
    BY <2>1, <2>2, Joins
  <2> QED
    BY <2>1, <2>3 DEF TreeInv, Listed
<1> QED
  BY <1>1, SpecTreeInv, PTL

(* What the guard of SimpleDel adds to the code's conditions always holds: *)
(* del reaches nothing but valid entries, and returns.                     *)
DelReturns ==
    \A p \in Path : IsValid(db[p].e) =>
        \A q \in Subtree([s \in Path |-> db[s].e.children], p) : IsValid(db[q].e)

THEOREM EveryDelReturns == Spec => []DelReturns
<1>1. TreeInv => DelReturns
  <2> DEFINE kids == [s \in Path |-> db[s].e.children]
  <2> SUFFICES ASSUME TreeInv, NEW p \in Path, IsValid(db[p].e), NEW q \in Subtree(kids, p)
               PROVE  IsValid(db[q].e)
    BY DEF DelReturns
  <2>1. q \in Path /\ p \in Chain(q)
    BY DEF Subtree
  <2>2. CASE q = p
    BY <2>2
  <2>3. CASE q # p
    <3>1. q # <<>>
      BY <2>1, <2>3, ChainPaths, PathAssumption DEF Chain
    <3>2. Parent(q) \in Path
      BY <2>1, <3>1, Splits
    <3>3. kids[Parent(q)] = db[Parent(q)].e.children
      BY <3>2
    <3> HIDE DEF kids
    <3>4. Base(q) \in db[Parent(q)].e.children
      BY <2>1, <2>3, <3>1, <3>3, SubtreeStep
    <3> QED
      BY <2>1, <3>1, <3>4 DEF TreeInv, Listed
  <2> QED
    BY <2>2, <2>3
<1> QED
  BY <1>1, SpecTreeInv, PTL

(* A record that is marked deleted is one some transaction refers to: the  *)
(* last one to let go of it cleans it up (transaction.cc:256, 388).        *)
THEOREM DeletedReclaimed == Spec => []DeletedRecordsReclaimed
<1>1. TreeInv => DeletedRecordsReclaimed
  BY DEF TreeInv, Tidy, Reclaimed, DeletedRecordsReclaimed
<1> QED
  BY <1>1, SpecTreeInv, PTL

-----------------------------------------------------------------------------
(* The tree, with the entries that committed transactions deleted.         *)

LEMMA TreeStep == [TreeNext]_<<vars, undead>> => [Next]_vars
<1>1. TreeNext => Next
  BY DEF TreeNext, Next, StoreNext
<1> QED
  BY <1>1

(* The history variable restricts nothing.                                 *)
LEMMA TreeSpecSpec == TreeSpec => Spec
  BY TreeStep, PTL DEF TreeSpec, Spec

LEMMA GoneAnyway ==
    ASSUME NEW lost, Hung(db', lost)
    PROVE  Hung(db', StillValid(lost))
  BY DEF Hung, StillValid

(* Every valid entry hangs off a valid parent that lists it, back to the   *)
(* root, but for those that a committed transaction deleted and the merge  *)
(* left behind (simple_access.cc:268, 286, 332).                           *)
THEOREM TreeStaysConsistent == TreeSpec => []TreeConsistent
<1>1. Init /\ undead = {} => TreeInv /\ Hung(db, undead)
  BY InitTreeInv
<1>2. ASSUME TreeInv, Hung(db, undead), [TreeNext]_<<vars, undead>>
      PROVE  TreeInv' /\ Hung(db', undead')
  <2>1. TreeInv' /\ [Next]_vars
    BY <1>2, TreeStep, NextTreeInv
  <2>2. WholeDb(db) /\ trans \subseteq Tid
    BY <1>2, StepInvDb DEF TreeInv
  <2> SUFFICES Hung(db', undead')
    BY <2>1
  <2>3. ASSUME StaysHung(db, db'), undead' = undead \/ undead' = StillValid(undead)
        PROVE  Hung(db', undead')
    BY <1>2, <2>3, GoneAnyway DEF StaysHung
  <2>4. CASE SimpleNext /\ undead' = StillValid(undead)
    BY <1>2, <2>2, <2>3, <2>4, SimpleTree DEF TreeInv
  <2>5. CASE Branch /\ undead' = StillValid(undead)
    BY <2>3, <2>5 DEF Branch, StaysHung
  <2>6. ASSUME NEW u \in trans, TransNext(u), undead' = StillValid(undead)
        PROVE  Hung(db', undead')
    BY <1>2, <2>2, <2>3, <2>6, TransTree DEF TreeInv
  <2>7. ASSUME NEW u \in trans, Abort(u), undead' = StillValid(undead)
        PROVE  Hung(db', undead')
    BY <1>2, <2>2, <2>3, <2>7, AbortTree DEF TreeInv, Aborts
  <2>8. ASSUME NEW u \in trans, Merge(u), undead' = StillValid(undead \cup DeletedBy(u))
        PROVE  Hung(db', undead')
    <3>1. CASE CanMerge(u)
      <4>1. Hung(db', undead \cup DeletedBy(u))
        BY <1>2, <2>2, <2>8, <3>1, MergeTree DEF TreeInv
      <4> QED
        BY <2>8, <4>1, GoneAnyway
    <3>2. CASE ~CanMerge(u)
      <4>1. undead \cup DeletedBy(u) = undead
        BY <3>2 DEF DeletedBy
      <4> QED
        BY <1>2, <2>2, <2>3, <2>8, <3>2, <4>1, AbortTree DEF TreeInv, Aborts
    <3> QED
      BY <3>1, <3>2
  <2>9. CASE UNCHANGED <<vars, undead>>
    BY <2>3, <2>9 DEF vars, StaysHung
  <2> QED
    BY <1>2, <2>4, <2>5, <2>6, <2>7, <2>8, <2>9 DEF TreeNext
<1>3. Hung(db, undead) => TreeConsistent
  BY DEF Hung, TreeConsistent
<1>4. TreeInv /\ Hung(db, undead) /\ [TreeNext]_<<vars, undead>>
         => (TreeInv /\ Hung(db, undead))'
  BY <1>2
<1> QED
  BY <1>1, <1>3, <1>4, PTL DEF TreeSpec

=============================================================================
