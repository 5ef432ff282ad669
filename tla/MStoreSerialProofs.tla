------------------------- MODULE MStoreSerialProofs -------------------------
(***************************************************************************)
(* The store implements SerialStore, for any tree, values, permissions,    *)
(* clients and number of transactions.  A transaction's copies determine   *)
(* what the transaction makes of any tree that fits what they hold (Seen,  *)
(* Fits); the invariant says that every tree that fits is still one of its *)
(* worlds, as long as can_merge has no objection.                          *)
(***************************************************************************)
EXTENDS MStoreTreeProofs, MStoreSerial, WellFoundedInduction

-----------------------------------------------------------------------------
(* What a copy makes of a node, and which nodes it fits.                   *)

Node == [exists : BOOLEAN, value : Value, perms : PermList, children : SUBSET Name]

Tree == {c \in [Path -> Node] : \A p \in Path : c[p].exists \/ c[p] = Absent}

(* The node clients outside transactions find in an entry.                 *)
NodeOf(e) ==
    IF IsValid(e) THEN [exists |-> TRUE, value |-> e.value, perms |-> e.perms,
                        children |-> e.children]
                  ELSE Absent

(* The node a transaction would find, had it started from node n.          *)
Seen(te, n) ==
    IF te.init_seq = 0 THEN n
    ELSE IF ~IsValid(te) THEN Absent
    ELSE [exists |-> TRUE,
          value |-> IF Pristine(te) THEN n.value ELSE te.value,
          perms |-> IF Pristine(te) THEN n.perms ELSE te.perms,
          children |-> (n.children \cup te.children_add) \ te.children_rem]

(* Node n is, in everything the copy relies on, like node m.               *)
Alike(te, n, m) ==
    te.init_seq # 0 =>
        /\ n.exists = m.exists
        /\ te.read_seq # 0 => n.value = m.value /\ n.perms = m.perms
        /\ te.read_children_seq # 0 => n.children = m.children

Fits(r, t, n) == /\ n \in Node /\ (n.exists \/ n = Absent)
                 /\ Alike(r.te[t], n, NodeOf(r.e))

(* An entry that does not exist in the transaction lists no children in it *)
(* and, if it did exist, had them read when it was deleted.                *)
Emptied(te) ==
    te.init_seq # 0 /\ ~IsValid(te) =>
        /\ CurrentChildren(te) = {}
        /\ te.init_valid => te.read_children_seq # 0

Sound(r, t) ==
    /\ Whole(r) /\ Emptied(r.te[t])
    /\ Touched(r, t) => CanMergeRec(r, t)

(* The fields of nodes.                                                    *)
LEMMA Nodes ==
    /\ \A n, m \in Node : n = m <=> /\ n.exists = m.exists /\ n.value = m.value
                                    /\ n.perms = m.perms /\ n.children = m.children
    /\ Absent \in Node /\ ~Absent.exists /\ Absent.children = {}
<1>1. Absent \in Node /\ ~Absent.exists /\ Absent.children = {}
  BY Constants DEF Absent, Node
<1>2. ASSUME NEW n \in Node, NEW m \in Node
      PROVE  n = m <=> /\ n.exists = m.exists /\ n.value = m.value
                       /\ n.perms = m.perms /\ n.children = m.children
  BY DEF Node
<1> QED
  BY <1>1, <1>2

(* A node with another list of children.                                   *)
(* Node n with another list of children.                                   *)
Listing(n, ks) ==
    [exists |-> n.exists, value |-> n.value, perms |-> n.perms, children |-> ks]

LEMMA ListingNode ==
    /\ \A n \in Node : /\ Listing(n, n.children) = n
                       /\ \A ks \in SUBSET Name : /\ [n EXCEPT !.children = ks] = Listing(n, ks)
                                                  /\ Listing(n, ks) \in Node
    /\ \A cs : Listing(Absent, Absent.children \ cs) = Absent
<1>1. ASSUME NEW n \in Node, NEW ks \in SUBSET Name
      PROVE  [n EXCEPT !.children = ks] = Listing(n, ks) /\ Listing(n, ks) \in Node
  BY DEF Node, Listing
<1>2. ASSUME NEW n \in Node
      PROVE  Listing(n, n.children) = n
  BY DEF Node, Listing
<1>3. ASSUME NEW cs
      PROVE  Listing(Absent, Absent.children \ cs) = Absent
  <2>1. Absent.children \ cs = {}
    BY Nodes
  <2>2. Listing(Absent, {}) = Absent
    BY DEF Listing, Absent
  <2> QED
    BY <2>1, <2>2
<1> QED
  BY <1>1, <1>2, <1>3

(* What a copy that can_merge does not object to says of its entry, and of *)
(* a node that fits.                                                       *)
LEMMA SoundCopy ==
    ASSUME NEW t \in Tid, NEW r, Sound(r, t), Touched(r, t)
    PROVE  LET te == r.te[t]
           IN  /\ te \in Tentry /\ te.init_seq # 0
               /\ te.write_seq # te.init_seq
               /\ Pristine(te) => (IsValid(te) <=> te.init_valid)
               /\ te.read_children_seq = 0 => te.children = {}
               /\ te.init_valid <=> IsValid(r.e)
               /\ te.read_seq # 0 /\ Pristine(te) =>
                     te.value = r.e.value /\ te.perms = r.e.perms
               /\ te.read_children_seq # 0 => te.children = r.e.children
               /\ ~IsValid(r.e) => r.e.children = {}
               /\ NodeOf(r.e).children = r.e.children
<1>1. Good(r) /\ RecordSound(r) /\ r.te[t] \in Tentry
  BY Types DEF Sound, Whole, Good
<1>2. CopySound(r, t) /\ (~IsValid(r.e) => r.e.children = {})
  BY <1>1 DEF RecordSound
<1>3. CopyCurrent(r, t)
  BY <1>2 DEF CopySound, Sound
<1>4. NodeOf(r.e).children = r.e.children
  BY <1>2, Nodes DEF NodeOf
<1> QED
  BY <1>1, <1>2, <1>3, <1>4 DEF CopySound, CopyCurrent, Touched

LEMMA SeenNode ==
    ASSUME NEW t \in Tid, NEW r, Sound(r, t), NEW n, Fits(r, t, n)
    PROVE  /\ Seen(r.te[t], n) \in Node
           /\ Seen(r.te[t], n).exists \/ Seen(r.te[t], n) = Absent
<1> DEFINE te == r.te[t]
<1>1. te \in Tentry /\ n \in Node /\ (n.exists \/ n = Absent)
  BY Types DEF Sound, Whole, Fits
<1> HIDE DEF te
<1>2. CASE te.init_seq = 0
  BY <1>1, <1>2 DEF Seen, te
<1>3. CASE te.init_seq # 0 /\ ~IsValid(te)
  BY <1>3, Nodes DEF Seen, te
<1>4. CASE te.init_seq # 0 /\ IsValid(te)
  <2>1. Seen(te, n).exists /\ Seen(te, n) \in Node
    BY <1>1, <1>4 DEF Seen, Node, Tentry
  <2> QED
    BY <2>1 DEF te
<1> QED
  BY <1>2, <1>3, <1>4

(* What the copy holds is what it would show of any node that fits.        *)
LEMMA SeenHeld ==
    ASSUME NEW t \in Tid, NEW r, Sound(r, t), Touched(r, t), NEW n, Fits(r, t, n)
    PROVE  LET te == r.te[t]
               s == Seen(te, n)
           IN  /\ s.exists <=> IsValid(te)
               /\ te.read_seq # 0 /\ IsValid(te) => s.value = te.value /\ s.perms = te.perms
               /\ te.read_children_seq # 0 /\ IsValid(te) => s.children = CurrentChildren(te)
<1> DEFINE te == r.te[t]
           s == Seen(te, n)
<1>1. /\ te.init_seq # 0
      /\ Pristine(te) => (IsValid(te) <=> te.init_valid)
      /\ te.init_valid <=> IsValid(r.e)
      /\ te.read_seq # 0 /\ Pristine(te) =>
            te.value = r.e.value /\ te.perms = r.e.perms
      /\ te.read_children_seq # 0 => te.children = r.e.children
      /\ NodeOf(r.e).children = r.e.children
  BY SoundCopy
<1>2. Alike(te, n, NodeOf(r.e))
  BY DEF Fits
<1> HIDE DEF te
<1>3. s.exists <=> IsValid(te)
  BY <1>1, Nodes DEF Seen
<1>4. ASSUME te.read_seq # 0, IsValid(te)
      PROVE  s.value = te.value /\ s.perms = te.perms
  <2>1. CASE Pristine(te)
    <3>1. n.value = r.e.value /\ n.perms = r.e.perms
      BY <1>1, <1>2, <1>4, <2>1 DEF Alike, NodeOf
    <3> QED
      BY <1>1, <1>4, <2>1, <3>1 DEF Seen
  <2>2. CASE ~Pristine(te)
    BY <1>1, <1>4, <2>2 DEF Seen
  <2> QED
    BY <2>1, <2>2
<1>5. ASSUME te.read_children_seq # 0, IsValid(te)
      PROVE  s.children = CurrentChildren(te)
  BY <1>1, <1>2, <1>5 DEF Alike, Seen, CurrentChildren
<1> QED
  BY <1>3, <1>4, <1>5 DEF te

(* A node that fits after a step of the transaction fitted before it.      *)
LEMMA FitsBefore ==
    ASSUME NEW r, NEW w, NEW t \in Tid, Whole(r), OwnAt(r, w, t), NEW n, Fits(w, t, n)
    PROVE  Fits(r, t, n)
<1>1. CASE w = r
  BY <1>1
<1>2. CASE Own(r, w, t)
  <2>1. w.e = r.e /\ OwnCopy(r.te[t], w.te[t])
    BY <1>2 DEF Own
  <2>2. r.te[t].init_seq = 0 => r.te[t] = NoTentry
    BY DEF Whole, Clean, Touched
  <2> QED
    BY <2>1, <2>2, NoCopy DEF OwnCopy, Fits, Alike
<1> QED
  BY <1>1, <1>2 DEF OwnAt

-----------------------------------------------------------------------------
(* What each operation on a copy does to what a transaction sees.          *)

LEMMA SoundOwn ==
    ASSUME NEW t \in Tid, NEW r, Sound(r, t), NEW w, Whole(w), Own(r, w, t),
           Emptied(w.te[t])
    PROVE  Sound(w, t)
  BY DEF Sound, Own

LEMMA GetSees ==
    ASSUME NEW t \in Tid, NEW r, Sound(r, t)
    PROVE  LET w == GetTentry(r, t)
           IN  /\ Sound(w, t) /\ Touched(w, t) /\ Own(r, w, t)
               /\ \A n : Fits(w, t, n) => Seen(w.te[t], n) = Seen(r.te[t], n)
<1> DEFINE w == GetTentry(r, t)
           x == [NoTentry EXCEPT !.write_seq = r.e.write_seq, !.delete_seq = r.e.delete_seq,
                                 !.init_valid = IsValid(r.e), !.init_seq = r.next_seq]
<1>1. Whole(w) /\ Own(r, w, t) /\ Touched(w, t)
  BY GetTentryWhole DEF Sound
<1>2. CASE Touched(r, t)
  <2>1. w = r
    BY <1>2 DEF GetTentry
  <2> QED
    BY <1>1, <1>2, <2>1
<1>3. CASE ~Touched(r, t)
  <2>1. r \in Record /\ r.te[t] = NoTentry /\ r.te[t].init_seq = 0
    BY <1>3, Types DEF Sound, Whole, Clean, Touched
  <2>2. w.te[t] = x
    BY <1>3, <2>1 DEF GetTentry, Record
  <2>3. /\ x.init_seq = r.next_seq /\ x.init_valid = IsValid(r.e)
        /\ IsValid(x) <=> IsValid(r.e)
        /\ x.write_seq = r.e.write_seq /\ x.delete_seq = r.e.delete_seq
        /\ x.children = {} /\ x.children_add = {} /\ x.children_rem = {}
    BY DEF NoTentry, IsValid
  <2>4. Pristine(x) /\ x.init_seq # 0
    <3>1. r.e.write_seq < r.next_seq /\ r.e.delete_seq < r.next_seq /\ r.next_seq # 0
      BY Types DEF Sound, Whole
    <3> QED
      BY <2>3, <3>1 DEF Pristine
  <2>5. Emptied(x)
    BY <2>3 DEF Emptied, CurrentChildren
  <2> HIDE DEF x
  <2>6. ASSUME NEW n, Fits(w, t, n)
        PROVE  Seen(x, n) = n
    <3>1. n \in Node /\ (n.exists \/ n = Absent) /\ (n.exists <=> IsValid(r.e))
      <4>1. w.e = r.e
        BY <1>1 DEF Own
      <4> QED
        BY <2>2, <2>4, <2>6, <4>1, Nodes DEF Fits, Alike, NodeOf
    <3>2. CASE ~IsValid(x)
      BY <2>3, <2>4, <3>1, <3>2 DEF Seen
    <3>3. CASE IsValid(x)
      <4>1. n.exists = TRUE
        BY <2>3, <3>1, <3>3 DEF Node
      <4> QED
        BY <2>3, <2>4, <3>1, <3>3, <4>1 DEF Seen, Node
    <3> QED
      BY <3>2, <3>3
  <2>7. Sound(w, t)
    BY <1>1, <2>2, <2>5, SoundOwn
  <2> HIDE DEF w
  <2>8. \A n : Fits(w, t, n) => Seen(w.te[t], n) = Seen(r.te[t], n)
    BY <2>1, <2>2, <2>6 DEF Seen
  <2> QED
    BY <1>1, <2>7, <2>8 DEF w
<1> QED
  BY <1>2, <1>3

(* A change of the copy that leaves its numbers, what it wrote and its     *)
(* lists shows the same.                                                   *)
LEMMA SeenSame ==
    ASSUME NEW x, NEW y, NEW n, y.init_seq = x.init_seq,
           y.write_seq = x.write_seq, y.delete_seq = x.delete_seq,
           y.children_add = x.children_add, y.children_rem = x.children_rem,
           ~Pristine(x) => y.value = x.value /\ y.perms = x.perms
    PROVE  Seen(y, n) = Seen(x, n)
<1>1. (IsValid(y) <=> IsValid(x)) /\ (Pristine(y) <=> Pristine(x))
  BY DEF IsValid, Pristine
<1> QED
  BY <1>1 DEF Seen

LEMMA FetchDataSees ==
    ASSUME NEW t \in Tid, NEW r, Sound(r, t), Touched(r, t)
    PROVE  LET w == FetchData(r, t)
           IN  /\ Sound(w, t) /\ Touched(w, t) /\ Own(r, w, t)
               /\ w.te[t].read_seq # 0 /\ (IsValid(w.te[t]) <=> IsValid(r.te[t]))
               /\ w.te[t].read_children_seq = r.te[t].read_children_seq
               /\ \A n : Seen(w.te[t], n) = Seen(r.te[t], n)
<1> DEFINE te == r.te[t]
           copy == IF Pristine(te)
                   THEN [te EXCEPT !.value = r.e.value, !.perms = r.e.perms]
                   ELSE te
           x == [copy EXCEPT !.read_seq = r.next_seq]
           w == FetchData(r, t)
<1>1. Whole(w) /\ Touched(w, t) /\ Own(r, w, t)
  BY GetTentryWhole, FetchDataGood, FetchDataOwn, OwnClean DEF Sound, Whole, Own, OwnCopy, Touched
<1>2. te \in Tentry /\ r \in Record /\ r.next_seq # 0
  BY Types DEF Sound, Whole
<1>3. w.te[t] = IF te.read_seq # 0 THEN te ELSE x
  BY <1>2 DEF FetchData, Record
<1>4. /\ x.write_seq = te.write_seq /\ x.delete_seq = te.delete_seq
      /\ x.init_seq = te.init_seq /\ x.init_valid = te.init_valid
      /\ x.children_add = te.children_add /\ x.children_rem = te.children_rem
      /\ x.children = te.children /\ x.read_seq = r.next_seq
      /\ x.read_children_seq = te.read_children_seq
      /\ ~Pristine(te) => x.value = te.value /\ x.perms = te.perms
  BY <1>2 DEF Tentry
<1> HIDE DEF x, te, w
<1>5. \A n : Seen(x, n) = Seen(te, n)
  BY <1>4, SeenSame
<1>6. (IsValid(x) <=> IsValid(te)) /\ (Emptied(te) => Emptied(x))
  BY <1>4 DEF Emptied, IsValid, CurrentChildren
<1>7. Emptied(w.te[t])
  BY <1>3, <1>6 DEF Sound, te
<1>8. Sound(w, t)
  BY <1>1, <1>7, SoundOwn
<1> QED
  BY <1>1, <1>2, <1>3, <1>4, <1>5, <1>6, <1>8 DEF w, te

LEMMA FetchChildrenSees ==
    ASSUME NEW t \in Tid, NEW r, Sound(r, t), Touched(r, t)
    PROVE  LET w == FetchChildren(r, t)
               x == w.te[t]
           IN  /\ Sound(w, t) /\ Touched(w, t) /\ Own(r, w, t)
               /\ x.read_children_seq # 0 /\ x.read_seq = r.te[t].read_seq
               /\ IsValid(x) <=> IsValid(r.te[t])
               /\ x.value = r.te[t].value /\ x.perms = r.te[t].perms
               /\ \A n : Seen(x, n) = Seen(r.te[t], n)
<1> DEFINE te == r.te[t]
           copy == IF IsValid(r.e)
                   THEN [te EXCEPT !.children = te.children \cup r.e.children]
                   ELSE te
           x == [copy EXCEPT !.read_children_seq = r.next_seq]
           w == FetchChildren(r, t)
<1>1. Whole(w) /\ Touched(w, t) /\ Own(r, w, t)
  BY FetchChildrenGood, FetchChildrenOwn, OwnClean DEF Sound, Whole, Own, OwnCopy, Touched
<1>2. te \in Tentry /\ r \in Record /\ r.next_seq # 0
  BY Types DEF Sound, Whole
<1>3. w.te[t] = IF te.read_children_seq # 0 THEN te ELSE x
  BY <1>2 DEF FetchChildren, Record
<1>4. /\ x.write_seq = te.write_seq /\ x.delete_seq = te.delete_seq
      /\ x.init_seq = te.init_seq /\ x.init_valid = te.init_valid
      /\ x.children_add = te.children_add /\ x.children_rem = te.children_rem
      /\ ~IsValid(r.e) => x.children = te.children
      /\ x.read_children_seq = r.next_seq /\ x.read_seq = te.read_seq
      /\ x.value = te.value /\ x.perms = te.perms
  BY <1>2 DEF Tentry
<1>5. te.init_valid <=> IsValid(r.e)
  BY SoundCopy
<1> HIDE DEF x, te, w
<1>6. \A n : Seen(x, n) = Seen(te, n)
  BY <1>4, SeenSame
<1>7. IsValid(x) <=> IsValid(te)
  BY <1>4 DEF IsValid
<1>8. te.read_children_seq = 0 /\ Emptied(te) => Emptied(x)
  BY <1>2, <1>4, <1>5, <1>7 DEF Emptied, CurrentChildren
<1>9. Emptied(w.te[t])
  BY <1>3, <1>8 DEF Sound, te
<1>10. Sound(w, t)
  BY <1>1, <1>9, SoundOwn
<1> QED
  BY <1>1, <1>2, <1>3, <1>4, <1>6, <1>7, <1>10 DEF w, te

LEMMA WriteSees ==
    ASSUME NEW t \in Tid, NEW r, Sound(r, t), Touched(r, t),
           NEW v \in Value, NEW pl \in PermList
    PROVE  LET w == TWrite(r, t, v, pl)
           IN  /\ Sound(w, t) /\ Touched(w, t) /\ Own(r, w, t) /\ IsValid(w.te[t])
               /\ \A n : Fits(w, t, n) =>
                     Seen(w.te[t], n) = [exists |-> TRUE, value |-> v, perms |-> pl,
                                         children |-> Seen(r.te[t], n).children]
<1> DEFINE te == r.te[t]
           x == [te EXCEPT !.value = v, !.perms = pl, !.write_seq = r.next_seq]
           w == TWrite(r, t, v, pl)
<1>1. Whole(w) /\ Touched(w, t) /\ Own(r, w, t)
  BY TWriteGood, TWriteOwn, OwnClean DEF Sound, Whole, Own, OwnCopy, Touched
<1>2. /\ te \in Tentry /\ r \in Record /\ Below(te, r.next_seq)
      /\ te.init_seq < r.next_seq /\ te.init_seq # 0 /\ r.next_seq \in Nat
  BY Types DEF Sound, Whole, Clean, Touched
<1>3. w.te[t] = x
  BY <1>2 DEF TWrite, Record
<1>4. /\ x.write_seq = r.next_seq /\ x.delete_seq = te.delete_seq
      /\ x.init_seq = te.init_seq /\ x.value = v /\ x.perms = pl
      /\ x.children_add = te.children_add /\ x.children_rem = te.children_rem
  BY <1>2 DEF Tentry
<1>5. IsValid(x) /\ ~Pristine(x)
  BY <1>2, <1>4 DEF IsValid, Pristine, Below, Tentry
<1>6. /\ te.init_valid <=> IsValid(r.e)
      /\ te.read_children_seq # 0 => te.children = r.e.children
      /\ te.read_children_seq = 0 => te.children = {}
      /\ NodeOf(r.e).children = r.e.children
  BY SoundCopy
<1>7. Sound(w, t)
  <2>1. Emptied(w.te[t])
    BY <1>3, <1>5 DEF Emptied
  <2> QED
    BY <1>1, <2>1, SoundOwn
<1>8. Emptied(te) /\ Whole(r)
  BY DEF Sound
<1> HIDE DEF x, te, w
<1>9. ASSUME NEW n, Fits(w, t, n)
      PROVE  (n.children \cup te.children_add) \ te.children_rem = Seen(te, n).children
  <2>1. Fits(r, t, n)
    BY <1>1, <1>8, <1>9, FitsBefore DEF OwnAt
  <2>2. CASE IsValid(te)
    BY <1>2, <2>2 DEF Seen
  <2>3. CASE ~IsValid(te)
    <3>1. Seen(te, n).children = {}
      BY <1>2, <2>3, Nodes DEF Seen
    <3>2. n.children = te.children
      <4>1. CASE te.init_valid
        BY <1>2, <1>6, <1>8, <2>1, <2>3, <4>1 DEF Emptied, Fits, Alike, te
      <4>2. CASE ~te.init_valid
        <5>1. n = Absent
          BY <1>2, <1>6, <2>1, <4>2, Nodes DEF Fits, Alike, NodeOf, te
        <5>2. te.children = {}
          BY <1>6, <4>2, Nodes DEF NodeOf
        <5> QED
          BY <5>1, <5>2, Nodes
      <4> QED
        BY <4>1, <4>2
    <3> QED
      BY <1>2, <1>8, <2>3, <3>1, <3>2 DEF Emptied, CurrentChildren
  <2> QED
    BY <2>2, <2>3
<1>10. \A n : Fits(w, t, n) => Seen(x, n) = [exists |-> TRUE, value |-> v, perms |-> pl,
                                            children |-> Seen(te, n).children]
  BY <1>2, <1>4, <1>5, <1>9 DEF Seen
<1> QED
  BY <1>1, <1>3, <1>5, <1>7, <1>10 DEF w, te

LEMMA AddSees ==
    ASSUME NEW t \in Tid, NEW r, Sound(r, t), Touched(r, t), IsValid(r.te[t]), NEW c \in Name
    PROVE  LET w == TAddChild(r, t, c)
           IN  /\ Sound(w, t) /\ Touched(w, t) /\ Own(r, w, t) /\ IsValid(w.te[t])
               /\ \A n : Fits(w, t, n) =>
                     Seen(w.te[t], n) = Listing(Seen(r.te[t], n), Seen(r.te[t], n).children \cup {c})
<1> DEFINE te == r.te[t]
           x == [te EXCEPT !.children_add = te.children_add \cup {c},
                           !.children_rem = te.children_rem \ {c}]
           w == TAddChild(r, t, c)
<1>1. Whole(w) /\ Touched(w, t) /\ Own(r, w, t)
  BY TAddChildGood, TAddChildOwn, OwnClean DEF Sound, Whole, Own, OwnCopy, Touched
<1>2. te \in Tentry /\ r \in Record /\ te.init_seq # 0
  BY Types DEF Sound, Whole, Touched
<1>3. w.te[t] = x
  BY <1>2 DEF TAddChild, Record
<1>4. /\ x.write_seq = te.write_seq /\ x.delete_seq = te.delete_seq
      /\ x.init_seq = te.init_seq /\ x.value = te.value /\ x.perms = te.perms
      /\ x.children_add = te.children_add \cup {c}
      /\ x.children_rem = te.children_rem \ {c}
  BY <1>2 DEF Tentry
<1>5. IsValid(x) /\ IsValid(te) /\ (Pristine(x) <=> Pristine(te))
  BY <1>4 DEF IsValid, Pristine
<1>6. Sound(w, t)
  <2>1. Emptied(w.te[t])
    BY <1>3, <1>5 DEF Emptied
  <2> QED
    BY <1>1, <2>1, SoundOwn
<1> HIDE DEF x, te, w
<1>7. ASSUME NEW n
      PROVE  Seen(x, n) = Listing(Seen(te, n), Seen(te, n).children \cup {c})
  <2> DEFINE v == IF Pristine(te) THEN n.value ELSE te.value
             pl == IF Pristine(te) THEN n.perms ELSE te.perms
             a == (n.children \cup te.children_add) \ te.children_rem
  <2>1. (n.children \cup x.children_add) \ x.children_rem = a \cup {c}
    BY <1>4
  <2>2. /\ Seen(x, n) = [exists |-> TRUE, value |-> v, perms |-> pl, children |-> a \cup {c}]
        /\ Seen(te, n) = [exists |-> TRUE, value |-> v, perms |-> pl, children |-> a]
    BY <1>2, <1>4, <1>5, <2>1 DEF Seen
  <2> HIDE DEF v, pl, a
  <2>3. Seen(te, n).children = a
    BY <2>2
  <2> QED
    BY <2>2, <2>3 DEF Listing
<1> QED
  BY <1>1, <1>3, <1>5, <1>6, <1>7 DEF w, te

LEMMA RemoveSees ==
    ASSUME NEW t \in Tid, NEW r, Sound(r, t), Touched(r, t), NEW cs \in SUBSET Name
    PROVE  LET w == TRemoveChildren(r, t, cs)
               x == w.te[t]
           IN  /\ Sound(w, t) /\ Touched(w, t) /\ Own(r, w, t)
               /\ x.read_children_seq = r.te[t].read_children_seq
               /\ CurrentChildren(x) = CurrentChildren(r.te[t]) \ cs
               /\ IsValid(x) <=> IsValid(r.te[t])
               /\ \A n : Seen(x, n) = Listing(Seen(r.te[t], n), Seen(r.te[t], n).children \ cs)
<1> DEFINE te == r.te[t]
           x == [te EXCEPT !.children_rem = te.children_rem \cup cs,
                           !.children_add = te.children_add \ cs]
           w == TRemoveChildren(r, t, cs)
<1>1. Whole(w) /\ Touched(w, t) /\ Own(r, w, t)
  BY TRemoveChildrenGood, TRemoveChildrenOwn, OwnClean
     DEF Sound, Whole, Own, OwnCopy, Touched
<1>2. te \in Tentry /\ r \in Record /\ te.init_seq # 0
  BY Types DEF Sound, Whole, Touched
<1>3. w.te[t] = x
  BY <1>2 DEF TRemoveChildren, Record
<1>4. /\ x.write_seq = te.write_seq /\ x.delete_seq = te.delete_seq
      /\ x.init_seq = te.init_seq /\ x.value = te.value /\ x.perms = te.perms
      /\ x.init_valid = te.init_valid /\ x.children = te.children
      /\ x.read_children_seq = te.read_children_seq
      /\ x.children_add = te.children_add \ cs
      /\ x.children_rem = te.children_rem \cup cs
  BY <1>2 DEF Tentry
<1>5. (IsValid(x) <=> IsValid(te)) /\ (Pristine(x) <=> Pristine(te))
  BY <1>4 DEF IsValid, Pristine
<1>6. CurrentChildren(x) = CurrentChildren(te) \ cs
  <2> HIDE DEF x, te
  <2> QED
    BY <1>4 DEF CurrentChildren
<1> HIDE DEF x, te, w
<1>7. Sound(w, t)
  <2>1. Emptied(w.te[t])
    BY <1>3, <1>4, <1>5, <1>6 DEF Emptied, Sound, te
  <2> QED
    BY <1>1, <2>1, SoundOwn
<1>8. ASSUME NEW n
      PROVE  Seen(x, n) = Listing(Seen(te, n), Seen(te, n).children \ cs)
  <2> DEFINE v == IF Pristine(te) THEN n.value ELSE te.value
             pl == IF Pristine(te) THEN n.perms ELSE te.perms
             a == (n.children \cup te.children_add) \ te.children_rem
  <2>1. (n.children \cup x.children_add) \ x.children_rem = a \ cs
    BY <1>4
  <2>2. CASE IsValid(te)
    <3>1. /\ Seen(x, n) = [exists |-> TRUE, value |-> v, perms |-> pl, children |-> a \ cs]
          /\ Seen(te, n) = [exists |-> TRUE, value |-> v, perms |-> pl, children |-> a]
      BY <1>2, <1>4, <1>5, <2>1, <2>2 DEF Seen
    <3> HIDE DEF v, pl, a
    <3>2. Seen(te, n).children = a
      BY <3>1
    <3> QED
      BY <3>1, <3>2 DEF Listing
  <2>3. CASE ~IsValid(te)
    <3>1. Seen(x, n) = Absent /\ Seen(te, n) = Absent
      BY <1>2, <1>4, <1>5, <2>3 DEF Seen
    <3> QED
      BY <3>1, ListingNode
  <2> QED
    BY <2>2, <2>3
<1> QED
  BY <1>1, <1>3, <1>4, <1>5, <1>6, <1>7, <1>8 DEF w, te

LEMMA DeleteSees ==
    ASSUME NEW t \in Tid, NEW r, Sound(r, t), Touched(r, t),
           CurrentChildren(r.te[t]) = {}, r.te[t].read_children_seq # 0
    PROVE  LET w == TMarkDeleted(r, t)
           IN  /\ Sound(w, t) /\ Touched(w, t) /\ Own(r, w, t)
               /\ \A n : Seen(w.te[t], n) = Absent
<1> DEFINE te == r.te[t]
           x == [te EXCEPT !.delete_seq = r.next_seq]
           w == TMarkDeleted(r, t)
<1>1. Whole(w) /\ Touched(w, t) /\ Own(r, w, t)
  BY TMarkDeletedGood, TMarkDeletedOwn, OwnClean DEF Sound, Whole, Own, OwnCopy, Touched
<1>2. /\ te \in Tentry /\ r \in Record /\ te.init_seq # 0
      /\ Below(te, r.next_seq) /\ r.next_seq \in Nat /\ te.write_seq \in Nat
  BY Types DEF Sound, Whole, Clean, Touched
<1>3. w.te[t] = x
  BY <1>2 DEF TMarkDeleted, Record
<1>4. /\ x.write_seq = te.write_seq /\ x.delete_seq = r.next_seq
      /\ x.init_seq = te.init_seq /\ x.children = te.children
      /\ x.read_children_seq = te.read_children_seq
      /\ x.children_add = te.children_add /\ x.children_rem = te.children_rem
  BY <1>2 DEF Tentry
<1>5. ~IsValid(x)
  BY <1>2, <1>4 DEF IsValid, Below
<1>6. CurrentChildren(x) = {}
  BY <1>4 DEF CurrentChildren
<1> HIDE DEF x, te, w
<1>7. Emptied(x)
  BY <1>4, <1>6 DEF Emptied, te
<1>8. Sound(w, t)
  BY <1>1, <1>3, <1>7, SoundOwn
<1>9. \A n : Seen(x, n) = Absent
  BY <1>2, <1>4, <1>5 DEF Seen
<1> QED
  BY <1>1, <1>3, <1>8, <1>9 DEF w

-----------------------------------------------------------------------------
(* The branch that is missing is the same for all who agree about what the *)
(* operation visits.                                                       *)

LEMMA Least ==
    ASSUME NEW N \in SUBSET Nat, N # {}
    PROVE  \E m \in N : \A n \in N : m <= n
<1> DEFINE T == {0 .. n : n \in N}
<1>1. IsWellFoundedOn(StrictSubsetOrdering(Nat), FiniteSubsetsOf(Nat))
  BY FS_StrictSubsetOrderingWellFounded
<1>2. ASSUME NEW n \in N
      PROVE  0 .. n \in FiniteSubsetsOf(Nat)
  <2>1. IsFiniteSet(0 .. n)
    BY FS_Interval
  <2> QED
    BY <2>1 DEF FiniteSubsetsOf
<1>3. T # {}
  OBVIOUS
<1>4. PICK x \in T : \A y \in T : ~(<<y, x>> \in StrictSubsetOrdering(Nat))
  <2>1. T \subseteq FiniteSubsetsOf(Nat)
    BY <1>2
  <2> HIDE DEF T
  <2> QED
    BY <1>1, <1>3, <2>1, WFMin, Zenon
<1>5. PICK m \in N : x = 0 .. m
  OBVIOUS
<1>6. ASSUME NEW n \in N, n < m
      PROVE  FALSE
  <2>1. 0 .. n \in T
    OBVIOUS
  <2>2. 0 .. n \subseteq 0 .. m /\ 0 .. n # 0 .. m /\ 0 .. n \subseteq Nat /\ 0 .. m \subseteq Nat
    BY <1>6
  <2> QED
    BY <1>4, <1>5, <2>1, <2>2 DEF StrictSubsetOrdering
<1> QED
  BY <1>6

(* The longest path on the way to p that exists registers the branch.      *)
LEMMA Nearest ==
    ASSUME NEW V, NEW p \in Path, p \notin V, NEW q \in Chain(p), q \notin Missing(V, p)
    PROVE  \E r \in Registrars(V, p) : r \in V /\ r \in Chain(p) /\ Len(r) >= Len(q)
<1> DEFINE N == {n \in 0 .. Len(p) : \A m \in n .. Len(p) : SubSeq(p, 1, m) \notin V}
<1>1. p \in Seq(Name) /\ Len(p) \in Nat /\ SubSeq(p, 1, Len(p)) = p
  BY PathAssumption
<1>2. \A r \in Chain(p) : r \in Path /\ Len(r) \in 0 .. Len(p) /\ r = SubSeq(p, 1, Len(r))
  BY <1>1, ChainPaths
<1>3. \A n \in 0 .. Len(p) : SubSeq(p, 1, n) \in Chain(p) /\ Len(SubSeq(p, 1, n)) = n
  BY Beginnings
<1>4. \A n \in N : SubSeq(p, 1, n) \in Missing(V, p)
  <2> SUFFICES ASSUME NEW n \in N
               PROVE  SubSeq(p, 1, n) \in Missing(V, p)
    OBVIOUS
  <2>1. ASSUME NEW r \in Chain(p), Len(r) >= n
        PROVE  r \notin V
    <3>1. Len(r) \in n .. Len(p) /\ r = SubSeq(p, 1, Len(r))
      BY <1>1, <1>2, <2>1
    <3> QED
      BY <3>1
  <2> QED
    BY <1>3, <2>1 DEF Missing
<1>5. Len(p) \in N
  <2>1. \A k \in Nat : k \in 0 .. k /\ \A m \in k .. k : m = k
    OBVIOUS
  <2>2. Len(p) \in 0 .. Len(p) /\ \A m \in Len(p) .. Len(p) : SubSeq(p, 1, m) \notin V
    BY <1>1, <2>1, Zenon
  <2> QED
    BY <2>2
<1>6. PICK n \in N : \A m \in N : n <= m
  <2>1. N \in SUBSET Nat /\ N # {}
    BY <1>1, <1>5
  <2> HIDE DEF N
  <2> QED
    BY <2>1, Least
<1>7. Len(q) < n
  <2> SUFFICES ASSUME Len(q) >= n
               PROVE  FALSE
    BY <1>1, <1>2
  <2>1. Len(q) \in N /\ q = SubSeq(p, 1, Len(q))
    BY <1>1, <1>2
  <2> QED
    BY <1>4, <2>1
<1> DEFINE r == SubSeq(p, 1, n - 1)
<1>8. n - 1 \in 0 .. Len(p) /\ n \in 0 .. Len(p)
  BY <1>1, <1>2, <1>7
<1>9. r \in V
  <2> SUFFICES ASSUME r \notin V
               PROVE  n - 1 \in N
    BY <1>1, <1>6, <1>8
  <2>1. \A m \in n .. Len(p) : SubSeq(p, 1, m) \notin V
    OBVIOUS
  <2> QED
    BY <1>1, <1>8, <2>1
<1>10. r \in Chain(p) /\ Len(r) = n - 1
  BY <1>3, <1>8
<1>11. SubSeq(p, 1, n) \in Missing(V, p) /\ Len(SubSeq(p, 1, n)) = n
  BY <1>3, <1>4, <1>8
<1>12. r \in Registrars(V, p)
  <2>1. Len(SubSeq(p, 1, n)) = Len(r) + 1
    BY <1>1, <1>8, <1>10, <1>11
  <2> HIDE DEF r
  <2> QED
    BY <1>10, <1>11, <2>1 DEF Registrars
<1> HIDE DEF r
<1> QED
  BY <1>2, <1>7, <1>8, <1>9, <1>10, <1>12

LEMMA SameMissing ==
    ASSUME NEW V, NEW W, NEW p \in Path, p \notin V,
           \A q \in Missing(V, p) \cup Registrars(V, p) : q \in V <=> q \in W
    PROVE  Missing(W, p) = Missing(V, p) /\ Registrars(W, p) = Registrars(V, p)
<1>1. \A r \in Chain(p) : Len(r) \in Nat
  BY ChainPaths
<1>2. ASSUME NEW q \in Missing(V, p)
      PROVE  q \in Missing(W, p)
  <2>1. \A r \in Chain(p) : Len(r) >= Len(q) => r \in Missing(V, p) /\ r \notin V
    BY <1>1 DEF Missing
  <2> QED
    BY <2>1 DEF Missing
<1>3. ASSUME NEW q \in Missing(W, p), q \notin Missing(V, p)
      PROVE  FALSE
  <2>1. q \in Chain(p)
    BY DEF Missing
  <2>2. PICK r \in Registrars(V, p) : r \in V /\ r \in Chain(p) /\ Len(r) >= Len(q)
    BY <1>3, <2>1, Nearest
  <2> QED
    BY <2>2 DEF Missing
<1>4. Missing(W, p) = Missing(V, p)
  BY <1>2, <1>3
<1> QED
  BY <1>4 DEF Registrars

LEMMA SameInherited ==
    ASSUME NEW V, NEW W, NEW p, Missing(W, p) = Missing(V, p),
           Registrars(W, p) = Registrars(V, p), NEW f, NEW g,
           \A q \in Registrars(V, p) \ Missing(V, p) : f[q] = g[q]
    PROVE  InheritedPerms(V, p, f) = InheritedPerms(W, p, g)
<1> DEFINE nearest == Registrars(V, p) \ Missing(V, p)
<1>1. CASE nearest = {}
  BY <1>1 DEF InheritedPerms
<1>2. CASE nearest # {}
  <2> DEFINE q == CHOOSE x \in nearest : TRUE
  <2>1. q \in nearest
    BY <1>2
  <2>2. InheritedPerms(V, p, f) = f[q] /\ InheritedPerms(W, p, g) = g[q]
    BY <1>2 DEF InheritedPerms
  <2> HIDE DEF q
  <2> QED
    BY <2>1, <2>2
<1> QED
  BY <1>1, <1>2

-----------------------------------------------------------------------------
(* Creating a branch, of what clients see.                                 *)

(* What WithBranch makes of node n at q, where V are the paths that exist. *)
Branching(n, V, p, q, v, pl) ==
    LET m == IF q \in Missing(V, p) THEN Made(IF q = p THEN v ELSE EmptyValue, pl) ELSE n
    IN  IF q \in Registrars(V, p) THEN Listing(m, m.children \cup {Step(q, p)}) ELSE m

LEMMA WithBranchAt ==
    ASSUME NEW c \in Tree, NEW p \in Path, NEW v \in Value
    PROVE  LET pl == InheritedPerms(Existing(c), p, [q \in Path |-> c[q].perms])
           IN  /\ pl \in PermList
               /\ WithBranch(c, p, v)
                     = [q \in Path |-> Branching(c[q], Existing(c), p, q, v, pl)]
<1> DEFINE V == Existing(c)
           f == [q \in Path |-> c[q].perms]
           pl == InheritedPerms(V, p, f)
           m(q) == IF q \in Missing(V, p) THEN Made(IF q = p THEN v ELSE EmptyValue, pl)
                   ELSE c[q]
           new(q) == IF q \in Registrars(V, p)
                     THEN [m(q) EXCEPT !.children = @ \cup {Step(q, p)}] ELSE m(q)
<1>1. \A q \in Path : c[q] \in Node
  BY DEF Tree
<1>2. pl \in PermList
  <2>1. f \in [Path -> PermList]
    BY <1>1 DEF Node
  <2> HIDE DEF f
  <2> QED
    BY <2>1, InheritedPermsTyped
<1> HIDE DEF pl, V
<1>3. ASSUME NEW q \in Path
      PROVE  new(q) = Branching(c[q], V, p, q, v, pl)
  <2>1. m(q) \in Node
    BY <1>1, <1>2, Constants DEF Made, Node
  <2>2. m(q).children \in SUBSET Name
    BY <2>1 DEF Node
  <2>3. CASE q \in Registrars(V, p)
    <3>1. Step(q, p) \in Name
      BY <2>3, RegistrarsExist
    <3>2. m(q).children \cup {Step(q, p)} \in SUBSET Name
      BY <2>2, <3>1
    <3>3. new(q) = [m(q) EXCEPT !.children = m(q).children \cup {Step(q, p)}]
      BY <2>3
    <3>4. Branching(c[q], V, p, q, v, pl) = Listing(m(q), m(q).children \cup {Step(q, p)})
      BY <2>3 DEF Branching
    <3> HIDE DEF m, new
    <3> QED
      BY <2>1, <3>2, <3>3, <3>4, ListingNode
  <2>4. CASE q \notin Registrars(V, p)
    BY <2>4 DEF Branching
  <2> QED
    BY <2>3, <2>4
<1>4. WithBranch(c, p, v) = [q \in Path |-> new(q)]
  BY DEF WithBranch, pl, V
<1> HIDE DEF new
<1>5. WithBranch(c, p, v) = [q \in Path |-> Branching(c[q], V, p, q, v, pl)]
  BY <1>3, <1>4
<1> QED
  BY <1>2, <1>5 DEF pl, V

LEMMA FetchDataFits ==
    ASSUME NEW t \in Tid, NEW r, Sound(r, t), Touched(r, t), NEW n, Fits(r, t, n),
           n.value = NodeOf(r.e).value, n.perms = NodeOf(r.e).perms
    PROVE  Fits(FetchData(r, t), t, n)
<1> DEFINE w == FetchData(r, t)
<1>1. w.e = r.e /\ w.te[t].read_children_seq = r.te[t].read_children_seq
  BY FetchDataSees DEF Own
<1> HIDE DEF w
<1>2. Fits(w, t, n)
  BY <1>1 DEF Fits, Alike, Touched
<1> QED
  BY <1>2 DEF w

-----------------------------------------------------------------------------
(* Creating a branch inside a transaction.                                 *)

(* The same of all records.                                                *)
SoundDb(d, t) == WholeDb(d) /\ \A q \in Path : Sound(d[q], t)

FitsDb(d, t, c) == c \in Tree /\ \A q \in Path : Fits(d[q], t, c[q])

SeenDb(d, t, c) == [q \in Path |-> Seen(d[q].te[t], c[q])]

LEMMA SeenDbTree ==
    ASSUME NEW t \in Tid, NEW d, SoundDb(d, t), NEW c, FitsDb(d, t, c)
    PROVE  SeenDb(d, t, c) \in Tree
<1>1. \A q \in Path : LET s == Seen(d[q].te[t], c[q])
                      IN  s \in Node /\ (s.exists \/ s = Absent)
  BY SeenNode DEF SoundDb, FitsDb
<1> QED
  BY <1>1 DEF SeenDb, Tree

LEMMA FitsDbBefore ==
    ASSUME NEW t \in Tid, NEW d, WholeDb(d), NEW f, \A q \in Path : OwnAt(d[q], f[q], t),
           NEW c, FitsDb(f, t, c)
    PROVE  FitsDb(d, t, c)
<1>1. \A q \in Path : Whole(d[q])
  BY WholeDbRecords
<1> QED
  BY <1>1, FitsBefore DEF FitsDb

(* The permissions the branch inherits in the transaction.                 *)
(* What a branch to p inherits in transaction t.                           *)
TPerms(d, t, p) ==
    InheritedPerms(TValidPaths(d, t), p,
                   [s \in Path |-> FetchData(GetTentry(d[s], t), t).te[t].perms])

LEMMA TCreateAt ==
    ASSUME NEW d, NEW t \in Tid, SoundDb(d, t), NEW p \in Path, NEW v \in Value, NEW q \in Path
    PROVE  LET V == TValidPaths(d, t)
               pl == TPerms(d, t, p)
               new == TCreateBranch(d, t, p, v)[q]
               g == GetTentry(d[q], t)
           IN  /\ Sound(new, t)
               /\ \A n : Fits(new, t, n) =>
                     /\ Seen(new.te[t], n) = Branching(Seen(d[q].te[t], n), V, p, q, v, pl)
                     /\ q \in Missing(V, p) \cup Registrars(V, p) =>
                           (q \in V <=> Seen(d[q].te[t], n).exists)
                     /\ q \in Registrars(V, p) \ Missing(V, p) =>
                           FetchData(g, t).te[t].perms = Seen(d[q].te[t], n).perms
<1> DEFINE V == TValidPaths(d, t)
           fetched == [s \in Path |-> FetchData(GetTentry(d[s], t), t).te[t].perms]
           pl == TPerms(d, t, p)
           val == IF q = p THEN v ELSE EmptyValue
           r == d[q]
           g == GetTentry(r, t)
           w == IF q \in Missing(V, p) THEN TWrite(g, t, val, pl) ELSE g
           a == TAddChild(w, t, Step(q, p))
           new == IF q \in Registrars(V, p) THEN FetchData(a, t)
                  ELSE IF q \in Missing(V, p) THEN w ELSE r
           m(n) == IF q \in Missing(V, p) THEN Made(val, pl) ELSE Seen(r.te[t], n)
<1>1. pl \in PermList
  <2>1. ASSUME NEW s \in Path
        PROVE  FetchData(GetTentry(d[s], t), t).te[t].perms \in PermList
    <3>1. FetchData(GetTentry(d[s], t), t) \in Record
      BY WholeDbRecords, GetTentryGood, FetchDataGood DEF Good, SoundDb, Whole
    <3> QED
      BY <3>1 DEF Record, Tentry
  <2>2. fetched \in [Path -> PermList]
    BY <2>1
  <2> HIDE DEF fetched
  <2>3. InheritedPerms(V, p, fetched) \in PermList
    BY <2>2, InheritedPermsTyped
  <2> QED
    BY <2>3 DEF fetched, TPerms
<1>2. TCreateBranch(d, t, p, v)[q] = new
  BY DEF TCreateBranch, TPerms
<1>3. val \in Value
  BY Constants
<1> HIDE DEF pl, val
<1>4. /\ Sound(r, t) /\ Whole(r) /\ Sound(g, t) /\ Touched(g, t) /\ Own(r, g, t)
      /\ \A n : Fits(g, t, n) => Seen(g.te[t], n) = Seen(r.te[t], n)
      /\ q \in V <=> IsValid(g.te[t])
  BY GetSees DEF SoundDb, Sound, TValidPaths
<1> HIDE DEF g, V, r
<1>5. ASSUME NEW n, Fits(g, t, n)
      PROVE  q \in V <=> Seen(r.te[t], n).exists
  BY <1>4, <1>5, SeenHeld
<1>6. /\ Sound(w, t) /\ Touched(w, t) /\ Own(r, w, t) /\ (w = g \/ Own(g, w, t))
      /\ q \in V \/ q \in Missing(V, p) => IsValid(w.te[t])
      /\ \A n : Fits(w, t, n) => Fits(g, t, n) /\ Seen(w.te[t], n) = m(n)
  <2>1. CASE q \in Missing(V, p)
    <3> DEFINE x == TWrite(g, t, val, pl)
    <3>1. /\ Sound(x, t) /\ Touched(x, t) /\ Own(g, x, t) /\ IsValid(x.te[t])
          /\ \A n : Fits(x, t, n) =>
                Seen(x.te[t], n) = [exists |-> TRUE, value |-> val, perms |-> pl,
                                    children |-> Seen(g.te[t], n).children]
      BY <1>1, <1>3, <1>4, WriteSees
    <3>2. w = x /\ \A n : m(n) = Made(val, pl)
      BY <2>1
    <3> HIDE DEF x, w, m
    <3>3. ASSUME NEW n, Fits(x, t, n)
          PROVE  Fits(g, t, n) /\ Seen(x.te[t], n) = m(n)
      <4>1. Fits(g, t, n)
        BY <1>4, <3>1, <3>3, FitsBefore DEF OwnAt, Sound
      <4>2. Seen(g.te[t], n) = Absent
        BY <1>4, <1>5, <2>1, <4>1, MissingRegistered, SeenNode
      <4> QED
        BY <3>1, <3>2, <3>3, <4>1, <4>2, Nodes DEF Made
    <3>4. Own(r, x, t)
      BY <1>4, <3>1, OwnThen DEF Sound, Whole
    <3> QED
      BY <3>1, <3>2, <3>3, <3>4
  <2>2. CASE q \notin Missing(V, p)
    BY <1>4, <2>2
  <2> QED
    BY <2>1, <2>2
<1>7. CASE q \in Registrars(V, p)
  <2>1. Step(q, p) \in Name /\ (q \in Missing(V, p) \/ q \in V)
    BY <1>7, RegistrarsExist
  <2> DEFINE f == FetchData(a, t)
  <2> HIDE DEF w, m
  <2>2. /\ Sound(a, t) /\ Touched(a, t) /\ Own(w, a, t)
        /\ \A n : Fits(a, t, n) =>
              Seen(a.te[t], n) = Listing(Seen(w.te[t], n),
                                         Seen(w.te[t], n).children \cup {Step(q, p)})
    BY <1>6, <2>1, AddSees
  <2> HIDE DEF a
  <2>3. /\ Sound(f, t) /\ Touched(f, t) /\ Own(a, f, t) /\ f.te[t].read_seq # 0
        /\ \A n : Seen(f.te[t], n) = Seen(a.te[t], n)
    BY <2>2, FetchDataSees
  <2>4. new = f
    BY <1>7
  <2> HIDE DEF f, new
  <2>5. ASSUME NEW n, Fits(f, t, n)
        PROVE  /\ Fits(g, t, n)
               /\ Seen(f.te[t], n) = Branching(Seen(r.te[t], n), V, p, q, v, pl)
    <3>1. Fits(a, t, n)
      BY <2>2, <2>3, <2>5, FitsBefore DEF OwnAt, Sound
    <3>2. Fits(w, t, n)
      BY <1>6, <2>2, <3>1, FitsBefore DEF OwnAt, Sound
    <3>3. Fits(g, t, n) /\ Seen(w.te[t], n) = m(n)
      BY <1>6, <3>2
    <3>4. Branching(Seen(r.te[t], n), V, p, q, v, pl)
             = Listing(m(n), m(n).children \cup {Step(q, p)})
      BY <1>7 DEF Branching, m, val
    <3> QED
      BY <2>2, <2>3, <3>1, <3>3, <3>4
  <2>6. ASSUME NEW n, Fits(f, t, n), q \notin Missing(V, p)
        PROVE  FetchData(g, t).te[t].perms = Seen(r.te[t], n).perms
    <3>1. Fits(g, t, n)
      BY <2>5, <2>6
    <3>2. f.e = g.e
      BY <1>4, <1>6, <2>2, <2>3 DEF Own
    <3>3. n.value = NodeOf(g.e).value /\ n.perms = NodeOf(g.e).perms
      BY <2>3, <2>6, <3>2 DEF Fits, Alike, Touched
    <3> DEFINE h == FetchData(g, t)
    <3>4. Fits(h, t, n)
      BY <1>4, <3>1, <3>3, FetchDataFits
    <3>5. /\ Sound(h, t) /\ Touched(h, t) /\ h.te[t].read_seq # 0
          /\ IsValid(h.te[t]) <=> IsValid(g.te[t])
          /\ Seen(h.te[t], n) = Seen(g.te[t], n)
      BY <1>4, FetchDataSees
    <3> HIDE DEF h
    <3>6. IsValid(h.te[t])
      BY <1>4, <2>1, <2>6, <3>5
    <3>7. Seen(h.te[t], n).perms = h.te[t].perms
      BY <3>4, <3>5, <3>6, SeenHeld
    <3> QED
      BY <1>4, <3>1, <3>5, <3>7 DEF h
  <2> QED
    BY <1>2, <1>5, <2>3, <2>4, <2>5, <2>6 DEF r, g, V, pl
<1>8. CASE q \notin Registrars(V, p)
  <2>1. \A n : Branching(Seen(r.te[t], n), V, p, q, v, pl) = m(n)
    BY <1>8 DEF Branching, val
  <2>2. CASE q \in Missing(V, p)
    <3>1. new = w
      BY <1>8, <2>2
    <3> HIDE DEF new, w, m
    <3> QED
      BY <1>2, <1>5, <1>6, <1>8, <2>1, <3>1 DEF r, g, V, pl
  <2>3. CASE q \notin Missing(V, p)
    <3>1. new = r /\ \A n : m(n) = Seen(r.te[t], n)
      BY <1>8, <2>3
    <3> HIDE DEF new, w, m
    <3> QED
      BY <1>2, <1>4, <1>8, <2>1, <2>3, <3>1 DEF r, g, V, pl
  <2> QED
    BY <2>2, <2>3
<1> QED
  BY <1>7, <1>8

LEMMA SoundDbByRecord ==
    ASSUME NEW f, NEW t, f = [q \in Path |-> f[q]], \A q \in Path : Sound(f[q], t)
    PROVE  SoundDb(f, t)
<1>1. \A q \in Path : f[q] \in Record /\ RecordSound(f[q]) /\ Clean(f[q])
  BY DEF Sound, Whole, Good
<1>2. f \in [Path -> Record]
  BY <1>1
<1> QED
  BY <1>1, <1>2 DEF SoundDb, WholeDb, GoodDb

LEMMA TCreateBranchSees ==
    ASSUME NEW d, NEW t \in Tid, SoundDb(d, t), NEW p \in Path, NEW v \in Value,
           p \notin TValidPaths(d, t)
    PROVE  LET f == TCreateBranch(d, t, p, v)
           IN  /\ SoundDb(f, t)
               /\ \A c : FitsDb(f, t, c) =>
                     SeenDb(f, t, c) = WithBranch(SeenDb(d, t, c), p, v)
<1> DEFINE V == TValidPaths(d, t)
           fetched == [s \in Path |-> FetchData(GetTentry(d[s], t), t).te[t].perms]
           pl == TPerms(d, t, p)
           f == TCreateBranch(d, t, p, v)
<1>1. ASSUME NEW q \in Path
      PROVE  /\ Sound(f[q], t)
             /\ \A n : Fits(f[q], t, n) =>
                   /\ Seen(f[q].te[t], n) = Branching(Seen(d[q].te[t], n), V, p, q, v, pl)
                   /\ q \in Missing(V, p) \cup Registrars(V, p) =>
                         (q \in V <=> Seen(d[q].te[t], n).exists)
                   /\ q \in Registrars(V, p) \ Missing(V, p) =>
                         fetched[q] = Seen(d[q].te[t], n).perms
  <2>1. fetched[q] = FetchData(GetTentry(d[q], t), t).te[t].perms
    OBVIOUS
  <2>2. /\ Sound(f[q], t)
        /\ \A n : Fits(f[q], t, n) =>
              /\ Seen(f[q].te[t], n) = Branching(Seen(d[q].te[t], n), V, p, q, v, pl)
              /\ q \in Missing(V, p) \cup Registrars(V, p) =>
                    (q \in V <=> Seen(d[q].te[t], n).exists)
              /\ q \in Registrars(V, p) \ Missing(V, p) =>
                    FetchData(GetTentry(d[q], t), t).te[t].perms = Seen(d[q].te[t], n).perms
    BY TCreateAt
  <2> HIDE DEF fetched, pl, V, f
  <2> QED
    BY <2>1, <2>2
<1>2. f = [q \in Path |-> f[q]]
  BY DEF TCreateBranch
<1>3. \A q \in Path : OwnAt(d[q], f[q], t)
  BY TCreateBranchOwn DEF SoundDb
<1> HIDE DEF f
<1>4. SoundDb(f, t)
  BY <1>1, <1>2, SoundDbByRecord
<1>5. ASSUME NEW c, FitsDb(f, t, c)
      PROVE  SeenDb(f, t, c) = WithBranch(SeenDb(d, t, c), p, v)
  <2> DEFINE O == SeenDb(d, t, c)
             W == Existing(O)
             ps == [q \in Path |-> O[q].perms]
             pm == InheritedPerms(W, p, ps)
  <2>1. O \in Tree
    BY <1>3, <1>5, FitsDbBefore, SeenDbTree DEF SoundDb
  <2>2. \A q \in Path : O[q] = Seen(d[q].te[t], c[q]) /\ Fits(f[q], t, c[q])
    BY <1>5 DEF SeenDb, FitsDb
  <2> HIDE DEF O, fetched
  <2>3. ASSUME NEW q \in Missing(V, p) \cup Registrars(V, p)
        PROVE  q \in V <=> q \in W
    <3>1. q \in Path
      BY MissingRegistered, RegistrarsExist
    <3>2. q \in W <=> O[q].exists
      BY <3>1 DEF Existing
    <3> HIDE DEF V, W, pl, f
    <3> QED
      BY <1>1, <2>2, <3>1, <3>2
  <2>4. Missing(W, p) = Missing(V, p) /\ Registrars(W, p) = Registrars(V, p)
    BY <2>3, SameMissing
  <2>5. ASSUME NEW q \in Registrars(V, p) \ Missing(V, p)
        PROVE  fetched[q] = ps[q]
    <3>1. q \in Path
      BY RegistrarsExist
    <3>2. ps[q] = O[q].perms
      BY <3>1
    <3> HIDE DEF V, ps
    <3> QED
      BY <1>1, <2>2, <3>1, <3>2
  <2>6. pm = pl
    <3> HIDE DEF V, W, ps
    <3>1. InheritedPerms(V, p, fetched) = InheritedPerms(W, p, ps)
      BY <2>4, <2>5, SameInherited
    <3> QED
      BY <3>1 DEF TPerms, V, fetched
  <2>7. WithBranch(O, p, v) = [q \in Path |-> Branching(O[q], W, p, q, v, pm)]
    BY <2>1, WithBranchAt
  <2> HIDE DEF pm, pl, V, W
  <2>8. ASSUME NEW q \in Path
        PROVE  Seen(f[q].te[t], c[q]) = Branching(O[q], W, p, q, v, pm)
    <3>1. Seen(f[q].te[t], c[q]) = Branching(O[q], V, p, q, v, pl)
      BY <1>1, <2>2
    <3> QED
      BY <2>4, <2>6, <3>1 DEF Branching
  <2> QED
    BY <2>7, <2>8 DEF SeenDb, O
<1> QED
  BY <1>4, <1>5 DEF f

-----------------------------------------------------------------------------
(* Deleting a branch.                                                      *)

(* The subtree is the same for all who agree about the lists it visits.    *)
LEMMA SameSubtree ==
    ASSUME NEW kids, NEW lists, NEW p \in Path,
           \A q \in Subtree(kids, p) : lists[q] = kids[q]
    PROVE  Subtree(lists, p) = Subtree(kids, p)
<1> SUFFICES ASSUME NEW q \in Path, p \in Chain(q)
             PROVE  q \in Subtree(lists, p) <=> q \in Subtree(kids, p)
  BY DEF Subtree
<1>1. /\ Len(p) \in Nat /\ Len(q) \in Nat /\ Len(p) <= Len(q)
      /\ p = SubSeq(q, 1, Len(p)) /\ q = SubSeq(q, 1, Len(q))
  BY ChainPaths, PathAssumption
<1> DEFINE at(n) == SubSeq(q, 1, n)
<1>2. ASSUME NEW n \in Len(p) .. Len(q), \A k \in Len(p) .. n - 1 : q[k + 1] \in kids[at(k)]
      PROVE  at(n) \in Subtree(kids, p)
  <2>1. n \in 0 .. Len(q)
    BY <1>1
  <2>2. /\ at(n) \in Path /\ Len(at(n)) = n
        /\ \A k \in 0 .. n : SubSeq(at(n), 1, k) = at(k)
        /\ \A k \in 1 .. n : at(n)[k] = q[k]
    BY <2>1, Beginnings
  <2>3. p \in Chain(at(n))
    <3>1. Len(p) \in 0 .. n /\ SubSeq(at(n), 1, Len(p)) = p
      BY <1>1, <2>1, <2>2
    <3> HIDE DEF at
    <3> QED
      BY <2>2, <3>1 DEF Chain
  <2>4. ASSUME NEW k \in Len(p) .. n - 1
        PROVE  at(n)[k + 1] \in kids[SubSeq(at(n), 1, k)]
    <3>1. k \in 0 .. n /\ k + 1 \in 1 .. n
      BY <1>1, <2>1
    <3>2. SubSeq(at(n), 1, k) = at(k) /\ at(n)[k + 1] = q[k + 1]
      BY <2>2, <3>1
    <3> HIDE DEF at
    <3> QED
      BY <1>2, <3>2
  <2> HIDE DEF at
  <2> QED
    BY <2>2, <2>3, <2>4 DEF Subtree
<1>3. ASSUME q \in Subtree(kids, p), NEW n \in Len(p) .. Len(q) - 1
      PROVE  lists[at(n)] = kids[at(n)]
  <2>1. \A k \in Len(p) .. Len(q) - 1 : q[k + 1] \in kids[at(k)]
    BY <1>3 DEF Subtree
  <2>2. at(n) \in Subtree(kids, p)
    BY <1>1, <1>2, <2>1
  <2> QED
    BY <2>2
<1>4. ASSUME q \in Subtree(lists, p), q \notin Subtree(kids, p)
      PROVE  FALSE
  <2> DEFINE N == {n \in Len(p) .. Len(q) - 1 : q[n + 1] \notin kids[at(n)]}
  <2>1. N # {}
    BY <1>4 DEF Subtree
  <2>2. PICK n \in N : \A k \in N : n <= k
    <3>1. N \in SUBSET Nat
      BY <1>1
    <3> HIDE DEF N
    <3> QED
      BY <2>1, <3>1, Least
  <2>3. \A k \in Len(p) .. n - 1 : q[k + 1] \in kids[at(k)]
    BY <1>1, <2>2
  <2>4. at(n) \in Subtree(kids, p)
    BY <1>1, <1>2, <2>3
  <2>5. q[n + 1] \in lists[at(n)]
    BY <1>4 DEF Subtree
  <2> QED
    BY <2>4, <2>5
<1>5. ASSUME q \in Subtree(kids, p)
      PROVE  q \in Subtree(lists, p)
  <2>1. \A n \in Len(p) .. Len(q) - 1 : q[n + 1] \in kids[at(n)]
    BY <1>5 DEF Subtree
  <2>2. \A n \in Len(p) .. Len(q) - 1 : q[n + 1] \in lists[at(n)]
    BY <1>3, <1>5, <2>1
  <2> QED
    BY <2>2 DEF Subtree
<1> QED
  BY <1>4, <1>5

LEMMA WithoutBranchAt ==
    ASSUME NEW c \in Tree, NEW p \in Path
    PROVE  WithoutBranch(c, p) =
              [q \in Path |->
                  IF q \in Subtree([s \in Path |-> c[s].children], p) THEN Absent
                  ELSE IF p # <<>> /\ q = Parent(p)
                  THEN Listing(c[q], c[q].children \ {Base(p)}) ELSE c[q]]
<1>1. ASSUME NEW q \in Path
      PROVE  [c[q] EXCEPT !.children = @ \ {Base(p)}]
                = Listing(c[q], c[q].children \ {Base(p)})
  <2>1. c[q] \in Node /\ c[q].children \ {Base(p)} \in SUBSET Name
    BY DEF Tree, Node
  <2> QED
    BY <2>1, ListingNode
<1> QED
  BY <1>1 DEF WithoutBranch

(* What the transaction deleted has left its parent's list.                *)
(* The transaction deleted an entry that existed; its parent's copy then   *)
(* no longer lists it.                                                     *)
Gone(te) == te.init_seq # 0 /\ te.init_valid /\ ~IsValid(te)

Unlinked(d, t) ==
    \A p \in Path \ {<<>>} : Gone(d[p].te[t]) => Base(p) \in d[Parent(p)].te[t].children_rem

LEMMA EntryFits ==
    ASSUME NEW t \in Tid, NEW r, Sound(r, t)
    PROVE  Fits(r, t, NodeOf(r.e))
<1>1. r.e \in Entry
  BY Types DEF Sound, Whole
<1>2. NodeOf(r.e) \in Node /\ (NodeOf(r.e).exists \/ NodeOf(r.e) = Absent)
  BY <1>1, Nodes DEF NodeOf, Node, Entry
<1> QED
  BY <1>2 DEF Fits, Alike

LEMMA GoneSeen ==
    ASSUME NEW t \in Tid, NEW r, Sound(r, t)
    PROVE  Gone(r.te[t]) <=> /\ NodeOf(r.e).exists
                             /\ ~Seen(r.te[t], NodeOf(r.e)).exists
<1>1. NodeOf(r.e).exists <=> IsValid(r.e)
  BY Nodes DEF NodeOf
<1>2. CASE Touched(r, t)
  BY <1>1, <1>2, SoundCopy, SeenHeld, EntryFits DEF Gone
<1>3. CASE ~Touched(r, t)
  BY <1>3 DEF Touched, Gone, Seen
<1> QED
  BY <1>2, <1>3

(* Which paths are valid in the transaction.                               *)
LEMMA ValidSeen ==
    ASSUME NEW t \in Tid, NEW d, SoundDb(d, t), NEW q \in Path
    PROVE  LET n == NodeOf(d[q].e)
           IN  /\ q \in TValidPaths(d, t) <=> Seen(d[q].te[t], n).exists
               /\ IsValid(d[q].te[t]) => q \in TValidPaths(d, t)
<1> DEFINE r == d[q]
           g == GetTentry(r, t)
<1>1. /\ Sound(r, t) /\ Sound(g, t) /\ Touched(g, t) /\ Own(r, g, t)
      /\ \A n : Fits(g, t, n) => Seen(g.te[t], n) = Seen(r.te[t], n)
      /\ q \in TValidPaths(d, t) <=> IsValid(g.te[t])
      /\ IsValid(r.te[t]) => IsValid(g.te[t])
  BY GetSees, GetTentryKeeps DEF SoundDb, TValidPaths, Kept, KeptData, Sound
<1> HIDE DEF g, r
<1>2. g.e = r.e /\ Fits(g, t, NodeOf(r.e))
  BY <1>1, EntryFits DEF Own
<1>3. Seen(g.te[t], NodeOf(r.e)).exists <=> IsValid(g.te[t])
  BY <1>1, <1>2, SeenHeld
<1> QED
  BY <1>1, <1>2, <1>3 DEF r

(* The entry, as the transaction opens it to delete it.                    *)
(* How delete_branch opens a record.                                       *)
Opened(r, t) == FetchChildren(FetchData(GetTentry(r, t), t), t)

LEMMA OpenedSees ==
    ASSUME NEW t \in Tid, NEW r, Sound(r, t)
    PROVE  LET o == Opened(r, t)
               g == GetTentry(r, t)
           IN  /\ Sound(o, t) /\ Touched(o, t) /\ Own(g, o, t)
               /\ o.te[t].read_seq # 0 /\ o.te[t].read_children_seq # 0
               /\ IsValid(o.te[t]) <=> IsValid(g.te[t])
               /\ SameLists(r.te[t], o.te[t])
               /\ \A n : Fits(o, t, n) => Fits(r, t, n) /\ Seen(o.te[t], n) = Seen(r.te[t], n)
<1> DEFINE g == GetTentry(r, t)
           f == FetchData(g, t)
           o == FetchChildren(f, t)
<1>0. Whole(r)
  BY DEF Sound
<1>1. /\ Sound(g, t) /\ Touched(g, t) /\ Own(r, g, t) /\ SameLists(r.te[t], g.te[t])
      /\ \A n : Fits(g, t, n) => Seen(g.te[t], n) = Seen(r.te[t], n)
  BY <1>0, GetSees, GetTentryKeeps DEF Kept
<1> HIDE DEF g
<1>2. /\ Sound(f, t) /\ Touched(f, t) /\ Own(g, f, t) /\ SameLists(g.te[t], f.te[t])
      /\ f.te[t].read_seq # 0 /\ (IsValid(f.te[t]) <=> IsValid(g.te[t]))
      /\ \A n : Seen(f.te[t], n) = Seen(g.te[t], n)
  BY <1>1, FetchDataSees, FetchDataKeeps DEF Kept, Sound
<1> HIDE DEF f
<1>3. /\ Sound(o, t) /\ Touched(o, t) /\ Own(f, o, t) /\ SameLists(f.te[t], o.te[t])
      /\ o.te[t].read_children_seq # 0 /\ o.te[t].read_seq # 0
      /\ IsValid(o.te[t]) <=> IsValid(f.te[t])
      /\ \A n : Seen(o.te[t], n) = Seen(f.te[t], n)
  BY <1>2, FetchChildrenSees, FetchChildrenKeeps DEF Kept, Sound
<1> HIDE DEF o
<1>4. Own(g, o, t)
  BY <1>1, <1>2, <1>3, OwnThen DEF Sound, Whole
<1>5. SameLists(r.te[t], o.te[t])
  BY <1>1, <1>2, <1>3 DEF SameLists
<1>6. ASSUME NEW n, Fits(o, t, n)
      PROVE  Fits(r, t, n) /\ Seen(o.te[t], n) = Seen(r.te[t], n)
  <2>1. Fits(g, t, n)
    BY <1>1, <1>4, <1>6, FitsBefore DEF OwnAt, Sound
  <2>2. Fits(r, t, n)
    BY <1>0, <1>1, <2>1, FitsBefore DEF OwnAt
  <2> QED
    BY <1>1, <1>2, <1>3, <2>1, <2>2
<1> QED
  BY <1>2, <1>3, <1>4, <1>5, <1>6 DEF Opened, g, f, o

(* Whatever a valid entry lists is valid, in the transaction too.          *)
LEMMA KidsValid ==
    ASSUME NEW t \in Tid, NEW d, SoundDb(d, t), Listed(d), Shape(d, t), Unlinked(d, t),
           NEW q \in Path, NEW c \in CurrentChildren(Opened(d[q], t).te[t])
    PROVE  Append(q, c) \in TValidPaths(d, t)
<1> DEFINE r == d[q]
           o == Opened(r, t)
           s == Append(q, c)
<1>1. /\ Sound(r, t) /\ Sound(o, t) /\ Touched(o, t) /\ Own(r, o, t)
      /\ o.te[t].read_children_seq # 0 /\ SameLists(r.te[t], o.te[t])
  <2>1. Own(r, GetTentry(r, t), t) /\ Own(GetTentry(r, t), o, t) /\ Sound(o, t)
    BY OpenedSees, GetSees DEF SoundDb
  <2>2. Own(r, o, t)
    BY <2>1, GetTentryWhole, OwnThen DEF Sound, Whole, SoundDb
  <2> QED
    BY <2>1, <2>2, OpenedSees DEF SoundDb
<1> HIDE DEF o
<1>2. o.te[t].children = r.e.children /\ o.te[t] \in Tentry
  BY <1>1, SoundCopy DEF Own
<1>3. c \in Name /\ (c \in r.te[t].children_add \/ c \in r.e.children)
      /\ c \notin r.te[t].children_rem
  BY <1>1, <1>2 DEF CurrentChildren, SameLists, Tentry, o, r
<1>4. s \in Path
  BY <1>3 DEF Shape, Listed, InUse
<1>5. s # <<>> /\ Parent(s) = q /\ Base(s) = c
  BY <1>3, Joins
<1> HIDE DEF s
<1>6. CASE c \in r.te[t].children_add
  <2>1. WroteData(d[s].te[t])
    BY <1>4, <1>5, <1>6 DEF Shape, CopyJoins
  <2> QED
    BY <1>4, <2>1, ValidSeen DEF WroteData, s
<1>7. CASE c \in r.e.children
  <2>1. NodeOf(d[s].e).exists
    BY <1>4, <1>5, <1>7 DEF Listed, NodeOf
  <2>2. ~Gone(d[s].te[t])
    BY <1>3, <1>4, <1>5 DEF Unlinked
  <2>3. Seen(d[s].te[t], NodeOf(d[s].e)).exists
    BY <1>4, <2>1, <2>2, GoneSeen DEF SoundDb
  <2> QED
    BY <1>4, <2>3, ValidSeen DEF s
<1> QED
  BY <1>3, <1>6, <1>7

(* The children lists that del walks along inside a transaction.           *)
(* The lists delete_branch walks along.                                    *)
TKids(d, t) ==
    [s \in Path |-> IF s \in TValidPaths(d, t) THEN CurrentChildren(Opened(d[s], t).te[t])
                                               ELSE {}]

(* What WithoutBranch makes of node n at q.                                *)
Pruning(n, visited, p, q) ==
    IF q \in visited THEN Absent
    ELSE IF p # <<>> /\ q = Parent(p) THEN Listing(n, n.children \ {Base(p)}) ELSE n

LEMMA TDeleteAt ==
    ASSUME NEW d, NEW t \in Tid, SoundDb(d, t), Listed(d), Shape(d, t), Unlinked(d, t),
           NEW p \in Path, NEW q \in Path
    PROVE  LET visited == Subtree(TKids(d, t), p)
               new == TDeleteBranch(d, t, p)[q]
           IN  /\ Sound(new, t)
               /\ \A n : Fits(new, t, n) =>
                     /\ Seen(new.te[t], n) = Pruning(Seen(d[q].te[t], n), visited, p, q)
                     /\ q \in visited => TKids(d, t)[q] = Seen(d[q].te[t], n).children
                     /\ q \in visited \cap TValidPaths(d, t) => Fits(Opened(d[q], t), t, n)
<1> DEFINE V == TValidPaths(d, t)
           kids == TKids(d, t)
           visited == Subtree(kids, p)
           removed == {c \in kids[q] : Append(q, c) \in V}
           r == d[q]
           g == GetTentry(r, t)
           o == Opened(r, t)
           a == TRemoveChildren(o, t, kids[q])
           w == TMarkDeleted(a, t)
           b == TRemoveChildren(g, t, {Base(p)})
           f == TDeleteBranch(d, t, p)
           new == f[q]
<1>1. new = IF q \in visited \cap V THEN TMarkDeleted(TRemoveChildren(o, t, removed), t)
            ELSE IF q \in visited THEN g
            ELSE IF p # <<>> /\ q = Parent(p) THEN b ELSE r
  BY DEF TDeleteBranch, TKids, Opened
<1>2. /\ Sound(r, t) /\ Whole(r) /\ Sound(g, t) /\ Touched(g, t) /\ Own(r, g, t)
      /\ \A n : Fits(g, t, n) => Seen(g.te[t], n) = Seen(r.te[t], n)
      /\ q \in V <=> IsValid(g.te[t])
  BY GetSees DEF SoundDb, Sound, TValidPaths
<1>3. /\ Sound(o, t) /\ Touched(o, t) /\ Own(g, o, t)
      /\ o.te[t].read_seq # 0 /\ o.te[t].read_children_seq # 0
      /\ IsValid(o.te[t]) <=> IsValid(g.te[t])
      /\ \A n : Fits(o, t, n) => Fits(r, t, n) /\ Seen(o.te[t], n) = Seen(r.te[t], n)
  BY <1>2, OpenedSees
<1>4. kids[q] = (IF q \in V THEN CurrentChildren(o.te[t]) ELSE {}) /\ kids[q] \in SUBSET Name
  <2>1. o.te[t] \in Tentry
    BY <1>3, SoundCopy
  <2>2. CurrentChildren(o.te[t]) \in SUBSET Name
    BY <2>1 DEF CurrentChildren, Tentry
  <2>3. kids[q] = IF q \in V THEN CurrentChildren(o.te[t]) ELSE {}
    BY DEF TKids
  <2> HIDE DEF o, kids
  <2> QED
    BY <2>2, <2>3
<1>5. q \in V => removed = kids[q]
  <2>1. q \in V => \A c \in kids[q] : Append(q, c) \in V
    BY <1>4, KidsValid
  <2> HIDE DEF kids, V
  <2> QED
    BY <2>1
<1> HIDE DEF V, kids, g, o, f, removed
<1>6. CASE q \in visited \cap V
  <2>1. new = w
    BY <1>1, <1>5, <1>6
  <2>2. /\ Sound(a, t) /\ Touched(a, t) /\ Own(o, a, t)
        /\ a.te[t].read_children_seq = o.te[t].read_children_seq
        /\ CurrentChildren(a.te[t]) = CurrentChildren(o.te[t]) \ kids[q]
    BY <1>3, <1>4, RemoveSees
  <2> HIDE DEF a, new
  <2>3. CurrentChildren(a.te[t]) = {}
    BY <1>4, <1>6, <2>2
  <2>4. /\ Sound(w, t) /\ Touched(w, t) /\ Own(a, w, t)
        /\ \A n : Seen(w.te[t], n) = Absent
    BY <1>3, <2>2, <2>3, DeleteSees
  <2> HIDE DEF w
  <2>5. ASSUME NEW n, Fits(w, t, n)
        PROVE  kids[q] = Seen(r.te[t], n).children /\ Fits(o, t, n)
    <3>1. Fits(a, t, n)
      BY <2>2, <2>4, <2>5, FitsBefore DEF OwnAt, Sound
    <3>2. Fits(o, t, n)
      BY <1>3, <2>2, <3>1, FitsBefore DEF OwnAt, Sound
    <3>3. Seen(o.te[t], n).children = CurrentChildren(o.te[t])
      BY <1>2, <1>3, <1>6, <3>2, SeenHeld
    <3> QED
      BY <1>3, <1>4, <1>6, <3>2, <3>3
  <2>6. \A n : Pruning(n, visited, p, q) = Absent
    BY <1>6 DEF Pruning
  <2> QED
    BY <2>1, <2>4, <2>5, <2>6 DEF f, kids, new, o
<1>7. CASE q \in visited \ V
  <2>1. new = g
    BY <1>1, <1>7
  <2> HIDE DEF new
  <2>2. ASSUME NEW n, Fits(g, t, n)
        PROVE  Seen(g.te[t], n) = Absent /\ Seen(r.te[t], n) = Absent
    BY <1>2, <1>7, <2>2 DEF Seen, Touched
  <2>3. kids[q] = Absent.children
    BY <1>4, <1>7, Nodes
  <2>4. \A n : Pruning(n, visited, p, q) = Absent
    BY <1>7 DEF Pruning
  <2>5. ASSUME NEW n, Fits(g, t, n)
        PROVE  /\ Seen(g.te[t], n) = Pruning(Seen(r.te[t], n), visited, p, q)
               /\ kids[q] = Seen(r.te[t], n).children
    BY <2>2, <2>3, <2>4, <2>5
  <2>6. q \notin visited \cap V
    BY <1>7
  <2> QED
    BY <1>2, <2>1, <2>5, <2>6 DEF f, kids, new, V
<1>8. CASE q \notin visited /\ p # <<>> /\ q = Parent(p)
  <2>1. new = b
    BY <1>1, <1>8
  <2>2. {Base(p)} \in SUBSET Name
    BY <1>8, Splits
  <2>3. /\ Sound(b, t) /\ Touched(b, t) /\ Own(g, b, t)
        /\ \A n : Seen(b.te[t], n)
                     = Listing(Seen(g.te[t], n), Seen(g.te[t], n).children \ {Base(p)})
    BY <1>2, <2>2, RemoveSees
  <2> HIDE DEF b, new
  <2>4. ASSUME NEW n, Fits(b, t, n)
        PROVE  Fits(g, t, n)
    BY <1>2, <2>3, <2>4, FitsBefore DEF OwnAt, Sound
  <2>5. \A n : Pruning(n, visited, p, q) = Listing(n, n.children \ {Base(p)})
    BY <1>8 DEF Pruning
  <2> HIDE DEF visited
  <2> QED
    BY <1>2, <1>8, <2>1, <2>3, <2>4, <2>5 DEF f, kids, new, visited, V
<1>9. CASE q \notin visited /\ ~(p # <<>> /\ q = Parent(p))
  <2>1. new = r
    BY <1>1, <1>9
  <2>2. \A n : Pruning(n, visited, p, q) = n
    BY <1>9 DEF Pruning
  <2> HIDE DEF new
  <2> QED
    BY <1>2, <1>9, <2>1, <2>2 DEF f, kids, new
<1> QED
  BY <1>6, <1>7, <1>8, <1>9

LEMMA TDeleteBranchSees ==
    ASSUME NEW d, NEW t \in Tid, SoundDb(d, t), Listed(d), Shape(d, t), Unlinked(d, t),
           NEW p \in Path
    PROVE  LET f == TDeleteBranch(d, t, p)
           IN  /\ SoundDb(f, t)
               /\ \A c : FitsDb(f, t, c) =>
                     SeenDb(f, t, c) = WithoutBranch(SeenDb(d, t, c), p)
<1> DEFINE kids == TKids(d, t)
           visited == Subtree(kids, p)
           f == TDeleteBranch(d, t, p)
<1>1. \A q \in Path :
         /\ Sound(f[q], t)
         /\ \A n : Fits(f[q], t, n) =>
               /\ Seen(f[q].te[t], n) = Pruning(Seen(d[q].te[t], n), visited, p, q)
               /\ q \in visited => kids[q] = Seen(d[q].te[t], n).children
  BY TDeleteAt
<1>2. f = [q \in Path |-> f[q]]
  BY DEF TDeleteBranch
<1>3. \A q \in Path : OwnAt(d[q], f[q], t)
  BY TDeleteBranchOwn DEF SoundDb
<1>4. visited \subseteq Path
  BY DEF Subtree
<1> HIDE DEF f, kids
<1>5. SoundDb(f, t)
  BY <1>1, <1>2, SoundDbByRecord
<1>6. ASSUME NEW c, FitsDb(f, t, c)
      PROVE  SeenDb(f, t, c) = WithoutBranch(SeenDb(d, t, c), p)
  <2> DEFINE O == SeenDb(d, t, c)
             lists == [q \in Path |-> O[q].children]
  <2>1. O \in Tree
    BY <1>3, <1>6, FitsDbBefore, SeenDbTree DEF SoundDb
  <2>2. \A q \in Path : O[q] = Seen(d[q].te[t], c[q]) /\ Fits(f[q], t, c[q])
    BY <1>6 DEF SeenDb, FitsDb
  <2> HIDE DEF O
  <2>3. ASSUME NEW q \in visited
        PROVE  lists[q] = kids[q]
    <3>1. q \in Path
      BY <1>4
    <3>2. lists[q] = O[q].children
      BY <3>1
    <3> HIDE DEF lists, visited
    <3> QED
      BY <1>1, <2>2, <3>1, <3>2
  <2> HIDE DEF lists
  <2>4. Subtree(lists, p) = visited
    BY <2>3, SameSubtree
  <2> HIDE DEF visited
  <2>5. WithoutBranch(O, p) = [q \in Path |-> Pruning(O[q], visited, p, q)]
    <3>1. \A q \in Path :
             Pruning(O[q], visited, p, q)
                = IF q \in visited THEN Absent
                  ELSE IF p # <<>> /\ q = Parent(p)
                  THEN Listing(O[q], O[q].children \ {Base(p)}) ELSE O[q]
      BY DEF Pruning
    <3>2. Subtree([s \in Path |-> O[s].children], p) = visited
      BY <2>4 DEF lists
    <3> DEFINE gone == Subtree([s \in Path |-> O[s].children], p)
    <3>3. WithoutBranch(O, p)
             = [q \in Path |-> IF q \in gone THEN Absent
                               ELSE IF p # <<>> /\ q = Parent(p)
                               THEN Listing(O[q], O[q].children \ {Base(p)}) ELSE O[q]]
      BY <2>1, WithoutBranchAt
    <3>4. gone = visited
      BY <3>2
    <3> HIDE DEF gone
    <3> QED
      BY <3>1, <3>3, <3>4
  <2>6. ASSUME NEW q \in Path
        PROVE  Seen(f[q].te[t], c[q]) = Pruning(O[q], visited, p, q)
    BY <1>1, <2>2
  <2> QED
    BY <2>5, <2>6 DEF SeenDb, O
<1> QED
  BY <1>5, <1>6 DEF f

-----------------------------------------------------------------------------
(* What the transaction deleted stays off the lists.                       *)

LEMMA GoneSame ==
    ASSUME NEW t \in Tid, NEW r, NEW w, Sound(r, t), Sound(w, t), w.e = r.e, Gone(w.te[t]),
           \A n : Fits(w, t, n) /\ Seen(r.te[t], n).exists => Seen(w.te[t], n).exists
    PROVE  Gone(r.te[t])
<1>1. Fits(w, t, NodeOf(w.e))
  BY EntryFits
<1> QED
  BY <1>1, GoneSeen

LEMMA OwnAtEntry == \A r, w, t : OwnAt(r, w, t) => w.e = r.e
  BY DEF OwnAt, Own

(* An operation on one copy.                                               *)
(* Function c with another value at p.                                     *)
Becomes(c, p, n) == [c EXCEPT ![p] = n]

LEMMA UpdateSees ==
    ASSUME NEW d, NEW t \in Tid, SoundDb(d, t), Unlinked(d, t), NEW p \in Path,
           NEW w, Sound(w, t), Own(d[p], w, t), SameLists(d[p].te[t], w.te[t]),
           \A n : Fits(w, t, n) /\ Seen(d[p].te[t], n).exists => Seen(w.te[t], n).exists,
           NEW f, f = Becomes(d, p, w)
    PROVE  /\ SoundDb(f, t) /\ Unlinked(f, t)
           /\ \A c : FitsDb(f, t, c) =>
                 /\ FitsDb(d, t, c) /\ Fits(w, t, c[p])
                 /\ SeenDb(f, t, c) = Becomes(SeenDb(d, t, c), p, Seen(w.te[t], c[p]))
<1>1. \A q \in Path : f[q] = IF q = p THEN w ELSE d[q]
  BY UpdateAt DEF SoundDb, Becomes
<1>2. f = [q \in Path |-> f[q]]
  BY DEF SoundDb, WholeDb, GoodDb, Becomes
<1>3. SoundDb(f, t)
  BY <1>1, <1>2, SoundDbByRecord DEF SoundDb
<1>4. \A q \in Path : OwnAt(d[q], f[q], t)
  BY <1>1 DEF OwnAt
<1>5. Unlinked(f, t)
  <2>1. Gone(w.te[t]) => Gone(d[p].te[t])
    BY GoneSame DEF SoundDb, Own
  <2>2. \A q \in Path : /\ Gone(f[q].te[t]) => Gone(d[q].te[t])
                        /\ f[q].te[t].children_rem = d[q].te[t].children_rem
    BY <1>1, <2>1 DEF SameLists
  <2>3. \A q \in Path \ {<<>>} : Parent(q) \in Path
    BY Splits
  <2> QED
    BY <2>2, <2>3 DEF Unlinked
<1>6. ASSUME NEW c, FitsDb(f, t, c)
      PROVE  /\ FitsDb(d, t, c) /\ Fits(w, t, c[p])
             /\ SeenDb(f, t, c) = Becomes(SeenDb(d, t, c), p, Seen(w.te[t], c[p]))
  <2>1. FitsDb(d, t, c)
    BY <1>4, <1>6, FitsDbBefore DEF SoundDb
  <2>2. Fits(w, t, c[p])
    BY <1>1, <1>6 DEF FitsDb
  <2>3. SeenDb(f, t, c) = Becomes(SeenDb(d, t, c), p, Seen(w.te[t], c[p]))
    <3>1. SeenDb(f, t, c) = [q \in Path |-> IF q = p THEN Seen(w.te[t], c[p])
                                           ELSE Seen(d[q].te[t], c[q])]
      BY <1>1 DEF SeenDb
    <3> QED
      BY <3>1 DEF SeenDb, Becomes
  <2> QED
    BY <2>1, <2>2, <2>3
<1> QED
  BY <1>3, <1>5, <1>6

LEMMA TCreateBranchUnlinked ==
    ASSUME NEW d, NEW t \in Tid, SoundDb(d, t), Unlinked(d, t), NEW p \in Path,
           NEW v \in Value
    PROVE  Unlinked(TCreateBranch(d, t, p, v), t)
<1> DEFINE V == TValidPaths(d, t)
           f == TCreateBranch(d, t, p, v)
           pl == TPerms(d, t, p)
           added(q) == IF q \in Registrars(V, p) THEN {Step(q, p)} ELSE {}
<1>1. \A q \in Path :
         /\ f[q].te[t].children_rem = d[q].te[t].children_rem \ added(q)
         /\ q \in Missing(V, p) => WroteData(f[q].te[t])
  BY TCreateBranchCopies DEF SoundDb
<1>2. \A q \in Path :
         /\ Sound(d[q], t) /\ Sound(f[q], t) /\ f[q].e = d[q].e
         /\ \A n : Fits(f[q], t, n) =>
               Seen(f[q].te[t], n) = Branching(Seen(d[q].te[t], n), V, p, q, v, pl)
  BY TCreateAt, TCreateBranchOwn, OwnAtEntry DEF SoundDb
<1> SUFFICES ASSUME NEW q \in Path \ {<<>>}, Gone(f[q].te[t])
             PROVE  Base(q) \in f[Parent(q)].te[t].children_rem
  BY DEF Unlinked
<1> HIDE DEF f, V, pl
<1>3. q \notin Missing(V, p)
  BY <1>1 DEF Gone, WroteData
<1>4. \A n : n.exists => Branching(n, V, p, q, v, pl).exists
  BY <1>3 DEF Branching, Listing
<1>5. Gone(d[q].te[t])
  BY <1>2, <1>4, GoneSame
<1>6. Parent(q) \in Path /\ Append(Parent(q), Base(q)) = q
  BY Splits
<1>7. Base(q) \in d[Parent(q)].te[t].children_rem
  BY <1>5 DEF Unlinked
<1>8. Base(q) \notin added(Parent(q))
  BY <1>3, <1>6, RegisteredMissing
<1> QED
  BY <1>1, <1>6, <1>7, <1>8

LEMMA TDeleteBranchUnlinked ==
    ASSUME NEW d, NEW t \in Tid, SoundDb(d, t), Listed(d), Shape(d, t), Unlinked(d, t),
           NEW p \in Path
    PROVE  Unlinked(TDeleteBranch(d, t, p), t)
<1> DEFINE V == TValidPaths(d, t)
           f == TDeleteBranch(d, t, p)
           opened(s) == FetchChildren(FetchData(GetTentry(d[s], t), t), t)
           lists == [s \in Path |->
                        IF s \in V THEN CurrentChildren(opened(s).te[t]) ELSE {}]
           kids == TKids(d, t)
           visited == Subtree(kids, p)
           removed(q) == IF q \in Subtree(lists, p) \cap V
                         THEN {c \in lists[q] : Append(q, c) \in V}
                         ELSE IF q \notin Subtree(lists, p) /\ p # <<>> /\ q = Parent(p)
                         THEN {Base(p)} ELSE {}
<1>1. \A q \in Path : f[q].te[t].children_rem = d[q].te[t].children_rem \cup removed(q)
  BY TDeleteBranchCopies DEF SoundDb
<1>2. lists = kids /\ \A q \in Path : kids[q] # {} => q \in V
  BY DEF TKids, Opened
<1>3. \A q \in Path : removed(q) = IF q \in visited \cap V
                                   THEN {c \in kids[q] : Append(q, c) \in V}
                                   ELSE IF q \notin visited /\ p # <<>> /\ q = Parent(p)
                                   THEN {Base(p)} ELSE {}
  BY <1>2
<1>4. \A q \in Path :
         /\ Sound(d[q], t) /\ Sound(f[q], t) /\ f[q].e = d[q].e
         /\ \A n : Fits(f[q], t, n) =>
               Seen(f[q].te[t], n) = Pruning(Seen(d[q].te[t], n), visited, p, q)
  BY TDeleteAt, TDeleteBranchOwn, OwnAtEntry DEF SoundDb
<1> SUFFICES ASSUME NEW q \in Path \ {<<>>}, Gone(f[q].te[t])
             PROVE  Base(q) \in f[Parent(q)].te[t].children_rem
  BY DEF Unlinked
<1>5. Parent(q) \in Path /\ Append(Parent(q), Base(q)) = q
  BY Splits
<1>6. p # <<>> => Parent(p) \notin visited
  BY SubtreeRoot
<1>7. q # p => (q \in visited <=> Parent(q) \in visited /\ Base(q) \in kids[Parent(q)])
  BY SubtreeStep
<1>8. q \in V <=> Seen(d[q].te[t], NodeOf(d[q].e)).exists
  BY ValidSeen
<1>9. Gone(d[q].te[t]) <=> /\ NodeOf(d[q].e).exists
                           /\ ~Seen(d[q].te[t], NodeOf(d[q].e)).exists
  BY <1>4, GoneSeen
<1> HIDE DEF f, V, kids, visited, removed, lists
<1>10. CASE Gone(d[q].te[t])
  BY <1>1, <1>5, <1>10 DEF Unlinked
<1>11. CASE ~Gone(d[q].te[t])
  <2>1. NodeOf(f[q].e).exists /\ ~Seen(f[q].te[t], NodeOf(f[q].e)).exists
    BY <1>4, GoneSeen
  <2>2. q \in V
    BY <1>4, <1>8, <1>9, <1>11, <2>1
  <2>3. q \in visited
    <3>1. q \notin visited => \A n : n.exists => Pruning(n, visited, p, q).exists
      BY DEF Pruning, Listing
    <3> QED
      BY <1>4, <1>11, <3>1, GoneSame
  <2>4. CASE q = p
    BY <1>1, <1>3, <1>5, <1>6, <2>4
  <2>5. CASE q # p
    <3>1. Parent(q) \in visited /\ Base(q) \in kids[Parent(q)]
      BY <1>7, <2>3, <2>5
    <3>2. Parent(q) \in V
      BY <1>2, <1>5, <3>1
    <3> QED
      BY <1>1, <1>3, <1>5, <2>2, <3>1, <3>2
  <2> QED
    BY <2>4, <2>5
<1> QED
  BY <1>10, <1>11

-----------------------------------------------------------------------------
(* What a transaction finds, and what it is answered.                      *)

LEMMA OpenSees ==
    ASSUME NEW t \in Tid, NEW r, Sound(r, t)
    PROVE  LET o == Open(r, t)
               k == FetchChildren(o, t)
               x == k.te[t]
           IN  /\ Sound(o, t) /\ Touched(o, t) /\ Own(r, o, t) /\ SameLists(r.te[t], o.te[t])
               /\ Sound(k, t) /\ Touched(k, t) /\ Own(r, k, t) /\ SameLists(r.te[t], k.te[t])
               /\ IsValid(o.te[t]) <=> IsValid(GetTentry(r, t).te[t])
               /\ IsValid(o.te[t]) => k = Opened(r, t)
               /\ IsValid(x) <=> IsValid(o.te[t])
               /\ x.value = o.te[t].value /\ x.perms = o.te[t].perms
               /\ \A n : Fits(o, t, n) =>
                     LET s == Seen(r.te[t], n)
                     IN  /\ Seen(o.te[t], n) = s /\ (s.exists <=> IsValid(o.te[t]))
                         /\ IsValid(o.te[t]) => s.value = x.value /\ s.perms = x.perms
               /\ \A n : Fits(k, t, n) =>
                     LET s == Seen(r.te[t], n)
                     IN  /\ Fits(o, t, n) /\ Seen(x, n) = s
                         /\ IsValid(o.te[t]) => s.children = CurrentChildren(x)
<1> DEFINE g == GetTentry(r, t)
           h == FetchData(g, t)
           o == Open(r, t)
           k == FetchChildren(o, t)
           x == k.te[t]
<1>1. /\ Sound(g, t) /\ Touched(g, t) /\ Own(r, g, t) /\ Whole(r)
      /\ \A n : Fits(g, t, n) => Seen(g.te[t], n) = Seen(r.te[t], n)
  BY GetSees DEF Sound
<1>2. o = IF IsValid(g.te[t]) THEN h ELSE g
  BY DEF Open
<1>3. IsValid(o.te[t]) => k = Opened(r, t)
  <2>1. CASE IsValid(g.te[t])
    BY <1>2, <2>1 DEF Opened
  <2>2. CASE ~IsValid(g.te[t])
    BY <1>2, <2>2
  <2> QED
    BY <2>1, <2>2
<1> HIDE DEF g
<1>4. /\ Sound(h, t) /\ Touched(h, t) /\ Own(g, h, t)
      /\ h.te[t].read_seq # 0 /\ (IsValid(h.te[t]) <=> IsValid(g.te[t]))
      /\ \A n : Seen(h.te[t], n) = Seen(g.te[t], n)
  BY <1>1, FetchDataSees
<1> HIDE DEF h
<1>5. /\ Sound(o, t) /\ Touched(o, t) /\ (o = g \/ Own(g, o, t))
      /\ IsValid(o.te[t]) <=> IsValid(g.te[t])
      /\ IsValid(o.te[t]) => o.te[t].read_seq # 0
      /\ \A n : Seen(o.te[t], n) = Seen(g.te[t], n)
  BY <1>1, <1>2, <1>4
<1>6. Own(r, o, t) /\ SameLists(r.te[t], o.te[t])
  BY <1>1, OpenOwn, OpenKeeps DEF Kept
<1> HIDE DEF o
<1>7. /\ Sound(k, t) /\ Touched(k, t) /\ Own(o, k, t)
      /\ x.read_children_seq # 0 /\ x.read_seq = o.te[t].read_seq
      /\ IsValid(x) <=> IsValid(o.te[t])
      /\ x.value = o.te[t].value /\ x.perms = o.te[t].perms
      /\ \A n : Seen(x, n) = Seen(o.te[t], n)
  BY <1>5, FetchChildrenSees
<1>8. SameLists(r.te[t], x)
  BY <1>5, <1>6, FetchChildrenKeeps DEF Kept, SameLists, Sound
<1> HIDE DEF k
<1>9. Own(r, k, t)
  BY <1>1, <1>5, <1>6, <1>7, OwnThen DEF Sound, Whole
<1>10. ASSUME NEW n, Fits(o, t, n)
       PROVE  /\ Seen(o.te[t], n) = Seen(r.te[t], n)
              /\ Seen(r.te[t], n).exists <=> IsValid(o.te[t])
              /\ IsValid(o.te[t]) => /\ Seen(r.te[t], n).value = x.value
                                     /\ Seen(r.te[t], n).perms = x.perms
  <2>1. Fits(g, t, n)
    BY <1>1, <1>5, <1>10, FitsBefore DEF OwnAt, Sound
  <2>2. Seen(o.te[t], n) = Seen(r.te[t], n)
    BY <1>1, <1>5, <2>1
  <2>3. /\ Seen(o.te[t], n).exists <=> IsValid(o.te[t])
        /\ o.te[t].read_seq # 0 /\ IsValid(o.te[t]) =>
              /\ Seen(o.te[t], n).value = o.te[t].value
              /\ Seen(o.te[t], n).perms = o.te[t].perms
    BY <1>5, <1>10, SeenHeld
  <2> QED
    BY <1>5, <1>7, <2>2, <2>3
<1>11. ASSUME NEW n, Fits(k, t, n)
       PROVE  /\ Fits(o, t, n) /\ Seen(x, n) = Seen(r.te[t], n)
              /\ IsValid(o.te[t]) => Seen(r.te[t], n).children = CurrentChildren(x)
  <2>1. Fits(o, t, n)
    BY <1>5, <1>7, <1>11, FitsBefore DEF OwnAt, Sound
  <2>2. Seen(x, n) = Seen(r.te[t], n)
    BY <1>7, <1>10, <2>1
  <2>3. IsValid(x) => Seen(x, n).children = CurrentChildren(x)
    BY <1>7, <1>11, SeenHeld
  <2> QED
    BY <1>7, <2>1, <2>2, <2>3
<1> QED
  BY <1>3, <1>5, <1>6, <1>7, <1>8, <1>9, <1>10, <1>11 DEF g, o, k

(* An answer tells nothing but what the request asks for.                  *)
LEMMA AnswerSame ==
    ASSUME NEW n \in Node, NEW m \in Node, NEW r, n.exists = m.exists,
           n.exists /\ r.kind # "create" => n.perms = m.perms,
           n.exists /\ r.kind = "read" => n.value = m.value,
           n.exists /\ r.kind = "children" /\ Permitted(n, r) => n.children = m.children
    PROVE  Answer(n, r) = Answer(m, r)
<1>1. [n EXCEPT !.children = {}] = Listing(n, {}) /\ [m EXCEPT !.children = {}] = Listing(m, {})
  BY ListingNode
<1>2. n.exists /\ r.kind = "read" => Listing(n, {}) = Listing(m, {})
  BY DEF Listing
<1>3. n.exists /\ r.kind # "create" => (Permitted(n, r) <=> Permitted(m, r))
  BY DEF Permitted
<1>4. CASE r.kind = "create"
  BY <1>4 DEF Answer
<1>5. CASE r.kind # "create" /\ ~n.exists
  BY <1>5 DEF Answer
<1>6. CASE r.kind # "create" /\ n.exists /\ ~Permitted(n, r)
  BY <1>3, <1>6 DEF Answer
<1>7. CASE r.kind = "read" /\ n.exists /\ Permitted(n, r)
  BY <1>1, <1>2, <1>3, <1>7 DEF Answer
<1>8. CASE r.kind = "children" /\ n.exists /\ Permitted(n, r)
  BY <1>3, <1>8 DEF Answer
<1>9. CASE r.kind \notin {"create", "read", "children"} /\ n.exists /\ Permitted(n, r)
  BY <1>3, <1>9 DEF Answer
<1> QED
  BY <1>4, <1>5, <1>6, <1>7, <1>8, <1>9

LEMMA Requests ==
    \A p, c, v, pl :
       /\ Create(p).kind = "create" /\ Create(p).path = p
       /\ Read(p).kind = "read" /\ Read(p).path = p /\ Read(p).cid = 0
       /\ GetChildren(p, c).kind = "children" /\ GetChildren(p, c).path = p
       /\ GetChildren(p, c).cid = c
       /\ Update(p, c, v).kind = "update" /\ Update(p, c, v).path = p
       /\ Update(p, c, v).cid = c /\ Update(p, c, v).value = v
       /\ Del(p, c).kind = "del" /\ Del(p, c).path = p /\ Del(p, c).cid = c
       /\ SetPerms(p, c, pl).kind = "set_perms" /\ SetPerms(p, c, pl).path = p
       /\ SetPerms(p, c, pl).cid = c /\ SetPerms(p, c, pl).perms = pl
  BY DEF Create, Read, GetChildren, Update, Del, SetPerms

(* The answer is that of every node the copies fit.                        *)
LEMMA AnswerFound ==
    ASSUME NEW t \in Tid, NEW p \in Path, Sound(db[p], t), NEW r, NEW n,
           LET o == Open(db[p], t)
           IN  /\ Fits(o, t, n)
               /\ r.kind = "children" /\ IsValid(o.te[t]) /\ HasReadAccess(r.cid, o.te[t].perms)
                     => Fits(FetchChildren(o, t), t, n)
    PROVE  Answer(Seen(db[p].te[t], n), r) = Answer(Found(t, p), r)
<1> DEFINE o == Open(db[p], t)
           k == FetchChildren(o, t)
           x == k.te[t]
           s == Seen(db[p].te[t], n)
           m == [exists |-> IsValid(x), value |-> x.value, perms |-> x.perms,
                 children |-> CurrentChildren(x)]
<1>1. Found(t, p) = m
  BY DEF Found
<1>2. /\ Sound(o, t) /\ Own(db[p], o, t) /\ Sound(k, t) /\ Touched(k, t)
      /\ IsValid(x) <=> IsValid(o.te[t])
      /\ x.perms = o.te[t].perms
      /\ s.exists <=> IsValid(o.te[t])
      /\ IsValid(o.te[t]) => s.value = x.value /\ s.perms = x.perms
      /\ Fits(k, t, n) /\ IsValid(o.te[t]) => s.children = CurrentChildren(x)
  BY OpenSees
<1>3. s \in Node
  <2>1. Fits(db[p], t, n)
    BY <1>2, FitsBefore DEF OwnAt, Sound
  <2> QED
    BY <2>1, SeenNode
<1>4. m \in Node
  <2>1. x \in Tentry
    BY <1>2, SoundCopy
  <2>2. CurrentChildren(x) \in SUBSET Name /\ IsValid(x) \in BOOLEAN
    BY <2>1 DEF CurrentChildren, Tentry, IsValid
  <2> QED
    BY <2>1, <2>2 DEF Node, Tentry
<1> HIDE DEF s, o, k, x
<1>5. /\ m.exists = IsValid(x) /\ m.value = x.value /\ m.perms = x.perms
      /\ m.children = CurrentChildren(x)
  OBVIOUS
<1> HIDE DEF m
<1>6. s.exists = m.exists
  BY <1>2, <1>3, <1>4, <1>5 DEF Node
<1>7. r.kind = "children" /\ s.exists /\ Permitted(s, r) => s.children = m.children
  BY <1>2, <1>5 DEF Permitted, o, k
<1> QED
  BY <1>1, <1>2, <1>3, <1>4, <1>5, <1>6, <1>7, AnswerSame DEF s

(* Transaction t serves request r on p as it would have been served in any *)
(* world that fits.                                                        *)
(* A step serves request r of transaction t on p: whatever fits afterwards *)
(* fitted before, r's answer there is the answer given, and what the       *)
(* transaction sees of it becomes what r makes of it.                      *)
Serves(t, p, r) ==
    /\ SoundDb(db', t) /\ Unlinked(db', t)
    /\ \A c : FitsDb(db', t, c) =>
          /\ FitsDb(db, t, c)
          /\ Answer(SeenDb(db, t, c)[p], r) = Answer(Found(t, p), r)
          /\ SeenDb(db', t, c) = After(SeenDb(db, t, c), r)

LEMMA ServesAt ==
    ASSUME NEW t \in Tid, SoundDb(db, t), Unlinked(db, t), NEW p \in Path, NEW r,
           NEW w, Sound(w, t), Own(db[p], w, t), SameLists(db[p].te[t], w.te[t]),
           db' = Becomes(db, p, w),
           \A n : Fits(w, t, n) =>
              /\ Seen(db[p].te[t], n).exists => Seen(w.te[t], n).exists
              /\ Answer(Seen(db[p].te[t], n), r) = Answer(Found(t, p), r)
              /\ \A c \in Tree : c[p] = Seen(db[p].te[t], n) =>
                    After(c, r) = Becomes(c, p, Seen(w.te[t], n))
    PROVE  Serves(t, p, r)
<1>1. /\ SoundDb(db', t) /\ Unlinked(db', t)
      /\ \A c : FitsDb(db', t, c) =>
            /\ FitsDb(db, t, c) /\ Fits(w, t, c[p])
            /\ SeenDb(db', t, c) = Becomes(SeenDb(db, t, c), p, Seen(w.te[t], c[p]))
  <2>1. \A n : Fits(w, t, n) /\ Seen(db[p].te[t], n).exists => Seen(w.te[t], n).exists
    OBVIOUS
  <2> QED
    BY <2>1, UpdateSees
<1>2. ASSUME NEW c, FitsDb(db', t, c)
      PROVE  /\ Answer(SeenDb(db, t, c)[p], r) = Answer(Found(t, p), r)
             /\ SeenDb(db', t, c) = After(SeenDb(db, t, c), r)
  <2>1. SeenDb(db, t, c) \in Tree
    BY <1>1, <1>2, SeenDbTree
  <2>2. SeenDb(db, t, c)[p] = Seen(db[p].te[t], c[p])
    BY DEF SeenDb
  <2> QED
    BY <1>1, <1>2, <2>1, <2>2
<1> QED
  BY <1>1, <1>2 DEF Serves

LEMMA TreeAt ==
    ASSUME NEW c \in Tree, NEW p \in Path
    PROVE  c = Becomes(c, p, c[p]) /\ c[p] \in Node
  BY DEF Tree, Becomes

(* read, get_perms and get_children change nothing.                        *)
LEMMA ReadServes ==
    ASSUME NEW t \in Tid, SoundDb(db, t), Unlinked(db, t), NEW p \in Path, TransRead(t, p)
    PROVE  Serves(t, p, Read(p))
<1> DEFINE o == Open(db[p], t)
           r == Read(p)
<1>1. /\ Sound(o, t) /\ Own(db[p], o, t) /\ SameLists(db[p].te[t], o.te[t])
      /\ \A n : Fits(o, t, n) => Seen(o.te[t], n) = Seen(db[p].te[t], n)
  BY OpenSees DEF SoundDb
<1>2. db' = Becomes(db, p, o)
  BY DEF TransRead, Becomes
<1>3. \A n : Fits(o, t, n) => Answer(Seen(db[p].te[t], n), r) = Answer(Found(t, p), r)
  BY AnswerFound, Requests DEF SoundDb
<1>4. \A c : After(c, r) = c
  BY Requests DEF After, Changed
<1> HIDE DEF o, r
<1>5. Serves(t, p, r)
  BY <1>1, <1>2, <1>3, <1>4, ServesAt, TreeAt
<1> QED
  BY <1>5 DEF r

LEMMA GetChildrenServes ==
    ASSUME NEW t \in Tid, SoundDb(db, t), Unlinked(db, t), NEW p \in Path, NEW cid \in Cid,
           TransGetChildren(t, p, cid)
    PROVE  Serves(t, p, GetChildren(p, cid))
<1> DEFINE o == Open(db[p], t)
           k == FetchChildren(o, t)
           granted == IsValid(o.te[t]) /\ HasReadAccess(cid, o.te[t].perms)
           w == IF granted THEN k ELSE o
           r == GetChildren(p, cid)
<1>1. /\ Sound(o, t) /\ Own(db[p], o, t) /\ SameLists(db[p].te[t], o.te[t])
      /\ Sound(k, t) /\ Own(db[p], k, t) /\ SameLists(db[p].te[t], k.te[t])
      /\ \A n : Fits(o, t, n) => Seen(o.te[t], n) = Seen(db[p].te[t], n)
      /\ \A n : Fits(k, t, n) => Fits(o, t, n) /\ Seen(k.te[t], n) = Seen(db[p].te[t], n)
  BY OpenSees DEF SoundDb
<1>2. db' = Becomes(db, p, w)
  BY DEF TransGetChildren, Becomes
<1>3. \A n : Fits(o, t, n) /\ (granted => Fits(k, t, n)) =>
                Answer(Seen(db[p].te[t], n), r) = Answer(Found(t, p), r)
  BY AnswerFound, Requests DEF SoundDb
<1>4. \A c : After(c, r) = c
  BY Requests DEF After, Changed
<1> HIDE DEF o, k, r, granted
<1>5. Serves(t, p, r)
  <2>1. Sound(w, t) /\ Own(db[p], w, t) /\ SameLists(db[p].te[t], w.te[t])
    BY <1>1
  <2>2. ASSUME NEW n, Fits(w, t, n)
        PROVE  /\ Seen(w.te[t], n) = Seen(db[p].te[t], n)
               /\ Answer(Seen(db[p].te[t], n), r) = Answer(Found(t, p), r)
    BY <1>1, <1>3, <2>2
  <2> HIDE DEF w
  <2> QED
    BY <1>2, <1>4, <2>1, <2>2, ServesAt, TreeAt
<1> QED
  BY <1>5 DEF r

LEMMA NodeExcept ==
    ASSUME NEW n \in Node
    PROVE  /\ \A v \in Value : [n EXCEPT !.value = v] =
                 [exists |-> n.exists, value |-> v, perms |-> n.perms, children |-> n.children]
           /\ \A pl \in PermList : [n EXCEPT !.perms = pl] =
                 [exists |-> n.exists, value |-> n.value, perms |-> pl, children |-> n.children]
           /\ n.exists => n.exists = TRUE
<1>1. n.exists => n.exists = TRUE
  BY DEF Node
<1>2. ASSUME NEW v \in Value
      PROVE  [n EXCEPT !.value = v] = [exists |-> n.exists, value |-> v, perms |-> n.perms,
                                       children |-> n.children]
  BY DEF Node
<1>3. ASSUME NEW pl \in PermList
      PROVE  [n EXCEPT !.perms = pl] = [exists |-> n.exists, value |-> n.value,
                                        perms |-> pl, children |-> n.children]
  BY DEF Node
<1> QED
  BY <1>1, <1>2, <1>3

LEMMA AfterWrite ==
    ASSUME NEW c \in Tree, NEW p \in Path, NEW r, r.path = p,
           c[p].exists, Permitted(c[p], r)
    PROVE  /\ r.kind = "update" /\ r.value \in Value =>
                 After(c, r) = Becomes(c, p, [exists |-> TRUE, value |-> r.value,
                                              perms |-> c[p].perms, children |-> c[p].children])
           /\ r.kind = "set_perms" /\ r.perms \in PermList =>
                 After(c, r) = Becomes(c, p, [exists |-> TRUE, value |-> c[p].value,
                                              perms |-> r.perms, children |-> c[p].children])
<1>1. c[p] \in Node /\ c[p].exists = TRUE
  BY DEF Tree, Node
<1>2. CASE r.kind = "update" /\ r.value \in Value
  <2>1. [c[p] EXCEPT !.value = r.value]
           = [exists |-> TRUE, value |-> r.value, perms |-> c[p].perms,
              children |-> c[p].children]
    BY <1>1, <1>2, NodeExcept
  <2>2. After(c, r) = Becomes(c, p, [c[p] EXCEPT !.value = r.value])
    BY <1>2 DEF After, Changed, Becomes
  <2> QED
    BY <1>2, <2>1, <2>2
<1>3. CASE r.kind = "set_perms" /\ r.perms \in PermList
  <2>1. [c[p] EXCEPT !.perms = r.perms]
           = [exists |-> TRUE, value |-> c[p].value, perms |-> r.perms,
              children |-> c[p].children]
    BY <1>1, <1>3, NodeExcept
  <2>2. After(c, r) = Becomes(c, p, [c[p] EXCEPT !.perms = r.perms])
    BY <1>3 DEF After, Changed, Becomes
  <2> QED
    BY <1>3, <2>1, <2>2
<1> QED
  BY <1>2, <1>3

LEMMA AfterKept ==
    ASSUME NEW c, NEW p, NEW r, r.path = p, r.kind # "create",
           IF c[p].exists THEN ~Permitted(c[p], r) ELSE r.kind # "update"
    PROVE  After(c, r) = c
  BY DEF After

(* The entry is there, and access was refused or the copy written.         *)
LEMMA WriteServes ==
    ASSUME NEW t \in Tid, SoundDb(db, t), Unlinked(db, t), NEW p \in Path,
           NEW r, r.path = p, r.kind \in {"update", "set_perms"},
           NEW v \in Value, NEW pl \in PermList,
           LET o == Open(db[p], t)
               granted == IsValid(o.te[t]) /\ HasWriteAccess(r.cid, o.te[t].perms)
           IN  /\ db' = Becomes(db, p, IF granted THEN TWrite(o, t, v, pl) ELSE o)
               /\ r.kind = "update" => r.value = v /\ pl = o.te[t].perms /\ IsValid(o.te[t])
               /\ r.kind = "set_perms" => r.perms = pl /\ v = o.te[t].value
    PROVE  Serves(t, p, r)
<1> DEFINE o == Open(db[p], t)
           granted == IsValid(o.te[t]) /\ HasWriteAccess(r.cid, o.te[t].perms)
           z == TWrite(o, t, v, pl)
           w == IF granted THEN z ELSE o
           s(n) == Seen(db[p].te[t], n)
           made(n) == [exists |-> TRUE, value |-> v, perms |-> pl, children |-> s(n).children]
<1>1. /\ Sound(o, t) /\ Touched(o, t) /\ Own(db[p], o, t) /\ Sound(db[p], t)
      /\ SameLists(db[p].te[t], o.te[t])
      /\ \A n : Fits(o, t, n) =>
            /\ Seen(o.te[t], n) = s(n) /\ (s(n).exists <=> IsValid(o.te[t]))
            /\ IsValid(o.te[t]) => s(n).value = o.te[t].value /\ s(n).perms = o.te[t].perms
  BY OpenSees DEF SoundDb
<1>2. \A n : Fits(o, t, n) => Answer(s(n), r) = Answer(Found(t, p), r)
  BY <1>1, AnswerFound
<1>3. db' = Becomes(db, p, w)
  OBVIOUS
<1>4. /\ r.kind = "update" => r.value = v /\ pl = o.te[t].perms /\ IsValid(o.te[t])
      /\ r.kind = "set_perms" => r.perms = pl /\ v = o.te[t].value
  OBVIOUS
<1> HIDE DEF o
<1>5. CASE granted
  <2>1. /\ Sound(z, t) /\ Touched(z, t) /\ Own(o, z, t) /\ IsValid(z.te[t])
        /\ \A n : Fits(z, t, n) =>
              Seen(z.te[t], n) = [exists |-> TRUE, value |-> v, perms |-> pl,
                                  children |-> Seen(o.te[t], n).children]
    BY <1>1, WriteSees
  <2>2. SameLists(db[p].te[t], z.te[t])
    BY <1>1, TWriteKeeps DEF SameLists, Sound
  <2>3. w = z
    BY <1>5
  <2> HIDE DEF z
  <2>4. Own(db[p], z, t)
    BY <1>1, <2>1, OwnThen DEF Sound, Whole
  <2>5. ASSUME NEW n, Fits(z, t, n)
        PROVE  /\ Fits(o, t, n) /\ s(n).exists /\ Seen(z.te[t], n) = made(n)
               /\ s(n).value = o.te[t].value /\ s(n).perms = o.te[t].perms
    <3>1. Fits(o, t, n)
      BY <1>1, <2>1, <2>5, FitsBefore DEF OwnAt, Sound
    <3> QED
      BY <1>1, <1>5, <2>1, <2>5, <3>1
  <2> HIDE DEF s
  <2>6. ASSUME NEW n, Fits(z, t, n), NEW c \in Tree, c[p] = s(n)
        PROVE  After(c, r) = Becomes(c, p, made(n))
    <3>1. Permitted(c[p], r)
      BY <1>5, <2>5, <2>6 DEF Permitted
    <3>2. c[p].exists
      BY <2>5, <2>6
    <3>3. CASE r.kind = "update"
      <4>1. After(c, r) = Becomes(c, p, [exists |-> TRUE, value |-> r.value,
                                         perms |-> c[p].perms, children |-> c[p].children])
        BY <1>4, <3>1, <3>2, <3>3, AfterWrite
      <4> QED
        BY <1>4, <2>5, <2>6, <3>3, <4>1
    <3>4. CASE r.kind = "set_perms"
      <4>1. After(c, r) = Becomes(c, p, [exists |-> TRUE, value |-> c[p].value,
                                         perms |-> r.perms, children |-> c[p].children])
        BY <1>4, <3>1, <3>2, <3>4, AfterWrite
      <4> QED
        BY <1>4, <2>5, <2>6, <3>4, <4>1
    <3> QED
      BY <3>3, <3>4
  <2>7. \A n : made(n).exists
    OBVIOUS
  <2> HIDE DEF made, w, granted
  <2> QED
    BY <1>2, <1>3, <2>1, <2>2, <2>3, <2>4, <2>5, <2>6, <2>7, ServesAt DEF s
<1>6. CASE ~granted
  <2>1. w = o
    BY <1>6
  <2>2. ASSUME NEW n, Fits(o, t, n), NEW c \in Tree, c[p] = s(n)
        PROVE  After(c, r) = Becomes(c, p, s(n))
    <3>1. c = Becomes(c, p, c[p])
      BY TreeAt
    <3>2. CASE c[p].exists
      <4>1. ~Permitted(c[p], r)
        BY <1>1, <1>6, <2>2, <3>2 DEF Permitted
      <4> QED
        <5>1. After(c, r) = c
          BY <3>2, <4>1, AfterKept
        <5> QED
          BY <2>2, <3>1, <5>1
    <3>3. CASE ~c[p].exists
      <4>1. r.kind = "set_perms"
        BY <1>1, <1>4, <2>2, <3>3
      <4> QED
        BY <2>2, <3>1, <3>3, <4>1, AfterKept
    <3> QED
      BY <3>2, <3>3
  <2> HIDE DEF w, granted, s
  <2> QED
    BY <1>1, <1>2, <1>3, <2>1, <2>2, ServesAt DEF s
<1> QED
  BY <1>5, <1>6

(* The entry is not there, and the branch is created.                      *)
LEMMA BranchServes ==
    ASSUME NEW t \in Tid, SoundDb(db, t), Unlinked(db, t), NEW p \in Path, NEW v \in Value,
           p \notin TValidPaths(db, t), db' = TCreateBranch(db, t, p, v),
           NEW r, r.path = p,
           \/ r.kind = "create" /\ v = EmptyValue
           \/ r.kind = "update" /\ v = r.value
    PROVE  Serves(t, p, r)
<1>1. /\ SoundDb(db', t)
      /\ \A c : FitsDb(db', t, c) => SeenDb(db', t, c) = WithBranch(SeenDb(db, t, c), p, v)
  BY TCreateBranchSees
<1>2. Unlinked(db', t)
  BY TCreateBranchUnlinked
<1>3. \A c : FitsDb(db', t, c) => FitsDb(db, t, c)
  BY TCreateBranchOwn, FitsDbBefore DEF SoundDb
<1>4. p \in Missing(TValidPaths(db, t), p)
  <2>1. p \in Chain(p) /\ \A s \in Chain(p) : Len(s) >= Len(p) => s = p
    <3>1. p \in Seq(Name) /\ Len(p) \in Nat /\ SubSeq(p, 1, Len(p)) = p
      BY PathAssumption
    <3>2. p \in Chain(p)
      <4>1. Len(p) \in 0 .. Len(p)
        BY <3>1
      <4> QED
        BY <3>1, <4>1 DEF Chain
    <3>3. ASSUME NEW s \in Chain(p), Len(s) >= Len(p)
          PROVE  s = p
      <4>1. Len(s) \in Nat /\ Len(s) <= Len(p) /\ s = SubSeq(p, 1, Len(s))
        BY ChainPaths
      <4>2. Len(s) = Len(p)
        <5>1. \A a, b \in Nat : a <= b /\ a >= b => a = b
          OBVIOUS
        <5> QED
          BY <3>1, <3>3, <4>1, <5>1, Zenon
      <4> QED
        BY <3>1, <4>1, <4>2
    <3> QED
      BY <3>2, <3>3
  <2> QED
    BY <2>1 DEF Missing
<1>5. \A c : FitsDb(db', t, c) => ~Seen(db[p].te[t], c[p]).exists
  BY <1>4, TCreateAt DEF FitsDb
<1>6. ~Found(t, p).exists
  <2>1. ~IsValid(GetTentry(db[p], t).te[t])
    BY DEF TValidPaths
  <2>2. ~IsValid(FetchChildren(Open(db[p], t), t).te[t])
    BY <2>1, OpenSees DEF SoundDb
  <2> QED
    BY <2>2 DEF Found
<1>7. \A n, m : ~n.exists /\ ~m.exists => Answer(n, r) = Answer(m, r)
  BY DEF Answer
<1>8. ASSUME NEW c, FitsDb(db', t, c)
      PROVE  /\ FitsDb(db, t, c)
             /\ Answer(SeenDb(db, t, c)[p], r) = Answer(Found(t, p), r)
             /\ SeenDb(db', t, c) = After(SeenDb(db, t, c), r)
  <2> DEFINE O == SeenDb(db, t, c)
  <2>1. ~O[p].exists
    BY <1>5, <1>8 DEF SeenDb
  <2>2. After(O, r) = WithBranch(O, p, v)
    BY <2>1 DEF After
  <2> QED
    BY <1>1, <1>3, <1>6, <1>7, <1>8, <2>1, <2>2
<1> QED
  BY <1>1, <1>2, <1>8 DEF Serves

LEMMA OpenValid ==
    ASSUME NEW t \in Tid, SoundDb(db, t), NEW p \in Path
    PROVE  p \in TValidPaths(db, t) <=> IsValid(Open(db[p], t).te[t])
  BY OpenSees DEF SoundDb, TValidPaths

LEMMA CreateServes ==
    ASSUME NEW t \in Tid, SoundDb(db, t), Unlinked(db, t), NEW p \in Path, TransCreate(t, p)
    PROVE  Serves(t, p, Create(p))
<1> DEFINE g == GetTentry(db[p], t)
           r == Create(p)
<1>1. CASE p \notin TValidPaths(db, t)
  BY <1>1, BranchServes, Requests, Constants DEF TransCreate
<1>2. CASE p \in TValidPaths(db, t)
  <2>1. /\ Sound(g, t) /\ Touched(g, t) /\ Own(db[p], g, t)
        /\ \A n : Fits(g, t, n) => Seen(g.te[t], n) = Seen(db[p].te[t], n)
    BY GetSees DEF SoundDb
  <2>2. SameLists(db[p].te[t], g.te[t])
    BY GetTentryKeeps DEF Kept, SoundDb, Sound
  <2>3. db' = Becomes(db, p, g)
    BY <1>2 DEF TransCreate, Becomes
  <2>4. IsValid(g.te[t])
    BY <1>2 DEF TValidPaths
  <2>5. Found(t, p).exists
    BY <2>4, OpenSees DEF SoundDb, Found
  <2>6. \A n : Fits(g, t, n) => Seen(db[p].te[t], n).exists
    BY <2>1, <2>4, SeenHeld
  <2>7. \A n, m : n.exists /\ m.exists => Answer(n, r) = Answer(m, r)
    BY Requests DEF Answer
  <2>8. \A c : c[p].exists => After(c, r) = c
    BY Requests DEF After
  <2>9. r.path = p
    BY Requests
  <2> HIDE DEF g, r
  <2>10. Serves(t, p, r)
    BY <2>1, <2>2, <2>3, <2>5, <2>6, <2>7, <2>8, <2>9, ServesAt, TreeAt
  <2> QED
    BY <2>10 DEF r
<1> QED
  BY <1>1, <1>2

LEMMA UpdateServes ==
    ASSUME NEW t \in Tid, SoundDb(db, t), Unlinked(db, t), NEW p \in Path, NEW cid \in Cid,
           NEW v \in Value, TransUpdate(t, p, cid, v)
    PROVE  Serves(t, p, Update(p, cid, v))
<1> DEFINE o == Open(db[p], t)
           r == Update(p, cid, v)
<1>1. r.path = p /\ r.kind = "update" /\ r.cid = cid /\ r.value = v
  BY Requests
<1>2. CASE ~IsValid(o.te[t])
  <2>1. db' = TCreateBranch(db, t, p, v) /\ p \notin TValidPaths(db, t)
    BY <1>2, OpenValid DEF TransUpdate
  <2> HIDE DEF r
  <2>2. Serves(t, p, r)
    BY <1>1, <2>1, BranchServes
  <2> QED
    BY <2>2 DEF r
<1>3. CASE IsValid(o.te[t])
  <2>1. db' = Becomes(db, p, IF IsValid(o.te[t]) /\ HasWriteAccess(r.cid, o.te[t].perms)
                             THEN TWrite(o, t, v, o.te[t].perms) ELSE o)
    BY <1>1, <1>3 DEF TransUpdate, Becomes
  <2>2. o.te[t].perms \in PermList
    BY OpenSees, SoundCopy DEF SoundDb, Tentry
  <2> HIDE DEF r
  <2>3. Serves(t, p, r)
    BY <1>1, <1>3, <2>1, <2>2, WriteServes
  <2> QED
    BY <2>3 DEF r
<1> QED
  BY <1>2, <1>3

LEMMA SetPermsServes ==
    ASSUME NEW t \in Tid, SoundDb(db, t), Unlinked(db, t), NEW p \in Path, NEW cid \in Cid,
           NEW pl \in PermLists, TransSetPerms(t, p, cid, pl)
    PROVE  Serves(t, p, SetPerms(p, cid, pl))
<1> DEFINE o == Open(db[p], t)
           r == SetPerms(p, cid, pl)
<1>1. r.path = p /\ r.kind = "set_perms" /\ r.cid = cid /\ r.perms = pl
  BY Requests
<1>2. db' = Becomes(db, p, IF IsValid(o.te[t]) /\ HasWriteAccess(r.cid, o.te[t].perms)
                           THEN TWrite(o, t, o.te[t].value, pl) ELSE o)
  BY <1>1 DEF TransSetPerms, Becomes
<1>3. o.te[t].value \in Value /\ pl \in PermList
  BY OpenSees, SoundCopy, Constants DEF SoundDb, Tentry
<1> HIDE DEF r
<1>4. Serves(t, p, r)
  BY <1>1, <1>2, <1>3, WriteServes
<1> QED
  BY <1>4 DEF r

LEMMA DelServes ==
    ASSUME NEW t \in Tid, SoundDb(db, t), Listed(db), Shape(db, t), Unlinked(db, t),
           NEW p \in Path, NEW cid \in Cid, TransDel(t, p, cid)
    PROVE  Serves(t, p, Del(p, cid))
<1> DEFINE o == Open(db[p], t)
           k == FetchChildren(o, t)
           r == Del(p, cid)
           granted == IsValid(o.te[t]) /\ HasWriteAccess(cid, o.te[t].perms)
           s(n) == Seen(db[p].te[t], n)
<1>1. r.path = p /\ r.kind = "del" /\ r.cid = cid
  BY Requests
<1>2. /\ Sound(o, t) /\ Own(db[p], o, t) /\ SameLists(db[p].te[t], o.te[t])
      /\ IsValid(o.te[t]) => k = Opened(db[p], t)
      /\ \A n : Fits(o, t, n) =>
            /\ Seen(o.te[t], n) = s(n) /\ (s(n).exists <=> IsValid(o.te[t]))
            /\ IsValid(o.te[t]) => s(n).perms = o.te[t].perms
      /\ \A n : Fits(k, t, n) => Fits(o, t, n)
  BY OpenSees DEF SoundDb
<1>3. \A n : Fits(o, t, n) => Answer(s(n), r) = Answer(Found(t, p), r)
  BY <1>1, AnswerFound DEF SoundDb
<1> HIDE DEF r, o, k
<1>4. CASE granted
  <2>1. db' = TDeleteBranch(db, t, p) /\ p \in TValidPaths(db, t)
    BY <1>4, OpenValid DEF TransDel, o
  <2>2. /\ SoundDb(db', t)
        /\ \A c : FitsDb(db', t, c) => SeenDb(db', t, c) = WithoutBranch(SeenDb(db, t, c), p)
    BY <2>1, TDeleteBranchSees
  <2>3. Unlinked(db', t)
    BY <2>1, TDeleteBranchUnlinked
  <2>4. \A c : FitsDb(db', t, c) => FitsDb(db, t, c)
    BY <2>1, TDeleteBranchOwn, FitsDbBefore DEF SoundDb
  <2>5. ASSUME NEW c, FitsDb(db', t, c)
        PROVE  Fits(o, t, c[p])
    <3>1. p \in Subtree(TKids(db, t), p)
      BY SubtreeRoot
    <3>2. Fits(db'[p], t, c[p])
      BY <2>5 DEF FitsDb
    <3>3. Fits(Opened(db[p], t), t, c[p])
      BY <2>1, <3>1, <3>2, TDeleteAt
    <3> QED
      BY <1>2, <1>4, <3>3
  <2> HIDE DEF s
  <2>6. ASSUME NEW c, FitsDb(db', t, c)
        PROVE  /\ Answer(SeenDb(db, t, c)[p], r) = Answer(Found(t, p), r)
               /\ SeenDb(db', t, c) = After(SeenDb(db, t, c), r)
    <3> DEFINE O == SeenDb(db, t, c)
    <3>1. O[p] = s(c[p]) /\ Fits(o, t, c[p])
      BY <2>5, <2>6 DEF SeenDb, s
    <3>2. O[p].exists /\ Permitted(O[p], r)
      BY <1>1, <1>2, <1>4, <3>1 DEF Permitted
    <3>3. After(O, r) = WithoutBranch(O, p)
      BY <1>1, <3>2 DEF After, Changed
    <3> QED
      BY <1>3, <2>2, <2>6, <3>1, <3>3
  <2> QED
    BY <2>2, <2>3, <2>4, <2>6 DEF Serves, r
<1>5. CASE ~granted
  <2>1. db' = Becomes(db, p, o)
    BY <1>5 DEF TransDel, Becomes, o
  <2>2. ASSUME NEW n, Fits(o, t, n), NEW c \in Tree, c[p] = s(n)
        PROVE  After(c, r) = Becomes(c, p, Seen(o.te[t], n))
    <3>1. c = Becomes(c, p, c[p])
      BY TreeAt
    <3>2. c[p].exists => ~Permitted(c[p], r)
      BY <1>1, <1>2, <1>5, <2>2 DEF Permitted
    <3>3. After(c, r) = c
      BY <1>1, <3>2 DEF After
    <3> QED
      BY <1>2, <2>2, <3>1, <3>3
  <2> HIDE DEF s, granted
  <2>3. Serves(t, p, r)
    BY <1>1, <1>2, <1>3, <2>1, <2>2, ServesAt DEF s
  <2> QED
    BY <2>3 DEF r
<1> QED
  BY <1>4, <1>5

(* Whatever a transaction does, it serves a request.                       *)
LEMMA InsideServes ==
    ASSUME NEW t \in Tid, SoundDb(db, t), Listed(db), Shape(db, t), Unlinked(db, t),
           NEW p \in Path, InsideNext(t, p)
    PROVE  \E r \in Request : r.path = p /\ Serves(t, p, r) /\ Asked(t, r)
<1>1. CASE TransCreate(t, p) /\ Asked(t, Create(p))
  BY <1>1, CreateServes, Requests DEF Request
<1>2. CASE TransRead(t, p) /\ Asked(t, Read(p))
  BY <1>2, ReadServes, Requests DEF Request
<1>3. ASSUME NEW c \in Cid, TransGetChildren(t, p, c), Asked(t, GetChildren(p, c))
      PROVE  \E r \in Request : r.path = p /\ Serves(t, p, r) /\ Asked(t, r)
  BY <1>3, GetChildrenServes, Requests DEF Request
<1>4. ASSUME NEW c \in Cid, TransDel(t, p, c), Asked(t, Del(p, c))
      PROVE  \E r \in Request : r.path = p /\ Serves(t, p, r) /\ Asked(t, r)
  BY <1>4, DelServes, Requests DEF Request
<1>5. ASSUME NEW c \in Cid, NEW v \in Value,
             TransUpdate(t, p, c, v), Asked(t, Update(p, c, v))
      PROVE  \E r \in Request : r.path = p /\ Serves(t, p, r) /\ Asked(t, r)
  BY <1>5, UpdateServes, Requests DEF Request
<1>6. ASSUME NEW c \in Cid, NEW pl \in PermLists,
             TransSetPerms(t, p, c, pl), Asked(t, SetPerms(p, c, pl))
      PROVE  \E r \in Request : r.path = p /\ Serves(t, p, r) /\ Asked(t, r)
  BY <1>6, SetPermsServes, Requests DEF Request
<1> QED
  BY <1>1, <1>2, <1>3, <1>4, <1>5, <1>6 DEF InsideNext

LEMMA InsideTrans ==
    ASSUME NEW t, NEW p \in Path, InsideNext(t, p)
    PROVE  TransNext(t)
  BY DEF InsideNext, TransNext, TransWriteNext

-----------------------------------------------------------------------------
(* Operations outside transactions.                                        *)

LEMMA VisibleNodes ==
    ASSUME NEW d, WholeDb(d)
    PROVE  /\ Visible(d) = [q \in Path |-> NodeOf(d[q].e)]
           /\ Visible(d) \in Tree
           /\ \A q \in Path : /\ Visible(d)[q].exists <=> IsValid(d[q].e)
                              /\ Visible(d)[q].children = d[q].e.children
                              /\ IsValid(d[q].e) => /\ Visible(d)[q].value = d[q].e.value
                                                    /\ Visible(d)[q].perms = d[q].e.perms
           /\ Existing(Visible(d)) = ValidPaths(d)
<1>1. ASSUME NEW q \in Path
      PROVE  /\ Visible(d)[q] = NodeOf(d[q].e) /\ NodeOf(d[q].e) \in Node
             /\ NodeOf(d[q].e).exists \/ NodeOf(d[q].e) = Absent
             /\ NodeOf(d[q].e).exists <=> IsValid(d[q].e)
             /\ NodeOf(d[q].e).children = d[q].e.children
             /\ IsValid(d[q].e) => /\ NodeOf(d[q].e).value = d[q].e.value
                                   /\ NodeOf(d[q].e).perms = d[q].e.perms
  <2>1. d[q].e \in Entry /\ RecordSound(d[q])
    BY WholeDbRecords DEF Good
  <2>2. CASE IsValid(d[q].e)
    <3>1. Visible(d)[q] = [exists |-> TRUE, value |-> d[q].e.value, perms |-> d[q].e.perms,
                           children |-> d[q].e.children]
      BY <2>2 DEF Visible
    <3> QED
      BY <2>1, <2>2, <3>1 DEF NodeOf, Entry, Node
  <2>3. CASE ~IsValid(d[q].e)
    <3>1. Visible(d)[q] = Absent
      <4>1. IsValid(d[q].e) = FALSE
        BY <2>3 DEF IsValid
      <4>2. Visible(d)[q] = [exists |-> FALSE, value |-> EmptyValue, perms |-> <<>>,
                             children |-> {}]
        BY <4>1 DEF Visible
      <4> QED
        BY <4>2 DEF Absent
    <3> QED
      BY <2>1, <2>3, <3>1, Nodes DEF NodeOf, RecordSound
  <2> QED
    BY <2>2, <2>3
<1>2. Visible(d) = [q \in Path |-> Visible(d)[q]]
  BY DEF Visible
<1> QED
  BY <1>1, <1>2 DEF Existing, ValidPaths, Tree

LEMMA WriteEntryNode ==
    ASSUME NEW r, Good(r), NEW v \in Value, NEW pl \in PermList
    PROVE  NodeOf(WriteEntry(r, v, pl).e)
              = [exists |-> TRUE, value |-> v, perms |-> pl, children |-> NodeOf(r.e).children]
<1>1. r \in Record /\ r.e \in Entry /\ RecordSound(r)
  BY Types DEF Good
<1>2. NodeOf(r.e).children = r.e.children
  BY <1>1, Nodes DEF NodeOf, RecordSound
<1> DEFINE x == WriteEntry(r, v, pl).e
<1>3. IsValid(x) /\ x.children = r.e.children
  BY WriteEntryGood
<1>4. x.value = v /\ x.perms = pl
  BY <1>1 DEF WriteEntry, Record, Entry
<1> HIDE DEF x
<1>5. NodeOf(x) = [exists |-> TRUE, value |-> v, perms |-> pl, children |-> NodeOf(r.e).children]
  BY <1>2, <1>3, <1>4 DEF NodeOf
<1> QED
  BY <1>5 DEF x

LEMMA SetChildrenNode ==
    ASSUME NEW r, Good(r), IsValid(r.e), NEW cs
    PROVE  NodeOf(SetChildren(r, cs).e) = Listing(NodeOf(r.e), cs)
<1> DEFINE x == SetChildren(r, cs).e
<1>1. r \in Record /\ r.e \in Entry
  BY Types
<1>2. /\ x.children = cs /\ x.value = r.e.value /\ x.perms = r.e.perms
      /\ x.write_seq = r.e.write_seq /\ x.delete_seq = r.e.delete_seq
  BY <1>1 DEF SetChildren, Record, Entry
<1> HIDE DEF x
<1>3. NodeOf(x) = Listing(NodeOf(r.e), cs)
  BY <1>2 DEF NodeOf, IsValid, Listing
<1> QED
  BY <1>3 DEF x

LEMMA RemoveChildrenNode ==
    ASSUME NEW r, Good(r), NEW cs \in SUBSET Name
    PROVE  NodeOf(RemoveChildren(r, cs).e) = Listing(NodeOf(r.e), NodeOf(r.e).children \ cs)
<1> DEFINE x == RemoveChildren(r, cs).e
<1>1. /\ x.children = r.e.children \ cs
      /\ x.write_seq = r.e.write_seq /\ x.delete_seq = r.e.delete_seq
  BY RemoveChildrenEntry
<1>2. x.value = r.e.value /\ x.perms = r.e.perms
  <2>1. r \in Record /\ r.e \in Entry
    BY Types
  <2> QED
    BY <2>1 DEF RemoveChildren, Record, Entry
<1> HIDE DEF x
<1>3. CASE IsValid(r.e)
  <2>1. NodeOf(x) = [exists |-> TRUE, value |-> r.e.value, perms |-> r.e.perms,
                     children |-> r.e.children \ cs]
    BY <1>1, <1>2, <1>3 DEF NodeOf, IsValid
  <2>2. NodeOf(r.e) = [exists |-> TRUE, value |-> r.e.value, perms |-> r.e.perms,
                       children |-> r.e.children]
    BY <1>3 DEF NodeOf
  <2>3. Listing(NodeOf(r.e), NodeOf(r.e).children \ cs)
           = [exists |-> TRUE, value |-> r.e.value, perms |-> r.e.perms,
              children |-> r.e.children \ cs]
    BY <2>2 DEF Listing
  <2> QED
    BY <2>1, <2>3 DEF x
<1>4. CASE ~IsValid(r.e)
  <2>1. NodeOf(x) = Absent /\ NodeOf(r.e) = Absent
    BY <1>1, <1>4 DEF NodeOf, IsValid
  <2> QED
    BY <2>1, ListingNode DEF x
<1> QED
  BY <1>3, <1>4

LEMMA CreateBranchVisible ==
    ASSUME NEW d, WholeDb(d), NEW p \in Path, NEW v \in Value
    PROVE  \A q \in Path : NodeOf(CreateBranch(d, p, v)[q].e) = WithBranch(Visible(d), p, v)[q]
<1> DEFINE V == ValidPaths(d)
           O == Visible(d)
           es == [q \in Path |-> d[q].e.perms]
           os == [q \in Path |-> O[q].perms]
           pl == InheritedPerms(V, p, es)
           pm == InheritedPerms(Existing(O), p, os)
<1>1. /\ O \in Tree /\ Existing(O) = V /\ O = [q \in Path |-> NodeOf(d[q].e)]
      /\ \A q \in Path : /\ O[q].exists <=> IsValid(d[q].e)
                         /\ IsValid(d[q].e) => O[q].perms = d[q].e.perms
  BY VisibleNodes
<1>2. pm \in PermList /\ WithBranch(O, p, v) = [q \in Path |-> Branching(O[q], Existing(O), p, q, v, pm)]
  BY <1>1, WithBranchAt
<1>3. pl = pm
  <2>1. ASSUME NEW q \in Registrars(V, p) \ Missing(V, p)
        PROVE  es[q] = os[q]
    BY <1>1, RegistrarsExist DEF ValidPaths
  <2>2. Existing(O) = V
    BY <1>1
  <2> HIDE DEF V, es, os, O
  <2>3. /\ Missing(Existing(O), p) = Missing(V, p)
        /\ Registrars(Existing(O), p) = Registrars(V, p)
    BY <2>2
  <2> QED
    BY <2>1, <2>3, SameInherited
<1> HIDE DEF pm, O
<1>4. ASSUME NEW q \in Path
      PROVE  NodeOf(CreateBranch(d, p, v)[q].e) = Branching(O[q], V, p, q, v, pm)
  <2> DEFINE val == IF q = p THEN v ELSE EmptyValue
             r == d[q]
             w == IF q \in Missing(V, p) THEN WriteEntry(r, val, pm) ELSE r
             new == IF q \in Registrars(V, p) THEN AddChild(w, Step(q, p)) ELSE w
             m == IF q \in Missing(V, p) THEN Made(val, pm) ELSE O[q]
  <2>1. CreateBranch(d, p, v)[q] = new
    BY <1>3 DEF CreateBranch
  <2>2. Branching(O[q], V, p, q, v, pm)
           = IF q \in Registrars(V, p) THEN Listing(m, m.children \cup {Step(q, p)}) ELSE m
    BY DEF Branching
  <2>3. Good(r) /\ O[q] = NodeOf(r.e) /\ val \in Value
    BY <1>1, WholeDbRecords, Constants
  <2>4. q \in Missing(V, p) => ~IsValid(r.e)
    BY MissingRegistered DEF ValidPaths
  <2>5. q \in Registrars(V, p) => q \in Missing(V, p) \/ IsValid(r.e)
    BY RegistrarsExist DEF ValidPaths
  <2> HIDE DEF V, r, val
  <2>6. Good(w) /\ NodeOf(w.e) = m /\ (q \in Registrars(V, p) => IsValid(w.e))
    <3>1. CASE q \in Missing(V, p)
      <4>1. NodeOf(r.e) = Absent
        BY <2>4, <3>1 DEF NodeOf
      <4>2. NodeOf(WriteEntry(r, val, pm).e) = Made(val, pm)
        BY <1>2, <2>3, <4>1, WriteEntryNode, Nodes DEF Made
      <4> QED
        BY <1>2, <2>3, <3>1, <4>2, WriteEntryGood
    <3>2. CASE q \notin Missing(V, p)
      BY <2>3, <2>5, <3>2
    <3> QED
      BY <3>1, <3>2
  <2> HIDE DEF w, m
  <2>7. CASE q \in Registrars(V, p)
    <3>1. NodeOf(w.e).children = w.e.children
      BY <2>6, <2>7 DEF NodeOf
    <3>2. NodeOf(AddChild(w, Step(q, p)).e) = Listing(m, m.children \cup {Step(q, p)})
      BY <2>6, <2>7, <3>1, SetChildrenNode DEF AddChild
    <3> QED
      BY <2>1, <2>2, <2>7, <3>2
  <2>8. CASE q \notin Registrars(V, p)
    BY <2>1, <2>2, <2>6, <2>8
  <2> QED
    BY <2>7, <2>8
<1> QED
  BY <1>1, <1>2, <1>4 DEF O

LEMMA DeleteBranchVisible ==
    ASSUME NEW d, WholeDb(d), NEW p \in Path
    PROVE  \A q \in Path : NodeOf(DeleteBranch(d, p)[q].e) = WithoutBranch(Visible(d), p)[q]
<1> DEFINE O == Visible(d)
           kids == [q \in Path |-> d[q].e.children]
           lists == [q \in Path |-> O[q].children]
           gone == Subtree(kids, p)
<1>1. /\ O \in Tree /\ O = [q \in Path |-> NodeOf(d[q].e)]
      /\ \A q \in Path : O[q].children = d[q].e.children
  BY VisibleNodes
<1>2. lists = kids
  BY <1>1
<1>3. \A q \in Path : WithoutBranch(O, p)[q]
                         = IF q \in Subtree(lists, p) THEN Absent
                           ELSE IF p # <<>> /\ q = Parent(p)
                           THEN Listing(O[q], O[q].children \ {Base(p)}) ELSE O[q]
  <2>1. WithoutBranch(O, p)
           = [q \in Path |-> IF q \in Subtree([s \in Path |-> O[s].children], p) THEN Absent
                             ELSE IF p # <<>> /\ q = Parent(p)
                             THEN Listing(O[q], O[q].children \ {Base(p)}) ELSE O[q]]
    BY <1>1, WithoutBranchAt
  <2> HIDE DEF O
  <2> QED
    BY <2>1
<1> SUFFICES ASSUME NEW q \in Path
             PROVE  NodeOf(DeleteBranch(d, p)[q].e) = WithoutBranch(O, p)[q]
  OBVIOUS
<1> DEFINE r == d[q]
           a == RemoveChildren(r, kids[q])
<1>4. DeleteBranch(d, p)[q] = IF q \in gone THEN MarkDeleted(a)
                              ELSE IF p # <<>> /\ q = Parent(p) THEN RemoveChildren(r, {Base(p)})
                              ELSE r
  BY DEF DeleteBranch
<1>5. Good(r) /\ O[q] = NodeOf(r.e) /\ kids[q] = r.e.children /\ kids[q] \in SUBSET Name
  BY <1>1, WholeDbRecords DEF Entry
<1> HIDE DEF O, kids, lists, r
<1>6. CASE q \in gone
  <2>1. Good(a) /\ a.e.children = {}
    BY <1>5, RemoveChildrenGood
  <2> HIDE DEF a
  <2>2. NodeOf(MarkDeleted(a).e) = Absent
    BY <2>1, MarkDeletedEntry DEF NodeOf
  <2> QED
    BY <1>2, <1>3, <1>4, <1>6, <2>2
<1>7. CASE q \notin gone /\ p # <<>> /\ q = Parent(p)
  <2>1. {Base(p)} \in SUBSET Name
    BY <1>7, Splits
  <2>2. NodeOf(RemoveChildren(r, {Base(p)}).e) = Listing(NodeOf(r.e), NodeOf(r.e).children \ {Base(p)})
    BY <1>5, <2>1, RemoveChildrenNode
  <2> QED
    BY <1>2, <1>3, <1>4, <1>5, <1>7, <2>2
<1>8. CASE q \notin gone /\ ~(p # <<>> /\ q = Parent(p))
  BY <1>2, <1>3, <1>4, <1>5, <1>8
<1> QED
  BY <1>6, <1>7, <1>8

(* Two functions on the paths.                                             *)
LEMMA VisibleIs ==
    ASSUME NEW d, WholeDb(d), NEW c \in Tree, \A q \in Path : NodeOf(d[q].e) = c[q]
    PROVE  Visible(d) = c
<1>1. Visible(d) = [q \in Path |-> NodeOf(d[q].e)]
  BY VisibleNodes
<1>2. c = [q \in Path |-> c[q]]
  BY DEF Tree
<1> QED
  BY <1>1, <1>2

LEMMA VisibleUpdate ==
    ASSUME NEW d, WholeDb(d), NEW p \in Path, NEW w, NEW f, WholeDb(f), f = Becomes(d, p, w)
    PROVE  Visible(f) = Becomes(Visible(d), p, NodeOf(w.e))
<1>1. \A q \in Path : f[q] = IF q = p THEN w ELSE d[q]
  BY UpdateAt DEF Becomes
<1>2. Visible(d) = [q \in Path |-> NodeOf(d[q].e)]
  BY VisibleNodes
<1>3. Visible(f) = [q \in Path |-> NodeOf(f[q].e)]
  BY VisibleNodes
<1> QED
  BY <1>1, <1>2, <1>3 DEF Becomes

LEMMA BranchFunctions ==
    \A c, p :
       /\ WithoutBranch(c, p) = [q \in Path |-> WithoutBranch(c, p)[q]]
       /\ \A v : WithBranch(c, p, v) = [q \in Path |-> WithBranch(c, p, v)[q]]
  BY DEF WithBranch, WithoutBranch

LEMMA OutsideServes ==
    ASSUME WholeDb(db), WholeDb(db'), SimpleNext
    PROVE  \E r \in Request : Visible(db') = After(Visible(db), r)
<1> DEFINE O == Visible(db)
           N == Visible(db')
<1>0. O \in Tree
  BY VisibleNodes
<1>1. /\ O \in Tree /\ O = [q \in Path |-> NodeOf(db[q].e)]
      /\ \A q \in Path : /\ O[q].exists <=> IsValid(db[q].e)
                         /\ IsValid(db[q].e) => /\ O[q].value = db[q].e.value
                                                /\ O[q].perms = db[q].e.perms
  BY VisibleNodes
<1>2. N = [q \in Path |-> NodeOf(db'[q].e)]
  BY VisibleNodes
<1>3. \A q \in Path : NodeOf(db[q].e) = O[q] /\ Good(db[q]) /\ db[q].e \in Entry
  BY <1>1, WholeDbRecords
<1> HIDE DEF O, N
<1>4. ASSUME NEW p \in Path, NEW v \in Value, db' = CreateBranch(db, p, v)
      PROVE  N = WithBranch(O, p, v)
  <2>1. \A q \in Path : NodeOf(db'[q].e) = WithBranch(O, p, v)[q]
    BY <1>4, CreateBranchVisible DEF O
  <2> QED
    BY <1>2, <2>1, BranchFunctions
<1>5. ASSUME NEW p \in Path, SimpleCreate(p)
      PROVE  N = After(O, Create(p)) /\ Create(p) \in Request
  <2>1. N = WithBranch(O, p, EmptyValue) /\ ~O[p].exists
    BY <1>1, <1>4, <1>5, Constants DEF SimpleCreate
  <2> QED
    BY <2>1, Requests DEF After, Request
<1>6. ASSUME NEW p \in Path, NEW c \in Cid, NEW v \in Value, SimpleUpdate(c, p, v)
      PROVE  N = After(O, Update(p, c, v)) /\ Update(p, c, v) \in Request
  <2> DEFINE r == Update(p, c, v)
  <2>1. r.path = p /\ r.kind = "update" /\ r.cid = c /\ r.value = v /\ r \in Request
    BY Requests DEF Request
  <2> HIDE DEF r
  <2>2. CASE ~IsValid(db[p].e)
    <3>1. N = WithBranch(O, p, v) /\ ~O[p].exists
      BY <1>1, <1>4, <1>6, <2>2 DEF SimpleUpdate
    <3>2. N = After(O, r)
      BY <2>1, <3>1 DEF After
    <3> QED
      BY <2>1, <3>2 DEF r
  <2>3. CASE IsValid(db[p].e)
    <3> DEFINE w == WriteEntry(db[p], v, db[p].e.perms)
    <3>1. db' = [db EXCEPT ![p] = w] /\ HasWriteAccess(c, db[p].e.perms)
      BY <1>6, <2>3 DEF SimpleUpdate
    <3>2. NodeOf(w.e) = [exists |-> TRUE, value |-> v, perms |-> O[p].perms,
                         children |-> O[p].children]
      <4>1. db[p].e.perms \in PermList
        BY <1>3 DEF Entry
      <4> QED
        BY <1>1, <1>3, <2>3, <4>1, WriteEntryNode
    <3> HIDE DEF w
    <3>3. N = Becomes(O, p, NodeOf(w.e))
      <4>1. db' = Becomes(db, p, w)
        BY <3>1 DEF Becomes
      <4> QED
        BY <4>1, VisibleUpdate DEF O, N
    <3>4. O[p].exists /\ Permitted(O[p], r)
      BY <1>1, <2>1, <2>3, <3>1 DEF Permitted
    <3>5. After(O, r) = Becomes(O, p, [exists |-> TRUE, value |-> r.value,
                                       perms |-> O[p].perms, children |-> O[p].children])
      BY <1>0, <2>1, <3>4, AfterWrite
    <3>6. N = After(O, r)
      BY <2>1, <3>2, <3>3, <3>5
    <3> QED
      BY <2>1, <3>6 DEF r
  <2> QED
    BY <2>2, <2>3
<1>7. ASSUME NEW p \in Path, NEW c \in Cid, SimpleDel(c, p)
      PROVE  N = After(O, Del(p, c)) /\ Del(p, c) \in Request
  <2> DEFINE r == Del(p, c)
  <2>1. r.path = p /\ r.kind = "del" /\ r.cid = c /\ r \in Request
    BY Requests DEF Request
  <2> HIDE DEF r
  <2>2. N = WithoutBranch(O, p)
    <3>1. \A q \in Path : NodeOf(db'[q].e) = WithoutBranch(O, p)[q]
      BY <1>7, DeleteBranchVisible DEF O, SimpleDel
    <3> QED
      BY <1>2, <3>1, BranchFunctions
  <2>3. O[p].exists /\ Permitted(O[p], r)
    BY <1>1, <1>7, <2>1 DEF Permitted, SimpleDel
  <2>4. N = After(O, r)
    BY <2>1, <2>2, <2>3 DEF After, Changed
  <2> QED
    BY <2>1, <2>4 DEF r
<1>8. ASSUME NEW p \in Path, NEW c \in Cid, NEW pl \in PermLists, SimpleSetPerms(c, p, pl)
      PROVE  N = After(O, SetPerms(p, c, pl)) /\ SetPerms(p, c, pl) \in Request
  <2> DEFINE r == SetPerms(p, c, pl)
             w == WriteEntry(db[p], db[p].e.value, pl)
  <2>1. /\ r.path = p /\ r.kind = "set_perms" /\ r.cid = c /\ r.perms = pl /\ r \in Request
        /\ pl \in PermList
    BY Requests, Constants DEF Request
  <2> HIDE DEF r
  <2>2. db' = [db EXCEPT ![p] = w] /\ HasWriteAccess(c, db[p].e.perms) /\ IsValid(db[p].e)
    BY <1>8 DEF SimpleSetPerms
  <2>3. NodeOf(w.e) = [exists |-> TRUE, value |-> O[p].value, perms |-> pl,
                       children |-> O[p].children]
    <3>1. db[p].e.value \in Value
      BY <1>3 DEF Entry
    <3> QED
      BY <1>1, <1>3, <2>1, <2>2, <3>1, WriteEntryNode
  <2> HIDE DEF w
  <2>4. N = Becomes(O, p, NodeOf(w.e))
    <3>1. db' = Becomes(db, p, w)
      BY <2>2 DEF Becomes
    <3> QED
      BY <3>1, VisibleUpdate DEF O, N
  <2>5. O[p].exists /\ Permitted(O[p], r)
    BY <1>1, <2>1, <2>2 DEF Permitted
  <2>6. After(O, r) = Becomes(O, p, [exists |-> TRUE, value |-> O[p].value,
                                     perms |-> r.perms, children |-> O[p].children])
    BY <1>0, <2>1, <2>5, AfterWrite
  <2>7. N = After(O, r)
    BY <2>1, <2>3, <2>4, <2>6
  <2> QED
    BY <2>1, <2>7 DEF r
<1> QED
  BY <1>5, <1>6, <1>7, <1>8 DEF SimpleNext, O, N

-----------------------------------------------------------------------------
(* Commits.                                                                *)

(* The data of an entry after Commit, DropTentry and Cleanup.              *)
LEMMA CommitData ==
    ASSUME NEW r, Good(r), NEW t \in Tid
    PROVE  LET te == r.te[t]
               x == Commit(r, t).e
           IN  /\ x.value = (IF WroteData(te) THEN te.value ELSE r.e.value)
               /\ x.perms = (IF WroteData(te) THEN te.perms ELSE r.e.perms)
<1> DEFINE te == r.te[t]
           w == IF WroteData(te) THEN WriteEntry(r, te.value, te.perms) ELSE r
           cs == (r.e.children \cup te.children_add) \ te.children_rem
<1>1. r \in Record /\ r.e \in Entry /\ te \in Tentry
  BY Types
<1>2. /\ w.e \in Entry /\ Good(w)
      /\ w.e.value = (IF WroteData(te) THEN te.value ELSE r.e.value)
      /\ w.e.perms = (IF WroteData(te) THEN te.perms ELSE r.e.perms)
  <2>1. te.value \in Value /\ te.perms \in PermList
    BY <1>1 DEF Tentry
  <2>2. CASE WroteData(te)
    <3>1. Good(WriteEntry(r, te.value, te.perms))
      BY <2>1, WriteEntryGood
    <3>2. /\ WriteEntry(r, te.value, te.perms).e.value = te.value
          /\ WriteEntry(r, te.value, te.perms).e.perms = te.perms
      BY <1>1 DEF WriteEntry, Record, Entry
    <3> QED
      BY <2>2, <3>1, <3>2, Types
  <2>3. CASE ~WroteData(te)
    BY <1>1, <2>3
  <2> QED
    BY <2>2, <2>3
<1>3. \/ Commit(r, t) = SetChildren(w, cs) \/ Commit(r, t) = w
      \/ Deleted(te) /\ Commit(r, t) = [r EXCEPT !.next_seq = @ + 1]
  BY DEF Commit
<1>4. SetChildren(w, cs).e.value = w.e.value /\ SetChildren(w, cs).e.perms = w.e.perms
  <2> HIDE DEF w, cs
  <2>1. w \in Record
    BY <1>2 DEF Good
  <2> QED
    BY <1>2, <2>1 DEF SetChildren, Record, Entry
<1>5. Deleted(te) => ~WroteData(te) /\ [r EXCEPT !.next_seq = @ + 1].e = r.e
  BY <1>1 DEF Deleted, WroteData, Record
<1> HIDE DEF w, cs
<1> QED
  BY <1>2, <1>3, <1>4, <1>5

LEMMA MergeRecData ==
    ASSUME NEW r, Whole(r), Reclaimed(r), NEW t \in Tid, Touched(r, t), CanMergeRec(r, t),
           IsValid(MergeRec(r, t).e)
    PROVE  LET te == r.te[t]
               x == MergeRec(r, t).e
           IN  /\ x.value = (IF WroteData(te) THEN te.value ELSE r.e.value)
               /\ x.perms = (IF WroteData(te) THEN te.perms ELSE r.e.perms)
<1> DEFINE c == Commit(r, t)
           d == DropTentry(c, t)
<1>1. Good(r) /\ Good(c)
  BY CommitGood DEF Whole
<1>2. Good(d) /\ d.e = c.e /\ d.e \in Entry
  BY <1>1, DropTentryGood, Types
<1>3. MergeRec(r, t) = Cleanup(d)
  BY DEF MergeRec
<1> HIDE DEF c, d
<1>4. Cleanup(d).e.value = d.e.value /\ Cleanup(d).e.perms = d.e.perms
  <2>1. Cleanup(d) # NewRecord
    BY <1>3, NewRecordReclaimed
  <2>2. d \in Record
    BY <1>2 DEF Good
  <2> QED
    BY <1>2, <2>1, <2>2 DEF Cleanup, Record, Entry
<1> QED
  BY <1>1, <1>2, <1>3, <1>4, CommitData DEF c

(* What a commit makes of a node.                                          *)
Merged(n, m) == IF n.exists /\ ~m.exists THEN n ELSE m

LEMMA MergeRecNode ==
    ASSUME NEW t \in Tid, NEW r, Sound(r, t), Reclaimed(r), Touched(r, t)
    PROVE  NodeOf(MergeRec(r, t).e) = Merged(NodeOf(r.e), Seen(r.te[t], NodeOf(r.e)))
<1> DEFINE te == r.te[t]
           n == NodeOf(r.e)
           x == MergeRec(r, t).e
<1>1. Whole(r) /\ CanMergeRec(r, t) /\ Emptied(te)
  BY DEF Sound
<1>2. /\ te \in Tentry /\ te.init_seq # 0 /\ te.write_seq # te.init_seq
      /\ Pristine(te) => (IsValid(te) <=> te.init_valid)
      /\ te.init_valid <=> IsValid(r.e)
      /\ n.children = r.e.children
  BY SoundCopy
<1>3. /\ IsValid(x) <=> IsValid(r.e) \/ WroteData(te)
      /\ IsValid(te) => IsValid(x)
      /\ x.children = IF WroteChildren(te)
                      THEN (r.e.children \cup te.children_add) \ te.children_rem
                      ELSE r.e.children
  BY <1>1, MergeRecEntry
<1>4. IsValid(x) => /\ x.value = (IF WroteData(te) THEN te.value ELSE r.e.value)
                    /\ x.perms = (IF WroteData(te) THEN te.perms ELSE r.e.perms)
  BY <1>1, MergeRecData
<1>5. n.exists <=> IsValid(r.e)
  BY Nodes DEF NodeOf
<1>6. IsValid(r.e) => n = [exists |-> TRUE, value |-> r.e.value, perms |-> r.e.perms,
                           children |-> r.e.children]
  BY DEF NodeOf
<1> HIDE DEF x
<1>7. IsValid(x) => NodeOf(x) = [exists |-> TRUE, value |-> x.value, perms |-> x.perms,
                                 children |-> x.children]
  BY DEF NodeOf
<1>8. CASE IsValid(te)
  <2>1. WroteData(te) <=> ~Pristine(te)
    BY <1>2, <1>8 DEF WroteData, Pristine, IsValid, Tentry
  <2>2. x.children = (r.e.children \cup te.children_add) \ te.children_rem
    BY <1>3, <1>8 DEF WroteChildren
  <2>3. Pristine(te) => n.value = r.e.value /\ n.perms = r.e.perms
    BY <1>2, <1>6, <1>8
  <2>4. Seen(te, n) = [exists |-> TRUE, value |-> x.value, perms |-> x.perms,
                       children |-> x.children]
    BY <1>2, <1>3, <1>4, <1>8, <2>1, <2>2, <2>3 DEF Seen
  <2>5. Seen(te, n).exists
    BY <2>4
  <2>6. Seen(te, n) = NodeOf(x)
    BY <1>3, <1>7, <1>8, <2>4
  <2> HIDE DEF n
  <2> QED
    BY <2>5, <2>6 DEF Merged, x, n
<1>9. CASE ~IsValid(te)
  <2>1. Seen(te, n) = Absent
    BY <1>2, <1>9 DEF Seen
  <2>2. ~WroteData(te) /\ ~WroteChildren(te)
    BY <1>9 DEF WroteData, WroteChildren
  <2>3. CASE IsValid(r.e)
    <3>1. NodeOf(x) = n
      BY <1>3, <1>4, <1>6, <1>7, <2>2, <2>3
    <3> HIDE DEF n
    <3> QED
      BY <1>5, <2>1, <2>3, <3>1, Nodes DEF Merged, x, n
  <2>4. CASE ~IsValid(r.e)
    <3>1. NodeOf(x) = Absent
      BY <1>3, <2>2, <2>4 DEF NodeOf
    <3> HIDE DEF n
    <3> QED
      BY <1>5, <2>1, <2>4, <3>1, Nodes DEF Merged, x, n
  <2> QED
    BY <2>3, <2>4
<1> QED
  BY <1>8, <1>9

LEMMA CommitServes ==
    ASSUME NEW t \in Tid, SoundDb(db, t), Tidy(db), WholeDb(db'), Merge(t), CanMerge(t)
    PROVE  LET c == Visible(db)
           IN  /\ FitsDb(db, t, c)
               /\ Visible(db') = Serial!Committed(<<c, SeenDb(db, t, c)>>)
<1> DEFINE c == Visible(db)
           m == SeenDb(db, t, c)
<1>1. /\ WholeDb(db) /\ \A q \in Path : Sound(db[q], t) /\ Reclaimed(db[q])
  BY DEF SoundDb, Tidy
<1>2. c \in Tree /\ c = [q \in Path |-> NodeOf(db[q].e)]
  BY <1>1, VisibleNodes
<1>3. FitsDb(db, t, c)
  <2> HIDE DEF c
  <2>1. \A q \in Path : c[q] = NodeOf(db[q].e)
    BY <1>2
  <2> QED
    BY <1>1, <1>2, <2>1, EntryFits DEF FitsDb
<1>4. \A q \in Path : m[q] = Seen(db[q].te[t], NodeOf(db[q].e))
  <2> HIDE DEF c
  <2> QED
    BY <1>2 DEF SeenDb
<1>5. Visible(db') = [q \in Path |-> NodeOf(db'[q].e)]
  BY VisibleNodes
<1>6. \A q \in Path : db'[q] = IF Touched(db[q], t) THEN MergeRec(db[q], t) ELSE db[q]
  BY <1>1, MergeEnds
<1>7. ASSUME NEW q \in Path
      PROVE  NodeOf(db'[q].e) = Merged(c[q], m[q])
  <2>1. c[q] = NodeOf(db[q].e) /\ m[q] = Seen(db[q].te[t], NodeOf(db[q].e))
    BY <1>2, <1>4
  <2> HIDE DEF c, m
  <2>2. CASE Touched(db[q], t)
    BY <1>1, <1>6, <2>1, <2>2, MergeRecNode
  <2>3. CASE ~Touched(db[q], t)
    <3>1. m[q] = c[q] /\ db'[q] = db[q]
      BY <1>6, <2>1, <2>3 DEF Seen, Touched
    <3> QED
      BY <2>1, <3>1 DEF Merged
  <2> QED
    BY <2>2, <2>3
<1>8. Serial!Committed(<<c, m>>) = [q \in Path |-> Merged(c[q], m[q])]
  <2> HIDE DEF c, m
  <2> QED
    BY DEF Serial!Committed, Merged
<1>9. Visible(db') = Serial!Committed(<<c, m>>)
  <2> HIDE DEF c, m
  <2> QED
    BY <1>5, <1>7, <1>8
<1> QED
  BY <1>3, <1>9

(* The steps outsiders do not see.                                         *)
LEMMA HiddenServes ==
    ASSUME WholeDb(db), WholeDb(db'),
           \A q \in Path : \/ db'[q].e = db[q].e
                           \/ ~IsValid(db[q].e) /\ ~IsValid(db'[q].e)
    PROVE  Visible(db') = Visible(db)
<1>1. Visible(db) = [q \in Path |-> NodeOf(db[q].e)]
  BY VisibleNodes
<1>2. Visible(db') = [q \in Path |-> NodeOf(db'[q].e)]
  BY VisibleNodes
<1>3. \A q \in Path : NodeOf(db'[q].e) = NodeOf(db[q].e)
  BY DEF NodeOf
<1> QED
  BY <1>1, <1>2, <1>3

-----------------------------------------------------------------------------
(* What the steps of others leave of a record transaction t references:    *)
(* its copy; and if the data changed, the entry is stamped with a number   *)
(* that t has not seen.                                                    *)
Stamped(r, w) ==
    w.e.write_seq >= r.next_seq \/ (w.e.value = r.e.value /\ w.e.perms = r.e.perms)

Foreign(r, w, t) ==
    w.te[t] = r.te[t] /\ (Touched(r, t) => Later(r.e, w.e) /\ Stamped(r, w))

LEMMA ForeignFits ==
    ASSUME NEW t \in Tid, NEW r, NEW w, Whole(r), Sound(w, t), Foreign(r, w, t)
    PROVE  /\ Sound(r, t)
           /\ \A n : Fits(w, t, n) => Fits(r, t, n) /\ Seen(w.te[t], n) = Seen(r.te[t], n)
<1> DEFINE te == r.te[t]
<1>1. w.te[t] = te /\ Whole(w) /\ Good(w) /\ Good(r)
  BY DEF Foreign, Sound, Whole
<1>2. CASE ~Touched(r, t)
  BY <1>1, <1>2 DEF Sound, Fits, Alike, Touched, Emptied
<1>3. CASE Touched(r, t)
  <2>1. Touched(w, t) /\ CanMergeRec(w, t) /\ Later(r.e, w.e) /\ Stamped(r, w)
    BY <1>1, <1>3 DEF Foreign, Sound, Touched
  <2>2. CanMergeRec(r, t)
    BY <1>1, <2>1, LaterDooms
  <2>3. Sound(r, t)
    BY <1>1, <2>2 DEF Sound
  <2>4. /\ te.init_valid <=> IsValid(r.e)
        /\ te.read_children_seq # 0 => te.children = r.e.children
        /\ NodeOf(r.e).children = r.e.children
    BY <1>3, <2>3, SoundCopy
  <2>5. /\ te.init_valid <=> IsValid(w.e)
        /\ te.read_children_seq # 0 => te.children = w.e.children
        /\ NodeOf(w.e).children = w.e.children
    BY <1>1, <2>1, SoundCopy
  <2>6. te.read_seq # 0 => w.e.value = r.e.value /\ w.e.perms = r.e.perms
    <3>1. te.read_seq # 0 => w.e.write_seq <= te.read_seq
      BY <1>1, <2>1 DEF CanMergeRec
    <3>2. te.read_seq < r.next_seq /\ te.read_seq \in Nat /\ r.next_seq \in Nat
      BY <1>1, <1>3, Types
    <3>3. w.e.write_seq \in Nat
      BY <1>1, Types
    <3> QED
      BY <2>1, <3>1, <3>2, <3>3 DEF Stamped
  <2>7. /\ NodeOf(w.e).exists = NodeOf(r.e).exists
        /\ te.read_seq # 0 => NodeOf(w.e).value = NodeOf(r.e).value
                              /\ NodeOf(w.e).perms = NodeOf(r.e).perms
        /\ te.read_children_seq # 0 => NodeOf(w.e).children = NodeOf(r.e).children
    <3>1. CASE IsValid(r.e)
      <4>1. NodeOf(r.e) = [exists |-> TRUE, value |-> r.e.value, perms |-> r.e.perms,
                           children |-> r.e.children]
        BY <3>1 DEF NodeOf
      <4>2. NodeOf(w.e) = [exists |-> TRUE, value |-> w.e.value, perms |-> w.e.perms,
                           children |-> w.e.children]
        BY <2>4, <2>5, <3>1 DEF NodeOf
      <4> QED
        BY <2>4, <2>5, <2>6, <4>1, <4>2
    <3>2. CASE ~IsValid(r.e)
      BY <2>4, <2>5, <3>2 DEF NodeOf
    <3> QED
      BY <3>1, <3>2
  <2>8. ASSUME NEW n, Fits(w, t, n)
        PROVE  Fits(r, t, n)
    BY <1>1, <2>7, <2>8 DEF Fits, Alike
  <2> QED
    BY <1>1, <2>3, <2>8
<1> QED
  BY <1>2, <1>3

LEMMA WriteEntryStamps ==
    ASSUME NEW r, Good(r), NEW v, NEW pl, NEW cs
    PROVE  /\ WriteEntry(r, v, pl).e.write_seq >= r.next_seq
           /\ SetChildren(r, cs).e.write_seq = r.e.write_seq
           /\ SetChildren(r, cs).e.value = r.e.value /\ SetChildren(r, cs).e.perms = r.e.perms
<1>1. r \in Record /\ r.e \in Entry /\ r.next_seq \in Nat
  BY Types
<1>2. WriteEntry(r, v, pl).e.write_seq = r.next_seq
  BY <1>1 DEF WriteEntry, Record, Entry
<1>3. SetChildren(r, cs).e.write_seq = r.e.write_seq
  BY <1>1 DEF SetChildren, Record, Entry
<1>4. SetChildren(r, cs).e.value = r.e.value /\ SetChildren(r, cs).e.perms = r.e.perms
  BY <1>1 DEF SetChildren, Record, Entry
<1> QED
  BY <1>1, <1>2, <1>3, <1>4

LEMMA CreateBranchStamps ==
    ASSUME NEW d, WholeDb(d), NEW p \in Path, NEW v \in Value, NEW q \in Path
    PROVE  Stamped(d[q], CreateBranch(d, p, v)[q])
<1> DEFINE V == ValidPaths(d)
           pl == InheritedPerms(V, p, [s \in Path |-> d[s].e.perms])
           val == IF q = p THEN v ELSE EmptyValue
           r == d[q]
           w == IF q \in Missing(V, p) THEN WriteEntry(r, val, pl) ELSE r
           new == IF q \in Registrars(V, p) THEN AddChild(w, Step(q, p)) ELSE w
<1>1. CreateBranch(d, p, v)[q] = new
  BY DEF CreateBranch
<1>2. pl \in PermList
  <2>1. [s \in Path |-> d[s].e.perms] \in [Path -> PermList]
    BY WholeDbRecords DEF Entry
  <2> QED
    BY <2>1, InheritedPermsTyped
<1>3. Good(r) /\ val \in Value
  BY WholeDbRecords, Constants
<1> HIDE DEF V, pl, val, r
<1>4. Good(w) /\ Stamped(r, w)
  BY <1>2, <1>3, WriteEntryGood, WriteEntryStamps DEF Stamped
<1> HIDE DEF w
<1>5. Stamped(r, new)
  BY <1>4, WriteEntryStamps DEF Stamped, AddChild
<1> QED
  BY <1>1, <1>5 DEF r

LEMMA RemoveChildrenStamps ==
    ASSUME NEW r, Good(r), NEW cs \in SUBSET Name
    PROVE  /\ Stamped(r, RemoveChildren(r, cs))
           /\ ~Untouched(r) => Stamped(r, MarkDeleted(RemoveChildren(r, cs)))
<1> DEFINE a == RemoveChildren(r, cs)
<1>1. r \in Record /\ r.e \in Entry
  BY Types
<1>2. a.e.value = r.e.value /\ a.e.perms = r.e.perms
  BY <1>1 DEF RemoveChildren, Record, Entry
<1>3. Good(a) /\ a.te = r.te
  BY RemoveChildrenGood, RemoveChildrenEntry
<1>4. a \in Record /\ a.e \in Entry
  BY <1>3, Types
<1> HIDE DEF a
<1>5. ~Untouched(r) => MarkDeleted(a).e.value = a.e.value /\ MarkDeleted(a).e.perms = a.e.perms
  BY <1>3, <1>4 DEF MarkDeleted, Untouched, Touched, Record, Entry
<1> QED
  BY <1>2, <1>5 DEF Stamped, a

LEMMA DeleteBranchStamps ==
    ASSUME NEW d, WholeDb(d), NEW p \in Path, NEW q \in Path, ~Untouched(d[q])
    PROVE  Stamped(d[q], DeleteBranch(d, p)[q])
<1> DEFINE kids == [s \in Path |-> d[s].e.children]
           r == d[q]
<1>1. DeleteBranch(d, p)[q] = IF q \in Subtree(kids, p) THEN MarkDeleted(RemoveChildren(r, kids[q]))
                              ELSE IF p # <<>> /\ q = Parent(p) THEN RemoveChildren(r, {Base(p)})
                              ELSE r
  BY DEF DeleteBranch
<1>2. Good(r) /\ kids[q] \in SUBSET Name
  BY WholeDbRecords DEF Entry
<1>3. p # <<>> => {Base(p)} \in SUBSET Name
  BY Splits
<1>4. Stamped(r, r)
  BY DEF Stamped
<1>5. ~Untouched(r)
  OBVIOUS
<1> HIDE DEF kids, r
<1>6. Stamped(r, MarkDeleted(RemoveChildren(r, kids[q])))
  BY <1>2, <1>5, RemoveChildrenStamps
<1>7. p # <<>> => Stamped(r, RemoveChildren(r, {Base(p)}))
  BY <1>2, <1>3, RemoveChildrenStamps
<1> QED
  BY <1>1, <1>4, <1>6, <1>7 DEF r

LEMMA SimpleStamps ==
    ASSUME WholeDb(db), SimpleNext, NEW q \in Path, ~Untouched(db[q])
    PROVE  Stamped(db[q], db'[q])
<1>1. Stamped(db[q], db[q]) /\ Good(db[q])
  BY WholeDbRecords DEF Stamped
<1>2. ASSUME NEW p \in Path, NEW v, NEW pl, db' = [db EXCEPT ![p] = WriteEntry(@, v, pl)]
      PROVE  Stamped(db[q], db'[q])
  <2>1. db'[q] = IF q = p THEN WriteEntry(db[p], v, pl) ELSE db[q]
    BY <1>2, UpdateAt
  <2> QED
    BY <1>1, <2>1, WriteEntryStamps DEF Stamped
<1>3. ASSUME NEW p \in Path, SimpleCreate(p)
      PROVE  Stamped(db[q], db'[q])
  BY <1>3, CreateBranchStamps, Constants DEF SimpleCreate
<1>4. ASSUME NEW p \in Path, NEW c, NEW v \in Value, SimpleUpdate(c, p, v)
      PROVE  Stamped(db[q], db'[q])
  <2>1. CASE db' = CreateBranch(db, p, v)
    BY <2>1, CreateBranchStamps
  <2>2. CASE db' = [db EXCEPT ![p] = WriteEntry(@, v, @.e.perms)]
    <3>1. db' = [db EXCEPT ![p] = WriteEntry(@, v, db[p].e.perms)]
      BY <2>2
    <3> QED
      BY <1>2, <3>1
  <2> QED
    BY <1>4, <2>1, <2>2 DEF SimpleUpdate
<1>5. ASSUME NEW p \in Path, NEW c, SimpleDel(c, p)
      PROVE  Stamped(db[q], db'[q])
  BY <1>5, DeleteBranchStamps DEF SimpleDel
<1>6. ASSUME NEW p \in Path, NEW c, NEW pl, SimpleSetPerms(c, p, pl)
      PROVE  Stamped(db[q], db'[q])
  <2>1. db' = [db EXCEPT ![p] = WriteEntry(@, db[p].e.value, pl)]
    BY <1>6 DEF SimpleSetPerms
  <2> QED
    BY <1>2, <2>1
<1> QED
  BY <1>3, <1>4, <1>5, <1>6 DEF SimpleNext

LEMMA CommitStamps ==
    ASSUME NEW r, Good(r), NEW t \in Tid
    PROVE  Stamped(r, Commit(r, t))
<1> DEFINE te == r.te[t]
           w == WriteEntry(r, te.value, te.perms)
           cs == (r.e.children \cup te.children_add) \ te.children_rem
<1>1. te \in Tentry
  BY Types
<1>2. Good(w) /\ w.e.write_seq >= r.next_seq
  BY <1>1, WriteEntryGood, WriteEntryStamps DEF Tentry
<1>3. CASE ~WroteData(te)
  BY <1>3, CommitData DEF Stamped
<1>4. CASE WroteData(te)
  <2>1. Commit(r, t) = SetChildren(w, cs) \/ Commit(r, t) = w
    BY <1>4 DEF Commit, WroteData, Deleted
  <2> HIDE DEF w, cs
  <2>2. SetChildren(w, cs).e.write_seq = w.e.write_seq
    BY <1>2, WriteEntryStamps
  <2> QED
    BY <1>2, <2>1, <2>2 DEF Stamped
<1> QED
  BY <1>3, <1>4

LEMMA MergeRecStamps ==
    ASSUME NEW r, Whole(r), NEW u \in Tid, Touched(r, u), CanMergeRec(r, u),
           NEW t \in Tid, t # u, Touched(r, t)
    PROVE  Stamped(r, MergeRec(r, u))
<1> DEFINE c == Commit(r, u)
           d == DropTentry(c, u)
<1>1. Good(r) /\ Good(c) /\ c.te = r.te
  BY CommitGood, CommitOutside DEF Whole, Outside
<1>2. MergeRec(r, u) = Cleanup(d) /\ Stamped(r, c)
  BY <1>1, CommitStamps DEF MergeRec
<1>3. d.e = c.e /\ Touched(d, t)
  <2> HIDE DEF c
  <2>1. c \in Record
    BY <1>1 DEF Good
  <2>2. d.te[t] = c.te[t] /\ d.e = c.e
    BY <2>1, DropTentryFacts
  <2> QED
    BY <1>1, <2>2 DEF Touched
<1> HIDE DEF c, d
<1>4. Cleanup(d) = d
  BY <1>3 DEF Cleanup, Untouched
<1> QED
  BY <1>2, <1>3, <1>4 DEF Stamped

-----------------------------------------------------------------------------
(* The steps of others, in terms of their kinds.                           *)

LEMMA SimpleForeign ==
    ASSUME WholeDb(db), SimpleNext, NEW t \in Tid, NEW q \in Path
    PROVE  Foreign(db[q], db'[q], t)
<1>1. Outside(db[q], db'[q])
  BY SimpleDirect DEF Direct
<1>2. Touched(db[q], t) => ~Untouched(db[q])
  BY DEF Untouched
<1> QED
  BY <1>1, <1>2, SimpleStamps DEF Foreign, Outside

LEMMA SameForeign ==
    ASSUME NEW r, Good(r), NEW w, NEW t \in Tid, w.te[t] = r.te[t],
           Touched(r, t) => w.e = r.e
    PROVE  Foreign(r, w, t)
<1>1. Later(r.e, r.e) /\ Stamped(r, r)
  BY Types DEF Later, Stamped
<1> QED
  BY <1>1 DEF Foreign, Later, Stamped

LEMMA TransForeign ==
    ASSUME WholeDb(db), NEW u \in Tid, TransNext(u), NEW t \in Tid, t # u, NEW q \in Path
    PROVE  Foreign(db[q], db'[q], t)
<1>1. OwnAt(db[q], db'[q], u)
  BY TransWithin DEF Within
<1>2. db'[q].te[t] = db[q].te[t] /\ db'[q].e = db[q].e
  BY <1>1 DEF OwnAt, Own
<1> QED
  BY <1>2, WholeDbRecords, SameForeign

LEMMA EndForeign ==
    ASSUME WholeDb(db), NEW u \in Tid, Merge(u) \/ Abort(u), NEW t \in Tid, t # u, NEW q \in Path
    PROVE  Foreign(db[q], db'[q], t)
<1>0. Whole(db[q]) /\ Good(db[q])
  BY WholeDbRecords
<1>1. CASE Aborts(u)
  <2>1. Ended(db[q], db'[q], u)
    BY <1>1, AbortEnds DEF EndOf
  <2>2. Touched(db[q], t) => db'[q].e = db[q].e
    BY <1>0, <1>1, AbortEnds, AbortRecEnded
  <2> QED
    BY <1>0, <2>1, <2>2, SameForeign DEF Ended
<1>2. CASE Merge(u) /\ CanMerge(u)
  <2>1. Ended(db[q], db'[q], u)
    BY <1>2, MergeEnds DEF EndOf
  <2>2. Touched(db[q], t) => Stamped(db[q], db'[q])
    <3>1. db'[q] = IF Touched(db[q], u) THEN MergeRec(db[q], u) ELSE db[q]
      BY <1>2, MergeEnds
    <3>2. Touched(db[q], u) => CanMergeRec(db[q], u)
      BY <1>2, CanMergeByRecord
    <3>3. Stamped(db[q], db[q])
      BY DEF Stamped
    <3> QED
      BY <1>0, <3>1, <3>2, <3>3, MergeRecStamps
  <2> QED
    BY <2>1, <2>2 DEF Ended, Foreign
<1> QED
  BY <1>1, <1>2 DEF Aborts

-----------------------------------------------------------------------------
(* The invariant: as long as a transaction could commit, every tree that   *)
(* fits its copies is one it may have started from, and what the copies    *)
(* make of that tree is what the answers it got have made of it.           *)
Traced(t) ==
    /\ SoundDb(db, t) /\ Unlinked(db, t)
    /\ \A c : FitsDb(db, t, c) => <<c, SeenDb(db, t, c)>> \in worlds[t]

SerialInv ==
    /\ TreeInv
    /\ worlds = [t \in Tid |-> worlds[t]]
    /\ \A t \in trans : CanMerge(t) => Traced(t)

LEMMA SameUnlinked ==
    ASSUME NEW d, NEW f, NEW t, Unlinked(d, t), \A q \in Path : f[q].te[t] = d[q].te[t]
    PROVE  Unlinked(f, t)
<1>1. \A q \in Path \ {<<>>} : Parent(q) \in Path
  BY Splits
<1> QED
  BY <1>1 DEF Unlinked

LEMMA ForeignTraced ==
    ASSUME NEW t \in Tid, WholeDb(db), WholeDb(db'), \A q \in Path : Foreign(db[q], db'[q], t),
           CanMerge(t) => Traced(t), worlds'[t] = worlds[t], CanMerge(t)'
    PROVE  Traced(t)'
<1>1. ASSUME NEW q \in Path
      PROVE  Whole(db[q]) /\ Whole(db'[q]) /\ db'[q].te[t] = db[q].te[t]
             /\ (Touched(db[q], t) => CanMergeRec(db'[q], t))
  <2>1. db'[q].te[t] = db[q].te[t]
    BY DEF Foreign
  <2>2. Touched(db'[q], t) => CanMergeRec(db'[q], t)
    BY CanMergeByRecord
  <2>3. Whole(db[q]) /\ Whole(db'[q])
    BY DEF WholeDb, GoodDb, Whole, Good
  <2> QED
    BY <2>1, <2>2, <2>3 DEF Touched
<1>2. CanMerge(t)
  <2>1. ASSUME NEW q \in Path, Touched(db[q], t)
        PROVE  CanMergeRec(db[q], t)
    <3>1. Good(db[q]) /\ Good(db'[q]) /\ Later(db[q].e, db'[q].e)
      BY <1>1, <2>1 DEF Foreign, Whole
    <3> QED
      BY <1>1, <2>1, <3>1, LaterDooms
  <2> QED
    BY <2>1, CanMergeByRecord
<1>3. SoundDb(db, t) /\ Unlinked(db, t)
      /\ \A c : FitsDb(db, t, c) => <<c, SeenDb(db, t, c)>> \in worlds[t]
  BY <1>2 DEF Traced
<1>4. ASSUME NEW q \in Path
      PROVE  Sound(db'[q], t)
             /\ \A n : Fits(db'[q], t, n) =>
                   Fits(db[q], t, n) /\ Seen(db'[q].te[t], n) = Seen(db[q].te[t], n)
  <2>1. Sound(db'[q], t)
    <3>1. Emptied(db[q].te[t])
      BY <1>3 DEF SoundDb, Sound
    <3> QED
      BY <1>1, <3>1 DEF Sound, Touched
  <2> QED
    BY <1>1, <2>1, ForeignFits
<1>5. SoundDb(db', t)
  BY <1>4 DEF SoundDb
<1>6. Unlinked(db', t)
  BY <1>1, <1>3, SameUnlinked
<1>7. ASSUME NEW c, FitsDb(db', t, c)
      PROVE  <<c, SeenDb(db', t, c)>> \in worlds'[t]
  <2>1. FitsDb(db, t, c)
    BY <1>4, <1>7 DEF FitsDb
  <2>2. SeenDb(db', t, c) = SeenDb(db, t, c)
    BY <1>4, <1>7 DEF FitsDb, SeenDb
  <2> QED
    BY <1>3, <2>1, <2>2
<1> QED
  BY <1>5, <1>6, <1>7 DEF Traced

LEMMA InsideTraced ==
    ASSUME NEW t \in Tid, TreeInv, worlds = [u \in Tid |-> worlds[u]],
           CanMerge(t) => Traced(t), CanMerge(t)', NEW p \in Path, InsideNext(t, p)
    PROVE  Traced(t)'
<1>1. /\ WholeDb(db) /\ Listed(db) /\ Shape(db, t) /\ \A q \in Path : OwnAt(db[q], db'[q], t)
  BY StepInvDb, InsideTrans, TransWithin DEF TreeInv, Within
<1>2. CanMerge(t)
  <2>1. ASSUME NEW q \in Path, Touched(db[q], t)
        PROVE  CanMergeRec(db[q], t)
    <3>1. Touched(db'[q], t) => CanMergeRec(db'[q], t)
      BY CanMergeByRecord
    <3>2. CASE db'[q] = db[q]
      BY <2>1, <3>1, <3>2
    <3>3. CASE Own(db[q], db'[q], t)
      <4>1. Touched(db'[q], t)
        BY <3>3 DEF Own, OwnCopy, Touched
      <4> QED
        BY <2>1, <3>1, <3>3, <4>1, OwnDooms
    <3> QED
      BY <1>1, <3>2, <3>3 DEF OwnAt
  <2> QED
    BY <2>1, CanMergeByRecord
<1>3. SoundDb(db, t) /\ Unlinked(db, t)
      /\ \A c : FitsDb(db, t, c) => <<c, SeenDb(db, t, c)>> \in worlds[t]
  BY <1>2 DEF Traced
<1>4. PICK r \in Request : r.path = p /\ Serves(t, p, r) /\ Asked(t, r)
  BY <1>1, <1>3, InsideServes
<1>5. /\ SoundDb(db', t) /\ Unlinked(db', t)
      /\ \A c : FitsDb(db', t, c) =>
            /\ FitsDb(db, t, c)
            /\ Answer(SeenDb(db, t, c)[p], r) = Answer(Found(t, p), r)
            /\ SeenDb(db', t, c) = After(SeenDb(db, t, c), r)
  BY <1>4 DEF Serves
<1>6. worlds'[t] = Answered(worlds[t], r, Answer(Found(t, p), r))
  BY <1>4 DEF Asked
<1>7. ASSUME NEW c, FitsDb(db', t, c)
      PROVE  <<c, SeenDb(db', t, c)>> \in worlds'[t]
  <2> DEFINE m == SeenDb(db, t, c)
             w == <<c, m>>
  <2>1. /\ w \in worlds[t] /\ Answer(m[p], r) = Answer(Found(t, p), r)
        /\ SeenDb(db', t, c) = After(m, r)
    BY <1>3, <1>5, <1>7
  <2> HIDE DEF m
  <2>2. w[1] = c /\ w[2] = m
    OBVIOUS
  <2> HIDE DEF w
  <2>3. <<w[1], After(w[2], r)>> \in Answered(worlds[t], r, Answer(Found(t, p), r))
    BY <1>4, <2>1, <2>2 DEF Answered
  <2> QED
    BY <1>6, <2>1, <2>2, <2>3
<1> QED
  BY <1>5, <1>7 DEF Traced

(* A new transaction, of which no record knows yet, may run on any tree.   *)
LEMMA BranchTraced ==
    ASSUME Tree \subseteq World, NEW t \in Tid, WholeDb(db), db' = db,
           \A q \in Path : ~Touched(db[q], t), worlds'[t] = Fresh
    PROVE  Traced(t)'
<1>1. \A q \in Path : db[q].te[t].init_seq = 0
  BY DEF Touched
<1>2. SoundDb(db, t)
  <2>1. \A q \in Path : Whole(db[q]) /\ Emptied(db[q].te[t])
    BY <1>1, WholeDbRecords DEF Emptied
  <2> QED
    BY <2>1 DEF SoundDb, Sound
<1>3. Unlinked(db, t)
  BY <1>1 DEF Unlinked, Gone
<1>4. ASSUME NEW c, FitsDb(db, t, c)
      PROVE  <<c, SeenDb(db, t, c)>> \in Fresh
  <2>1. c \in Tree /\ c = [q \in Path |-> c[q]]
    BY <1>4 DEF FitsDb, Tree
  <2>2. SeenDb(db, t, c) = c
    BY <1>1, <2>1 DEF SeenDb, Seen
  <2> QED
    BY <2>1, <2>2 DEF Fresh
<1> QED
  BY <1>2, <1>3, <1>4 DEF Traced

-----------------------------------------------------------------------------
(* The initial states and the steps.                                       *)

LEMMA SerialStep == [SerialNext]_serialVars => [Next]_vars
  BY InsideTrans DEF SerialNext, serialVars, Next, StoreNext

LEMMA NextDb == TreeInv' => WholeDb(db')
  BY DEF TreeInv, StepInv, IInv, TypeOK, RecordsSound, WholeDb, GoodDb

LEMMA InitSerialInv == SerialInit => SerialInv
<1>1. SerialInit => TreeInv
  BY InitTreeInv DEF SerialInit
<1>2. SerialInit => trans = {} /\ worlds = [t \in Tid |-> {}]
  BY DEF SerialInit, Init
<1> QED
  BY <1>1, <1>2 DEF SerialInv

LEMMA NextSerialInv ==
    ASSUME Tree \subseteq World, SerialInv, [SerialNext]_serialVars
    PROVE  SerialInv'
<1>1. TreeInv /\ TreeInv' /\ WholeDb(db) /\ WholeDb(db') /\ trans \subseteq Tid
  <2>1. TreeInv /\ TreeInv'
    BY SerialStep, NextTreeInv DEF SerialInv
  <2> QED
    BY <2>1, NextDb, StepInvDb DEF TreeInv
<1>2. /\ worlds = [t \in Tid |-> worlds[t]]
      /\ \A t \in trans : CanMerge(t) => Traced(t)
  BY DEF SerialInv
<1>3. ASSUME NEW t \in trans, \A q \in Path : Foreign(db[q], db'[q], t),
             worlds'[t] = worlds[t], CanMerge(t)'
      PROVE  Traced(t)'
  BY <1>1, <1>2, <1>3, ForeignTraced
<1>4. worlds' = [t \in Tid |-> worlds'[t]] /\ \A t \in trans' : CanMerge(t)' => Traced(t)'
  <2>1. CASE SimpleNext /\ UNCHANGED worlds
    <3>1. trans' = trans
      BY <1>1, <2>1, SimpleDirect DEF Direct
    <3> QED
      BY <1>1, <1>2, <1>3, <2>1, <3>1, SimpleForeign
  <2>2. ASSUME NEW u \in trans, NEW p \in Path, InsideNext(u, p)
        PROVE  /\ worlds' = [t \in Tid |-> worlds'[t]]
               /\ \A t \in trans' : CanMerge(t)' => Traced(t)'
    <3>1. TransNext(u) /\ trans' = trans
      BY <1>1, <2>2, InsideTrans, TransWithin DEF Within
    <3>2. /\ worlds' = [t \in Tid |-> worlds'[t]]
          /\ \A t \in Tid : t # u => worlds'[t] = worlds[t]
      <4>1. PICK W : worlds' = [worlds EXCEPT ![u] = W]
        BY <2>2 DEF InsideNext, Asked
      <4> QED
        BY <1>2, <4>1
    <3>3. ASSUME NEW t \in trans, t # u, CanMerge(t)'
          PROVE  Traced(t)'
      BY <1>1, <1>3, <3>1, <3>2, <3>3, TransForeign
    <3>4. CanMerge(u)' => Traced(u)'
      BY <1>1, <1>2, <2>2, InsideTraced
    <3> QED
      BY <3>1, <3>2, <3>3, <3>4
  <2>3. CASE /\ Branch
             /\ worlds' = IF next_tid \in trans THEN worlds
                          ELSE [worlds EXCEPT ![next_tid] = Fresh]
    <3>1. db' = db /\ trans' = trans \cup {next_tid} /\ next_tid \in Tid
      BY <1>1, <2>3 DEF Branch, TreeInv, StepInv, IInv, TypeOK
    <3>2. /\ worlds' = [t \in Tid |-> worlds'[t]]
          /\ \A t \in trans : worlds'[t] = worlds[t]
          /\ next_tid \notin trans => worlds'[next_tid] = Fresh
      BY <1>1, <1>2, <2>3, <3>1
    <3>3. \A t \in trans, q \in Path : Foreign(db[q], db'[q], t)
      BY <1>1, <3>1, WholeDbRecords, SameForeign
    <3>4. next_tid \notin trans => \A q \in Path : ~Touched(db[q], next_tid)
      BY <1>1, <3>1, NoClosedByRecord DEF TreeInv, StepInv
    <3>5. ASSUME NEW t \in trans', t \notin trans
          PROVE  Traced(t)'
      <4>1. t \in Tid /\ (\A q \in Path : ~Touched(db[q], t)) /\ worlds'[t] = Fresh
        BY <3>1, <3>2, <3>4, <3>5
      <4> QED
        BY <1>1, <3>1, <4>1, BranchTraced
    <3> QED
      BY <1>3, <3>1, <3>2, <3>3, <3>5
  <2>4. ASSUME NEW u \in trans, Merge(u) \/ Abort(u), worlds' = [worlds EXCEPT ![u] = {}]
        PROVE  /\ worlds' = [t \in Tid |-> worlds'[t]]
               /\ \A t \in trans' : CanMerge(t)' => Traced(t)'
    <3>1. trans' = trans \ {u}
      BY <2>4 DEF Merge, Abort
    <3>2. /\ worlds' = [t \in Tid |-> worlds'[t]]
          /\ \A t \in Tid : t # u => worlds'[t] = worlds[t]
      BY <1>2, <2>4
    <3>3. ASSUME NEW t \in trans, t # u, CanMerge(t)'
          PROVE  Traced(t)'
      BY <1>1, <1>3, <2>4, <3>2, <3>3, EndForeign
    <3> QED
      BY <3>1, <3>2, <3>3
  <2>5. CASE UNCHANGED serialVars
    <3>1. db' = db /\ trans' = trans /\ worlds' = worlds
      BY <2>5 DEF serialVars, vars
    <3>2. \A t \in trans, q \in Path : Foreign(db[q], db'[q], t)
      BY <1>1, <3>1, WholeDbRecords, SameForeign
    <3> QED
      BY <1>2, <1>3, <3>1, <3>2
  <2> QED
    BY <2>1, <2>2, <2>3, <2>4, <2>5 DEF SerialNext
<1> QED
  BY <1>1, <1>4 DEF SerialInv

(* SerialStore means by its operators what they mean here.                 *)
LEMMA SamePaths ==
    /\ \A p : Serial!Chain(p) = Chain(p) /\ Serial!Parent(p) = Parent(p) /\ Serial!Base(p) = Base(p)
    /\ \A q, p : Serial!Step(q, p) = Step(q, p)
    /\ \A V, p : Serial!Missing(V, p) = Missing(V, p)
    /\ \A V, p : Serial!Registrars(V, p) = Registrars(V, p)
    /\ \A V, p, f : Serial!InheritedPerms(V, p, f) = InheritedPerms(V, p, f)
    /\ \A kids, p : Serial!Subtree(kids, p) = Subtree(kids, p)
<1>1. \A p : Serial!Chain(p) = Chain(p) /\ Serial!Parent(p) = Parent(p) /\ Serial!Base(p) = Base(p)
  BY DEF Serial!Chain, Chain, Serial!Parent, Parent, Serial!Base, Base
<1>2. \A q, p : Serial!Step(q, p) = Step(q, p)
  BY DEF Serial!Step, Step
<1>3. \A V, p : Serial!Missing(V, p) = Missing(V, p)
  BY <1>1 DEF Serial!Missing, Missing
<1>4. \A V, p : Serial!Registrars(V, p) = Registrars(V, p)
  BY <1>1, <1>3 DEF Serial!Registrars, Registrars
<1>5. \A V, p, f : Serial!InheritedPerms(V, p, f) = InheritedPerms(V, p, f)
  BY Zenon DEF Serial!InheritedPerms, InheritedPerms, Serial!DefaultPerms, DefaultPerms,
               Serial!Registrars, Registrars, Serial!Missing, Missing, Serial!Chain, Chain
<1>6. \A kids, p : Serial!Subtree(kids, p) = Subtree(kids, p)
  BY <1>1 DEF Serial!Subtree, Subtree
<1> QED
  BY <1>1, <1>2, <1>3, <1>4, <1>5, <1>6

LEMMA SameTrees ==
    /\ Serial!Absent = Absent /\ Serial!DefaultPerms = DefaultPerms
    /\ \A v, pl : Serial!Made(v, pl) = Made(v, pl)
    /\ \A c : Serial!Existing(c) = Existing(c)
    /\ \A c, p, v : Serial!WithBranch(c, p, v) = WithBranch(c, p, v)
    /\ \A c, p : Serial!WithoutBranch(c, p) = WithoutBranch(c, p)
<1>1. Serial!Absent = Absent /\ Serial!DefaultPerms = DefaultPerms
  BY DEF Serial!Absent, Absent, Serial!DefaultPerms, DefaultPerms
<1>2. \A v, pl : Serial!Made(v, pl) = Made(v, pl)
  BY DEF Serial!Made, Made
<1>3. \A c : Serial!Existing(c) = Existing(c)
  BY DEF Serial!Existing, Existing
<1>4. \A c, p, v : Serial!WithBranch(c, p, v) = WithBranch(c, p, v)
  <2> SUFFICES ASSUME NEW c, NEW p, NEW v
               PROVE  Serial!WithBranch(c, p, v) = WithBranch(c, p, v)
    OBVIOUS
  <2> DEFINE E == Existing(c)
             S == Serial!Existing(c)
             f == [q \in Path |-> c[q].perms]
             made(q) == IF q \in Missing(E, p)
                        THEN Made(IF q = p THEN v ELSE EmptyValue, InheritedPerms(E, p, f))
                        ELSE c[q]
             smade(q) == IF q \in Serial!Missing(S, p)
                         THEN Serial!Made(IF q = p THEN v ELSE EmptyValue,
                                          Serial!InheritedPerms(S, p, f))
                         ELSE c[q]
             one == [q \in Path |-> IF q \in Registrars(E, p)
                                    THEN [made(q) EXCEPT !.children = @ \cup {Step(q, p)}]
                                    ELSE made(q)]
             other == [q \in Path |-> IF q \in Serial!Registrars(S, p)
                                      THEN [smade(q) EXCEPT !.children = @ \cup {Serial!Step(q, p)}]
                                      ELSE smade(q)]
  <2>1. WithBranch(c, p, v) = one
    BY DEF WithBranch
  <2>2. Serial!WithBranch(c, p, v) = other
    BY DEF Serial!WithBranch
  <2>3. S = E
    BY <1>3
  <2> HIDE DEF S, E, f
  <2>4. \A q : smade(q) = made(q)
    BY <1>2, <2>3, SamePaths
  <2>5. \A q : /\ Serial!Registrars(S, p) = Registrars(E, p)
               /\ Serial!Step(q, p) = Step(q, p)
    BY <2>3, SamePaths
  <2> HIDE DEF made, smade
  <2>6. one = other
    BY <2>4, <2>5
  <2> QED
    BY <2>1, <2>2, <2>6
<1>5. \A c, p : Serial!WithoutBranch(c, p) = WithoutBranch(c, p)
  BY <1>1, SamePaths DEF Serial!WithoutBranch, WithoutBranch
<1> QED
  BY <1>1, <1>2, <1>3, <1>4, <1>5

LEMMA SameRequests ==
    /\ Serial!Request = Request /\ Serial!Fresh = Fresh
    /\ \A n, r : Serial!Answer(n, r) = Answer(n, r)
    /\ \A c, r : Serial!After(c, r) = After(c, r)
    /\ \A W, r, a : Serial!Answered(W, r, a) = Answered(W, r, a)
<1>1. Serial!Request = Request /\ Serial!Fresh = Fresh
  BY DEF Serial!Request, Request, Serial!Fresh, Fresh, Serial!Create, Create, Serial!Read, Read,
         Serial!GetChildren, GetChildren, Serial!Update, Update, Serial!Del, Del,
         Serial!SetPerms, SetPerms
<1>2. \A n, r : Serial!Permitted(n, r) <=> Permitted(n, r)
  BY DEF Serial!Permitted, Permitted, Serial!HasReadAccess, HasReadAccess,
         Serial!HasWriteAccess, HasWriteAccess
<1>3. \A n, r : Serial!Answer(n, r) = Answer(n, r)
  BY <1>2, SameTrees DEF Serial!Answer, Answer
<1>4. \A c, r : Serial!Changed(c, r) = Changed(c, r)
  BY SameTrees DEF Serial!Changed, Changed
<1>5. \A c, r : Serial!After(c, r) = After(c, r)
  BY <1>2, <1>4, SameTrees DEF Serial!After, After
<1>6. \A W, r, a : Serial!Answered(W, r, a) = Answered(W, r, a)
  BY <1>3, <1>5 DEF Serial!Answered, Answered
<1> QED
  BY <1>1, <1>3, <1>5, <1>6

LEMMA InitRefines == SerialInit => Serial!Init
<1> SUFFICES ASSUME SerialInit
             PROVE  Serial!Init
  OBVIOUS
<1> DEFINE root == WriteEntry(NewRecord, EmptyValue, DefaultPerms)
<1>1. WholeDb(db)
  BY InitTreeInv, StepInvDb DEF SerialInit, TreeInv
<1>2. Visible(db) = [q \in Path |-> NodeOf(db[q].e)]
  BY <1>1, VisibleNodes
<1>3. /\ \A q \in Path : db[q] = IF q = <<>> THEN root ELSE NewRecord
      /\ trans = {} /\ worlds = [t \in Tid |-> {}]
  BY DEF SerialInit, Init
<1>4. NodeOf(NewRecord.e) = Absent
  BY NewRecordReclaimed DEF NodeOf
<1>5. NodeOf(root.e) = Made(EmptyValue, DefaultPerms)
  <2>1. \A v \in Value, pl \in PermList :
           NodeOf(WriteEntry(NewRecord, v, pl).e)
              = [exists |-> TRUE, value |-> v, perms |-> pl, children |-> NodeOf(NewRecord.e).children]
    BY NewRecordGood, WriteEntryNode
  <2> QED
    BY <1>4, <2>1, Constants, Nodes DEF Made
<1> HIDE DEF root
<1>6. Visible(db) = [q \in Path |-> IF q = <<>> THEN Made(EmptyValue, DefaultPerms) ELSE Absent]
  BY <1>2, <1>3, <1>4, <1>5
<1> QED
  BY <1>3, <1>6, SameTrees DEF Serial!Init

LEMMA InsideAsks ==
    ASSUME NEW t, NEW p \in Path, InsideNext(t, p)
    PROVE  t \in trans /\ \E r \in Request : Asked(t, r)
<1>1. t \in trans
  BY DEF InsideNext, TransCreate, TransRead, TransGetChildren, TransDel, TransUpdate,
         TransSetPerms, InTransaction
<1> QED
  BY <1>1 DEF InsideNext, Request

LEMMA InsideRefines ==
    ASSUME WholeDb(db), WholeDb(db'), NEW t \in Tid, NEW p \in Path, InsideNext(t, p)
    PROVE  Serial!Inside(t)
<1>1. trans' = trans /\ \A q \in Path : OwnAt(db[q], db'[q], t)
  BY InsideTrans, TransWithin DEF Within
<1>2. Visible(db') = Visible(db)
  <2>1. \A q \in Path : db'[q].e = db[q].e
    BY <1>1, OwnAtEntry
  <2> QED
    BY <2>1, HiddenServes
<1>3. t \in trans
  BY InsideAsks
<1>4. PICK r \in Request : Asked(t, r)
  BY InsideAsks
<1> DEFINE a == Answer(Found(t, r.path), r)
           fitting == {Answer(w[2][r.path], r) : w \in worlds[t]}
           W == Answered(worlds[t], r, a)
<1>5. worlds' = [worlds EXCEPT ![t] = W]
  BY <1>4 DEF Asked
<1>6. W \in {{}} \cup {Answered(worlds[t], r, b) : b \in fitting}
  <2>1. CASE a \in fitting
    BY <2>1
  <2>2. CASE a \notin fitting
    <3> HIDE DEF a
    <3>1. {w \in worlds[t] : Answer(w[2][r.path], r) = a} = {}
      BY <2>2
    <3>2. W = {}
      BY <3>1 DEF Answered
    <3> QED
      BY <3>2
  <2> QED
    BY <2>1, <2>2
<1> HIDE DEF W, fitting
<1>7. \E V \in {{}} \cup {Answered(worlds[t], r, b) : b \in fitting} :
         worlds' = [worlds EXCEPT ![t] = V]
  BY <1>5, <1>6
<1>8. /\ fitting = {Serial!Answer(w[2][r.path], r) : w \in worlds[t]}
      /\ \A b : Serial!Answered(worlds[t], r, b) = Answered(worlds[t], r, b)
      /\ r \in Serial!Request
  BY <1>4, SameRequests DEF fitting
<1>9. \E V \in {{}} \cup {Serial!Answered(worlds[t], r, b) : b \in fitting} :
         worlds' = [worlds EXCEPT ![t] = V]
  BY <1>7, <1>8
<1> QED
  BY <1>1, <1>2, <1>3, <1>8, <1>9 DEF Serial!Inside

LEMMA StepRefines ==
    ASSUME Tree \subseteq World, SerialInv, SerialInv', [SerialNext]_serialVars
    PROVE  [Serial!Next]_(Serial!vars)
<1>1. TreeInv /\ WholeDb(db) /\ WholeDb(db') /\ trans \subseteq Tid /\ Tidy(db)
  BY NextDb, StepInvDb DEF SerialInv, TreeInv
<1>2. CASE SimpleNext /\ UNCHANGED worlds
  <2>1. trans' = trans
    BY <1>1, <1>2, SimpleDirect DEF Direct
  <2>2. Serial!Outside
    BY <1>1, <1>2, <2>1, OutsideServes, SameRequests DEF Serial!Outside
  <2> QED
    BY <2>2 DEF Serial!Next
<1>3. ASSUME NEW t \in trans, NEW p \in Path, InsideNext(t, p)
      PROVE  Serial!Next
  <2>1. t \in Tid /\ Serial!Inside(t)
    BY <1>1, <1>3, InsideRefines
  <2> QED
    BY <2>1 DEF Serial!Next
<1>4. CASE /\ Branch
           /\ worlds' = IF next_tid \in trans THEN worlds
                        ELSE [worlds EXCEPT ![next_tid] = Fresh]
  <2>1. db' = db /\ trans' = trans \cup {next_tid} /\ next_tid \in Tid
    BY <1>1, <1>4 DEF Branch, TreeInv, StepInv, IInv, TypeOK
  <2>2. Visible(db') = Visible(db)
    BY <2>1
  <2>3. CASE next_tid \in trans
    <3>1. trans' = trans /\ worlds' = worlds
      BY <1>4, <2>1, <2>3
    <3> QED
      BY <2>2, <3>1 DEF Serial!vars
  <2>4. CASE next_tid \notin trans
    <3>1. Serial!Begin(next_tid)
      BY <1>4, <2>1, <2>2, <2>4, SameRequests DEF Serial!Begin
    <3> QED
      BY <2>1, <3>1 DEF Serial!Next
  <2> QED
    BY <2>3, <2>4
<1>5. ASSUME NEW t \in trans, Merge(t) \/ Abort(t), worlds' = [worlds EXCEPT ![t] = {}]
      PROVE  Serial!Next
  <2>1. t \in Tid /\ trans' = trans \ {t}
    BY <1>1, <1>5 DEF Merge, Abort
  <2>2. Serial!Ends(t)
    BY <1>5, <2>1 DEF Serial!Ends
  <2>3. CASE Merge(t) /\ CanMerge(t)
    <3> DEFINE c == Visible(db)
               w == <<c, SeenDb(db, t, c)>>
    <3>1. SoundDb(db, t) /\ \A b : FitsDb(db, t, b) => <<b, SeenDb(db, t, b)>> \in worlds[t]
      BY <2>3 DEF SerialInv, Traced
    <3>2. FitsDb(db, t, c) /\ Visible(db') = Serial!Committed(w)
      BY <1>1, <2>1, <2>3, <3>1, CommitServes
    <3>3. w \in worlds[t] /\ w[1] = Visible(db)
      <4> HIDE DEF c
      <4>1. w \in worlds[t] /\ w[1] = c
        BY <3>1, <3>2
      <4> QED
        BY <4>1 DEF c
    <3> HIDE DEF w, c
    <3>4. Serial!Commit(t)
      BY <2>2, <3>2, <3>3 DEF Serial!Commit
    <3> QED
      BY <2>1, <3>4 DEF Serial!Next
  <2>4. CASE Aborts(t)
    <3>1. \A q \in Path : db'[q] = IF Touched(db[q], t) THEN AbortRec(db[q], t) ELSE db[q]
      BY <1>1, <2>1, <2>4, AbortEnds
    <3>2. \A q \in Path : \/ db'[q].e = db[q].e
                          \/ ~IsValid(db[q].e) /\ ~IsValid(db'[q].e)
      BY <1>1, <2>1, <3>1, WholeDbRecords, AbortRecEnded
    <3>3. Visible(db') = Visible(db)
      BY <1>1, <3>2, HiddenServes
    <3>4. Serial!Abort(t)
      BY <2>2, <3>3 DEF Serial!Abort
    <3> QED
      BY <2>1, <3>4 DEF Serial!Next
  <2> QED
    BY <1>5, <2>3, <2>4 DEF Aborts
<1>6. CASE UNCHANGED serialVars
  <2>1. UNCHANGED Serial!vars
    BY <1>6 DEF serialVars, vars, Serial!vars
  <2> QED
    BY <2>1
<1> QED
  BY <1>2, <1>3, <1>4, <1>5, <1>6 DEF SerialNext

(* The store implements the abstract one: a transaction that commits could *)
(* have run, with the very answers it got, all at once when it was merged; *)
(* what it does before is invisible, and if it aborts leaves no trace      *)
(* (mstore.cc:200, transaction.cc:281).  World must hold every tree a      *)
(* transaction might start from.                                           *)
THEOREM SpecSerializable ==
    ASSUME Tree \subseteq World
    PROVE  SerialSpec => Serializable
<1>1. SerialInit => SerialInv /\ Serial!Init
  BY InitSerialInv, InitRefines
<1>2. SerialInv /\ [SerialNext]_serialVars => SerialInv' /\ [Serial!Next]_(Serial!vars)
  BY NextSerialInv, StepRefines
<1>3. SerialSpec => Serial!Init /\ [][Serial!Next]_(Serial!vars)
  BY <1>1, <1>2, PTL DEF SerialSpec
<1> QED
  BY <1>3 DEF Serializable, Serial!Spec

=============================================================================
