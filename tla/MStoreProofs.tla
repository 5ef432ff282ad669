---------------------------- MODULE MStoreProofs ----------------------------
(* What TLAPS proves of the store, for any set of paths, values, clients   *)
(* and permission lists, any number of transactions and sequence numbers   *)
(* that grow forever: the types of the state, that the validation of       *)
(* can_merge is sound, and what a step may do to the open transactions.    *)
(* The invariant speaks of one record at a time, so the proof first shows  *)
(* that every operator on records preserves it, then that every action     *)
(* applies those operators to each record.                                 *)
EXTENDS MStore, FiniteSetTheorems, TLAPS

-----------------------------------------------------------------------------
(* Constants and helpers.                                                  *)

LEMMA Constants ==
    /\ 0 \in Tid /\ 1 \in Tid
    /\ EmptyValue \in Value
    /\ <<>> \in PermList /\ DefaultPerms \in PermList
    /\ PermLists \subseteq PermList
    /\ NoTentry \in Tentry
    /\ NewEntry \in Entry
  BY DataAssumption, TidAssumption DEF Tid, PermList, NoTentry, Tentry, NewEntry, Entry

LEMMA CardinalityOfNames ==
    ASSUME NEW cs \in SUBSET Name
    PROVE  /\ Cardinality(cs) \in Nat
           /\ cs # {} => Cardinality(cs) > 0
<1>1. IsFiniteSet(cs)
  BY NameAssumption, FS_Subset
<1>2. Cardinality(cs) \in Nat
  BY <1>1, FS_CardinalityType
<1>3. cs # {} => Cardinality(cs) # 0
  BY <1>1, FS_EmptySet
<1>4. QED
  BY <1>2, <1>3

-----------------------------------------------------------------------------
(* A record of the right type that satisfies the invariant.                *)

Good(r) == r \in Record /\ RecordSound(r)

USE DEF Good

LEMMA NewRecordGood == Good(NewRecord)
<1>1. NewRecord \in Record
  BY Constants DEF NewRecord, Record
<1>2. SeqsBelowNext(NewRecord)
  BY DEF SeqsBelowNext, NewRecord, NewEntry, NoTentry
<1>3. NewRecord.e.children = {}
  BY DEF NewRecord, NewEntry
<1>4. \A t \in Tid : ~Touched(NewRecord, t)
  BY DEF NewRecord, NoTentry, Touched
<1>5. QED
  BY <1>1, <1>2, <1>3, <1>4 DEF RecordSound, CopySound

(* A change of the entry alone keeps the record good, provided no          *)
(* transaction is left able to commit on knowledge that became stale.      *)
LEMMA EntryChange ==
    ASSUME NEW r, Good(r), NEW x \in Entry, NEW n \in Nat, n > r.next_seq,
           x.write_seq < n, x.delete_seq < n, x.write_children_seq < n,
           ~IsValid(x) => x.children = {},
           NEW w, w = [r EXCEPT !.e = x, !.next_seq = n],
           \A t \in Tid : Touched(r, t) /\ CanMergeRec(w, t) =>
               CanMergeRec(r, t) /\ (CopyCurrent(r, t) => CopyCurrent(w, t))
    PROVE  Good(w)
<1>1. w \in Record
  <2>1. n \in Nat \ {0}
    BY DEF Record
  <2>2. QED
    BY <2>1 DEF Record
<1>2. w.e = x /\ w.te = r.te /\ w.next_seq = n
  BY DEF Record
<1>3. SeqsBelowNext(w)
  BY <1>2 DEF SeqsBelowNext, RecordSound, Touched, Record, Entry, Tentry
<1>4. ASSUME NEW t \in Tid
      PROVE  CopySound(w, t)
  BY <1>2 DEF CopySound, RecordSound, Touched
<1>5. QED
  BY <1>1, <1>2, <1>3, <1>4 DEF RecordSound

(* A change of transaction t's copy alone keeps the record good, provided  *)
(* the new copy is sound.                                                  *)
LEMMA CopyChange ==
    ASSUME NEW r, Good(r), NEW t \in Tid, NEW x \in Tentry,
           NEW n \in Nat, n >= r.next_seq,
           x.init_seq # 0 => /\ x.init_seq < n /\ x.read_seq < n
                             /\ x.read_children_seq < n,
           NEW w, w = [r EXCEPT !.te[t] = x, !.next_seq = n],
           CopySound(w, t)
    PROVE  Good(w)
<1>1. w \in Record
  <2> DEFINE f == [r.te EXCEPT ![t] = x]
  <2>1. n \in Nat \ {0}
    BY DEF Record
  <2>2. f \in [Tid -> Tentry]
    BY DEF Record
  <2>3. w = [r EXCEPT !.te = f, !.next_seq = n]
    BY DEF Record
  <2> HIDE DEF f
  <2>4. QED
    BY <2>1, <2>2, <2>3 DEF Record
<1>2. /\ w.e = r.e /\ w.next_seq = n /\ w.te[t] = x
      /\ \A u \in Tid : u # t => w.te[u] = r.te[u]
  BY DEF Record
<1>3. SeqsBelowNext(w)
  <2>1. \A u \in Tid : w.te[u] \in Tentry /\ r.te[u] \in Tentry
    BY <1>1 DEF Record
  <2>2. QED
    BY <1>2, <2>1 DEF SeqsBelowNext, RecordSound, Touched, Record, Entry, Tentry
<1>4. ASSUME NEW u \in Tid, u # t
      PROVE  CopySound(w, u)
  BY <1>2, <1>4 DEF CopySound, RecordSound, Touched, CanMergeRec, CopyCurrent
<1>5. QED
  BY <1>1, <1>2, <1>3, <1>4 DEF RecordSound

-----------------------------------------------------------------------------
(* The operators of simple_access.                                         *)

LEMMA WriteEntryGood ==
    ASSUME NEW r, Good(r), NEW v \in Value, NEW pl \in PermList
    PROVE  /\ Good(WriteEntry(r, v, pl))
           /\ IsValid(WriteEntry(r, v, pl).e)
           /\ WriteEntry(r, v, pl).e.children = r.e.children
           /\ WriteEntry(r, v, pl).te = r.te
<1> DEFINE w == WriteEntry(r, v, pl)
           x == [r.e EXCEPT !.value = v, !.perms = pl, !.write_seq = r.next_seq]
           n == r.next_seq + 1
<1>1. r.next_seq \in Nat /\ n \in Nat /\ n > r.next_seq
  BY DEF Record
<1>2. x \in Entry
  BY <1>1 DEF Record, Entry
<1>3. /\ x.write_seq = r.next_seq /\ x.delete_seq = r.e.delete_seq
      /\ x.children = r.e.children
      /\ x.write_children_seq = r.e.write_children_seq
  BY DEF Record, Entry
<1>4. w = [r EXCEPT !.e = x, !.next_seq = n]
  BY DEF WriteEntry
<1>5. w.e = x /\ w.te = r.te
  BY <1>4 DEF Record
<1>6. IsValid(x)
  BY <1>3 DEF IsValid, SeqsBelowNext, RecordSound, Record, Entry
<1>7. x.write_seq < n /\ x.delete_seq < n /\ x.write_children_seq < n
  BY <1>1, <1>3 DEF SeqsBelowNext, RecordSound, Record, Entry
<1>8. ASSUME NEW t \in Tid, Touched(r, t), CanMergeRec(w, t)
      PROVE  CanMergeRec(r, t) /\ (CopyCurrent(r, t) => CopyCurrent(w, t))
  <2>1. r.te[t] \in Tentry /\ r.te[t].init_seq < r.next_seq /\ r.te[t].read_seq < r.next_seq
    BY <1>8 DEF Record, RecordSound, SeqsBelowNext
  <2>2. r.te[t].init_valid /\ r.te[t].read_seq = 0
    BY <1>1, <1>3, <1>5, <1>8, <2>1 DEF CanMergeRec, Tentry
  <2>3. CanMergeRec(r, t)
    BY <1>3, <1>5, <1>8, <2>2 DEF CanMergeRec
  <2>4. QED
    BY <1>3, <1>5, <1>6, <2>2, <2>3 DEF CopyCurrent
<1> HIDE DEF w, x, n
<1>9. Good(w)
  BY <1>1, <1>2, <1>4, <1>6, <1>7, <1>8, EntryChange
<1>10. QED
  BY <1>3, <1>5, <1>6, <1>9 DEF w

LEMMA SetChildrenGood ==
    ASSUME NEW r, Good(r), NEW cs \in SUBSET Name, IsValid(r.e)
    PROVE  Good(SetChildren(r, cs))
<1> DEFINE w == SetChildren(r, cs)
           x == [r.e EXCEPT !.children = cs, !.write_children_seq = r.next_seq]
           n == r.next_seq + 1
<1>1. r.next_seq \in Nat /\ n \in Nat /\ n > r.next_seq
  BY DEF Record
<1>2. x \in Entry
  BY <1>1 DEF Record, Entry
<1>3. /\ x.write_seq = r.e.write_seq /\ x.delete_seq = r.e.delete_seq
      /\ x.value = r.e.value /\ x.perms = r.e.perms
      /\ x.write_children_seq = r.next_seq
  BY DEF Record, Entry
<1>4. w = [r EXCEPT !.e = x, !.next_seq = n]
  BY DEF SetChildren
<1>5. w.e = x /\ w.te = r.te
  BY <1>4 DEF Record
<1>6. IsValid(x)
  BY <1>3 DEF IsValid
<1>7. x.write_seq < n /\ x.delete_seq < n /\ x.write_children_seq < n
  BY <1>1, <1>3 DEF SeqsBelowNext, RecordSound, Record, Entry
<1>8. ASSUME NEW t \in Tid, Touched(r, t), CanMergeRec(w, t)
      PROVE  CanMergeRec(r, t) /\ (CopyCurrent(r, t) => CopyCurrent(w, t))
  <2>1. r.te[t] \in Tentry /\ r.te[t].read_children_seq < r.next_seq
    BY <1>8 DEF Record, RecordSound, SeqsBelowNext
  <2>2. r.te[t].read_children_seq = 0
    BY <1>1, <1>3, <1>5, <1>8, <2>1 DEF CanMergeRec, Tentry
  <2>3. CanMergeRec(r, t)
    BY <1>3, <1>5, <1>8, <2>2 DEF CanMergeRec
  <2>4. QED
    BY <1>3, <1>5, <2>2, <2>3 DEF CopyCurrent, IsValid
<1> HIDE DEF w, x, n
<1>9. Good(w)
  BY <1>1, <1>2, <1>4, <1>6, <1>7, <1>8, EntryChange
<1>10. QED
  BY <1>9 DEF w

LEMMA RemoveChildrenGood ==
    ASSUME NEW r, Good(r), NEW cs \in SUBSET Name
    PROVE  /\ Good(RemoveChildren(r, cs))
           /\ IsValid(RemoveChildren(r, cs).e) <=> IsValid(r.e)
           /\ RemoveChildren(r, cs).e.children = r.e.children \ cs
<1>1. CASE cs = {}
  BY <1>1 DEF RemoveChildren
<1>2. CASE cs # {}
  <2> DEFINE w == RemoveChildren(r, cs)
             k == Cardinality(cs)
             x == [r.e EXCEPT !.children = @ \ cs,
                              !.write_children_seq = r.next_seq + k - 1]
             n == r.next_seq + k
  <2>0. k \in Nat /\ k > 0
    BY <1>2, CardinalityOfNames
  <2> HIDE DEF k
  <2>1. /\ r.next_seq \in Nat /\ n \in Nat /\ n > r.next_seq
        /\ r.next_seq + k - 1 \in Nat
    BY <2>0 DEF Record
  <2>2. x \in Entry
    BY <2>1 DEF Record, Entry
  <2>3. /\ x.write_seq = r.e.write_seq /\ x.delete_seq = r.e.delete_seq
        /\ x.value = r.e.value /\ x.perms = r.e.perms
        /\ x.children = r.e.children \ cs
        /\ x.write_children_seq = r.next_seq + k - 1
    BY DEF Record, Entry
  <2>4. w = [r EXCEPT !.e = x, !.next_seq = n]
    BY <1>2 DEF RemoveChildren, k
  <2>5. w.e = x /\ w.te = r.te
    BY <2>4 DEF Record
  <2>6. IsValid(x) <=> IsValid(r.e)
    BY <2>3 DEF IsValid
  <2>7. x.write_seq < n /\ x.delete_seq < n /\ x.write_children_seq < n
    BY <2>0, <2>1, <2>3 DEF SeqsBelowNext, RecordSound, Record, Entry
  <2>8. ~IsValid(x) => x.children = {}
    BY <2>3, <2>6 DEF RecordSound
  <2>9. ASSUME NEW t \in Tid, Touched(r, t), CanMergeRec(w, t)
        PROVE  CanMergeRec(r, t) /\ (CopyCurrent(r, t) => CopyCurrent(w, t))
    <3>1. r.te[t] \in Tentry /\ r.te[t].read_children_seq < r.next_seq
      BY <2>9 DEF Record, RecordSound, SeqsBelowNext
    <3>2. r.te[t].read_children_seq = 0
      <4>1. x.write_children_seq > r.te[t].read_children_seq
        BY <2>0, <2>1, <2>3, <3>1 DEF Tentry
      <4>2. w.te[t] = r.te[t] /\ w.e.write_children_seq = x.write_children_seq
        BY <2>5
      <4> HIDE DEF w, x
      <4>3. QED
        BY <2>2, <2>9, <3>1, <4>1, <4>2 DEF CanMergeRec, Tentry, Entry
    <3>3. CanMergeRec(r, t)
      BY <2>3, <2>5, <2>9, <3>2 DEF CanMergeRec
    <3>4. QED
      BY <2>3, <2>5, <2>6, <3>2, <3>3 DEF CopyCurrent
  <2> HIDE DEF w, x, n
  <2>10. Good(w)
    BY <2>1, <2>2, <2>4, <2>7, <2>8, <2>9, EntryChange
  <2>11. QED
    BY <2>3, <2>5, <2>6, <2>10 DEF w
<1>3. QED
  BY <1>1, <1>2

LEMMA MarkDeletedGood ==
    ASSUME NEW r, Good(r), IsValid(r.e), r.e.children = {}
    PROVE  Good(MarkDeleted(r))
<1>1. CASE Untouched(r)
  BY <1>1, NewRecordGood DEF MarkDeleted
<1>2. CASE ~Untouched(r)
  <2> DEFINE w == MarkDeleted(r)
             x == [r.e EXCEPT !.delete_seq = r.next_seq]
             n == r.next_seq + 1
  <2>1. r.next_seq \in Nat /\ n \in Nat /\ n > r.next_seq
    BY DEF Record
  <2>2. x \in Entry
    BY <2>1 DEF Record, Entry
  <2>3. /\ x.write_seq = r.e.write_seq /\ x.delete_seq = r.next_seq
        /\ x.children = {} /\ x.write_children_seq = r.e.write_children_seq
    BY DEF Record, Entry
  <2>4. w = [r EXCEPT !.e = x, !.next_seq = n]
    BY <1>2 DEF MarkDeleted, Record
  <2>5. w.e = x /\ w.te = r.te
    BY <2>4 DEF Record
  <2>6. x.write_seq < n /\ x.delete_seq < n /\ x.write_children_seq < n
    BY <2>1, <2>3 DEF SeqsBelowNext, RecordSound, Record, Entry
  <2>7. ASSUME NEW t \in Tid, Touched(r, t), CanMergeRec(w, t)
        PROVE  FALSE
    <3>1. r.te[t] \in Tentry /\ r.te[t].init_seq < r.next_seq
      BY <2>7 DEF Record, RecordSound, SeqsBelowNext
    <3>2. ~r.te[t].init_valid
      BY <2>1, <2>3, <2>5, <2>7, <3>1 DEF CanMergeRec, Tentry
    <3>3. CanMergeRec(r, t)
      BY <2>3, <2>5, <2>7, <3>2 DEF CanMergeRec
    <3>4. r.te[t].init_valid
      BY <2>7, <3>3 DEF RecordSound, CopySound, CopyCurrent
    <3>5. QED
      BY <3>2, <3>4
  <2> HIDE DEF w, x, n
  <2>8. QED
    BY <2>1, <2>2, <2>3, <2>4, <2>6, <2>7, EntryChange DEF w
<1>3. QED
  BY <1>1, <1>2

-----------------------------------------------------------------------------
(* The operators of transactions.                                          *)

LEMMA GetTentryGood ==
    ASSUME NEW r, Good(r), NEW t \in Tid
    PROVE  Good(GetTentry(r, t)) /\ GetTentry(r, t).e = r.e
<1>1. CASE Touched(r, t)
  BY <1>1 DEF GetTentry
<1>2. CASE ~Touched(r, t)
  <2> DEFINE w == GetTentry(r, t)
             x == [NoTentry EXCEPT !.write_seq = r.e.write_seq,
                                   !.delete_seq = r.e.delete_seq,
                                   !.init_valid = IsValid(r.e),
                                   !.init_seq = r.next_seq]
             n == r.next_seq + 1
  <2>1. r.next_seq \in Nat /\ n \in Nat /\ n >= r.next_seq /\ 0 < n /\ r.next_seq < n
    BY DEF Record
  <2>2. r.e \in Entry /\ r.e.write_seq < r.next_seq /\ r.e.delete_seq < r.next_seq
    BY DEF Record, RecordSound, SeqsBelowNext
  <2>3. x \in Tentry
    <3>1. IsValid(r.e) \in BOOLEAN
      BY DEF IsValid
    <3>2. NoTentry \in Tentry
      BY Constants
    <3>3. r.e.write_seq \in Nat /\ r.e.delete_seq \in Nat
      BY <2>2 DEF Entry
    <3>4. QED
      BY <2>1, <3>1, <3>2, <3>3 DEF Tentry
  <2>4. /\ x.write_seq = r.e.write_seq /\ x.delete_seq = r.e.delete_seq
        /\ x.init_valid = IsValid(r.e) /\ x.init_seq = r.next_seq
        /\ x.read_seq = 0 /\ x.read_children_seq = 0 /\ x.children = {}
    BY DEF NoTentry
  <2>5. w = [r EXCEPT !.te[t] = x, !.next_seq = n]
    BY <1>2 DEF GetTentry
  <2>6. w.e = r.e /\ w.te[t] = x
    BY <2>5 DEF Record
  <2> HIDE DEF w, x, n
  <2>7. CopySound(w, t)
    <3>1. x.write_seq # x.init_seq
      BY <2>1, <2>2, <2>4 DEF Entry
    <3>2. IsValid(x) <=> x.init_valid
      BY <2>4 DEF IsValid
    <3>3. CopyCurrent(w, t)
      BY <2>4, <2>6 DEF CopyCurrent
    <3>4. QED
      BY <2>4, <2>6, <3>1, <3>2, <3>3 DEF CopySound
  <2>8. Good(w)
    BY <2>1, <2>3, <2>4, <2>5, <2>7, CopyChange
  <2>9. QED
    BY <2>6, <2>8 DEF w
<1>3. QED
  BY <1>1, <1>2

LEMMA FetchDataGood ==
    ASSUME NEW r, Good(r), NEW t \in Tid
    PROVE  Good(FetchData(r, t)) /\ FetchData(r, t).e = r.e
<1>1. CASE r.te[t].read_seq # 0
  BY <1>1 DEF FetchData
<1>2. CASE r.te[t].read_seq = 0
  <2> DEFINE w == FetchData(r, t)
             te == r.te[t]
             copy == IF Pristine(te)
                     THEN [te EXCEPT !.value = r.e.value, !.perms = r.e.perms]
                     ELSE te
             x == [copy EXCEPT !.read_seq = r.next_seq]
             n == r.next_seq + 1
  <2>1. r.next_seq \in Nat /\ n \in Nat /\ n >= r.next_seq /\ r.next_seq < n
    BY DEF Record
  <2>2. /\ r.e \in Entry /\ te \in Tentry /\ r.e.write_seq < r.next_seq
        /\ te.init_seq # 0 => /\ te.init_seq < r.next_seq
                              /\ te.read_children_seq < r.next_seq
    BY DEF Record, RecordSound, SeqsBelowNext, Touched
  <2>3. copy \in Tentry /\ x \in Tentry
    BY <2>1, <2>2 DEF Entry, Tentry
  <2>4. /\ x.write_seq = te.write_seq /\ x.delete_seq = te.delete_seq
        /\ x.init_valid = te.init_valid /\ x.init_seq = te.init_seq
        /\ x.read_seq = r.next_seq /\ x.read_children_seq = te.read_children_seq
        /\ x.children = te.children
        /\ Pristine(te) => x.value = r.e.value /\ x.perms = r.e.perms
    BY <2>2 DEF Tentry
  <2>5. w = [r EXCEPT !.te[t] = x, !.next_seq = n]
    BY <1>2 DEF FetchData
  <2>6. w.e = r.e /\ w.te[t] = x
    BY <2>5 DEF Record
  <2>7. x.init_seq # 0 => /\ x.init_seq < n /\ x.read_seq < n
                          /\ x.read_children_seq < n
    BY <2>1, <2>2, <2>4 DEF Tentry
  <2>8. (Pristine(x) <=> Pristine(te)) /\ (IsValid(x) <=> IsValid(te))
    BY <2>4 DEF Pristine, IsValid
  <2> HIDE DEF w, copy, x, n
  <2>9. CopySound(w, t)
    <3>1. Touched(w, t) => Touched(r, t)
      BY <2>4, <2>6 DEF Touched
    <3>2. CanMergeRec(w, t) => CanMergeRec(r, t)
      BY <1>2, <2>4, <2>6 DEF CanMergeRec
    <3>3. CopyCurrent(r, t) => CopyCurrent(w, t)
      BY <2>4, <2>6, <2>8 DEF CopyCurrent
    <3>4. QED
      BY <2>4, <2>6, <2>8, <3>1, <3>2, <3>3 DEF CopySound, RecordSound
  <2>10. Good(w)
    BY <2>1, <2>3, <2>5, <2>7, <2>9, CopyChange
  <2>11. QED
    BY <2>6, <2>10 DEF w
<1>3. QED
  BY <1>1, <1>2

LEMMA FetchChildrenGood ==
    ASSUME NEW r, Good(r), NEW t \in Tid
    PROVE  Good(FetchChildren(r, t)) /\ FetchChildren(r, t).e = r.e
<1>1. CASE r.te[t].read_children_seq # 0
  BY <1>1 DEF FetchChildren
<1>2. CASE r.te[t].read_children_seq = 0
  <2> DEFINE w == FetchChildren(r, t)
             te == r.te[t]
             copy == IF IsValid(r.e)
                     THEN [te EXCEPT !.children = @ \cup r.e.children]
                     ELSE te
             x == [copy EXCEPT !.read_children_seq = r.next_seq]
             n == r.next_seq + 1
  <2>1. /\ r.next_seq \in Nat /\ r.next_seq # 0 /\ n \in Nat
        /\ n >= r.next_seq /\ r.next_seq < n
    BY DEF Record
  <2>2. /\ r.e \in Entry /\ te \in Tentry /\ r.e.write_children_seq < r.next_seq
        /\ te.init_seq # 0 => /\ te.init_seq < r.next_seq
                              /\ te.read_seq < r.next_seq
    BY DEF Record, RecordSound, SeqsBelowNext, Touched
  <2>3. copy \in Tentry /\ x \in Tentry
    BY <2>1, <2>2 DEF Entry, Tentry
  <2>4. /\ x.write_seq = te.write_seq /\ x.delete_seq = te.delete_seq
        /\ x.init_valid = te.init_valid /\ x.init_seq = te.init_seq
        /\ x.read_seq = te.read_seq /\ x.read_children_seq = r.next_seq
        /\ x.value = te.value /\ x.perms = te.perms
        /\ x.children = IF IsValid(r.e) THEN te.children \cup r.e.children
                                        ELSE te.children
    BY <2>2 DEF Tentry
  <2>5. w = [r EXCEPT !.te[t] = x, !.next_seq = n]
    BY <1>2 DEF FetchChildren
  <2>6. w.e = r.e /\ w.te[t] = x
    BY <2>5 DEF Record
  <2>7. x.init_seq # 0 => /\ x.init_seq < n /\ x.read_seq < n
                          /\ x.read_children_seq < n
    BY <2>1, <2>2, <2>4 DEF Tentry
  <2>8. (Pristine(x) <=> Pristine(te)) /\ (IsValid(x) <=> IsValid(te))
    BY <2>4 DEF Pristine, IsValid
  <2>9. Touched(r, t) => x.children = r.e.children
    BY <1>2, <2>4 DEF RecordSound, CopySound
  <2> HIDE DEF w, copy, x, n
  <2>10. CopySound(w, t)
    <3>1. Touched(w, t) => Touched(r, t)
      BY <2>4, <2>6 DEF Touched
    <3>2. CanMergeRec(w, t) => CanMergeRec(r, t)
      BY <1>2, <2>4, <2>6 DEF CanMergeRec
    <3>3. Touched(r, t) /\ CopyCurrent(r, t) => CopyCurrent(w, t)
      BY <2>4, <2>6, <2>8, <2>9 DEF CopyCurrent
    <3>4. QED
      BY <2>1, <2>4, <2>6, <2>8, <3>1, <3>2, <3>3 DEF CopySound, RecordSound
  <2>11. Good(w)
    BY <2>1, <2>3, <2>5, <2>7, <2>10, CopyChange
  <2>12. QED
    BY <2>6, <2>11 DEF w
<1>3. QED
  BY <1>1, <1>2

(* What a transaction writes to or deletes from its own copy changes       *)
(* neither what it has read nor what can_merge compares.                   *)
LEMMA OwnWrite ==
    ASSUME NEW r, Good(r), NEW t \in Tid, NEW x \in Tentry,
           NEW n \in Nat, n >= r.next_seq,
           NEW w, w = [r EXCEPT !.te[t] = x, !.next_seq = n],
           x.init_seq = r.te[t].init_seq, x.init_valid = r.te[t].init_valid,
           x.read_seq = r.te[t].read_seq, x.children = r.te[t].children,
           x.read_children_seq = r.te[t].read_children_seq,
           x.write_seq # x.init_seq,
           Pristine(x) => /\ Pristine(r.te[t])
                          /\ IsValid(x) <=> IsValid(r.te[t])
                          /\ x.value = r.te[t].value /\ x.perms = r.te[t].perms
    PROVE  Good(w)
<1> DEFINE te == r.te[t]
<1>1. w.e = r.e /\ w.te[t] = x
  BY DEF Record
<1>2. te.init_seq # 0 => /\ te.init_seq < r.next_seq /\ te.read_seq < r.next_seq
                         /\ te.read_children_seq < r.next_seq
  BY DEF RecordSound, SeqsBelowNext, Touched
<1>3. x.init_seq # 0 => /\ x.init_seq < n /\ x.read_seq < n
                        /\ x.read_children_seq < n
  BY <1>2 DEF Tentry, Record
<1>4. CopySound(w, t)
  <2>1. Touched(w, t) <=> Touched(r, t)
    BY <1>1 DEF Touched
  <2>2. CanMergeRec(w, t) <=> CanMergeRec(r, t)
    BY <1>1 DEF CanMergeRec
  <2>3. CopyCurrent(r, t) => CopyCurrent(w, t)
    BY <1>1 DEF CopyCurrent
  <2>4. QED
    BY <1>1, <2>1, <2>2, <2>3 DEF CopySound, RecordSound
<1>5. QED
  BY <1>3, <1>4, CopyChange

LEMMA TWriteGood ==
    ASSUME NEW r, Good(r), NEW t \in Tid, NEW v \in Value, NEW pl \in PermList
    PROVE  Good(TWrite(r, t, v, pl))
<1> DEFINE te == r.te[t]
           x == [te EXCEPT !.value = v, !.perms = pl, !.write_seq = r.next_seq]
           n == r.next_seq + 1
           w == TWrite(r, t, v, pl)
<1>1. r.next_seq \in Nat /\ n \in Nat /\ n >= r.next_seq
  BY DEF Record
<1>2. te \in Tentry /\ te.init_seq < r.next_seq
  BY DEF Record, RecordSound, SeqsBelowNext, Touched
<1>3. x \in Tentry
  BY <1>1, <1>2 DEF Tentry
<1>4. /\ x.init_seq = te.init_seq /\ x.init_valid = te.init_valid
      /\ x.read_seq = te.read_seq /\ x.children = te.children
      /\ x.read_children_seq = te.read_children_seq
      /\ x.write_seq = r.next_seq
  BY <1>2 DEF Tentry
<1>5. w = [r EXCEPT !.te[t] = x, !.next_seq = n]
  BY DEF TWrite
<1>6. x.write_seq # x.init_seq /\ ~Pristine(x)
  BY <1>1, <1>2, <1>4 DEF Pristine, Tentry
<1> HIDE DEF x, n, w
<1>7. Good(w)
  BY <1>1, <1>3, <1>4, <1>5, <1>6, OwnWrite
<1>8. QED
  BY <1>7 DEF w

LEMMA TMarkDeletedGood ==
    ASSUME NEW r, Good(r), NEW t \in Tid
    PROVE  Good(TMarkDeleted(r, t))
<1> DEFINE te == r.te[t]
           x == [te EXCEPT !.delete_seq = r.next_seq]
           n == r.next_seq + 1
           w == TMarkDeleted(r, t)
<1>1. r.next_seq \in Nat /\ n \in Nat /\ n >= r.next_seq
  BY DEF Record
<1>2. te \in Tentry /\ te.init_seq < r.next_seq
  BY DEF Record, RecordSound, SeqsBelowNext, Touched
<1>3. x \in Tentry
  BY <1>1, <1>2 DEF Tentry
<1>4. /\ x.init_seq = te.init_seq /\ x.init_valid = te.init_valid
      /\ x.read_seq = te.read_seq /\ x.children = te.children
      /\ x.read_children_seq = te.read_children_seq
      /\ x.write_seq = te.write_seq /\ x.delete_seq = r.next_seq
  BY <1>2 DEF Tentry
<1>5. w = [r EXCEPT !.te[t] = x, !.next_seq = n]
  BY DEF TMarkDeleted
<1>6. ~Pristine(x)
  BY <1>1, <1>2, <1>4 DEF Pristine, Tentry
<1> HIDE DEF x, n, w
<1>7. CASE Touched(r, t)
  <2>1. x.write_seq # x.init_seq
    BY <1>4, <1>7 DEF RecordSound, CopySound
  <2>2. Good(w)
    BY <1>1, <1>3, <1>4, <1>5, <1>6, <2>1, OwnWrite
  <2>3. QED
    BY <2>2 DEF w
<1>8. CASE ~Touched(r, t)
  <2>1. ~Touched(w, t)
    BY <1>4, <1>5, <1>8 DEF Touched, Record
  <2>2. CopySound(w, t)
    BY <2>1 DEF CopySound
  <2>3. x.init_seq = 0
    BY <1>4, <1>8 DEF Touched
  <2>4. Good(w)
    BY <1>1, <1>3, <1>5, <2>2, <2>3, CopyChange
  <2>5. QED
    BY <2>4 DEF w
<1>9. QED
  BY <1>7, <1>8

(* Registering and unregistering children touches nothing the invariant    *)
(* speaks of.                                                              *)
LEMMA ChildrenListGood ==
    ASSUME NEW r, Good(r), NEW t \in Tid,
           NEW add \in SUBSET Name, NEW rem \in SUBSET Name, NEW x, NEW w,
           x = [r.te[t] EXCEPT !.children_add = add, !.children_rem = rem],
           w = [r EXCEPT !.te[t] = x]
    PROVE  Good(w)
<1> DEFINE te == r.te[t]
           n == r.next_seq
<1>1. te \in Tentry /\ n \in Nat /\ n >= r.next_seq
  BY DEF Record
<1>2. x \in Tentry
  BY <1>1 DEF Tentry
<1>3. /\ x.init_seq = te.init_seq /\ x.init_valid = te.init_valid
      /\ x.read_seq = te.read_seq /\ x.children = te.children
      /\ x.read_children_seq = te.read_children_seq
      /\ x.write_seq = te.write_seq /\ x.delete_seq = te.delete_seq
      /\ x.value = te.value /\ x.perms = te.perms
  BY <1>1 DEF Tentry
<1>4. w = [r EXCEPT !.te[t] = x, !.next_seq = n]
  BY DEF Record
<1>5. (Pristine(x) <=> Pristine(te)) /\ (IsValid(x) <=> IsValid(te))
  BY <1>3 DEF Pristine, IsValid
<1>6. w.e = r.e /\ w.te[t] = x
  BY <1>4 DEF Record
<1>7. CopySound(w, t)
  <2>1. Touched(w, t) <=> Touched(r, t)
    BY <1>3, <1>6 DEF Touched
  <2>2. CanMergeRec(w, t) <=> CanMergeRec(r, t)
    BY <1>3, <1>6 DEF CanMergeRec
  <2>3. CopyCurrent(r, t) => CopyCurrent(w, t)
    BY <1>3, <1>5, <1>6 DEF CopyCurrent
  <2>4. QED
    BY <1>3, <1>5, <1>6, <2>1, <2>2, <2>3 DEF CopySound, RecordSound
<1>8. x.init_seq # 0 => /\ x.init_seq < n /\ x.read_seq < n
                        /\ x.read_children_seq < n
  BY <1>3 DEF RecordSound, SeqsBelowNext, Touched
<1> HIDE DEF n
<1>9. QED
  BY <1>1, <1>2, <1>4, <1>7, <1>8, CopyChange

LEMMA TAddChildGood ==
    ASSUME NEW r, Good(r), NEW t \in Tid, NEW c \in Name
    PROVE  Good(TAddChild(r, t, c))
<1> DEFINE add == r.te[t].children_add \cup {c}
           rem == r.te[t].children_rem \ {c}
<1>1. r.te[t] \in Tentry
  BY DEF Record
<1>2. add \in SUBSET Name /\ rem \in SUBSET Name
  BY <1>1 DEF Tentry
<1> DEFINE x == [r.te[t] EXCEPT !.children_add = add, !.children_rem = rem]
<1>3. TAddChild(r, t, c) = [r EXCEPT !.te[t] = x]
  BY <1>1 DEF TAddChild, Tentry
<1> HIDE DEF add, rem
<1>4. QED
  BY <1>2, <1>3, ChildrenListGood

LEMMA TRemoveChildrenGood ==
    ASSUME NEW r, Good(r), NEW t \in Tid, NEW cs \in SUBSET Name
    PROVE  Good(TRemoveChildren(r, t, cs))
<1> DEFINE add == r.te[t].children_add \ cs
           rem == r.te[t].children_rem \cup cs
<1>1. r.te[t] \in Tentry
  BY DEF Record
<1>2. add \in SUBSET Name /\ rem \in SUBSET Name
  BY <1>1 DEF Tentry
<1> DEFINE x == [r.te[t] EXCEPT !.children_add = add, !.children_rem = rem]
<1>3. TRemoveChildren(r, t, cs) = [r EXCEPT !.te[t] = x]
  BY <1>1 DEF TRemoveChildren, Tentry
<1> HIDE DEF add, rem
<1>4. QED
  BY <1>2, <1>3, ChildrenListGood

-----------------------------------------------------------------------------
(* The end of a transaction.                                               *)

LEMMA DropTentryGood ==
    ASSUME NEW r, Good(r), NEW t \in Tid
    PROVE  Good(DropTentry(r, t)) /\ DropTentry(r, t).e = r.e
<1> DEFINE w == DropTentry(r, t)
           n == r.next_seq
<1>1. w = [r EXCEPT !.te[t] = NoTentry, !.next_seq = n]
  BY DEF DropTentry, Record
<1>2. w.e = r.e /\ w.te[t] = NoTentry
  BY <1>1 DEF Record
<1>3. NoTentry.init_seq = 0 /\ NoTentry.read_seq = 0 /\ NoTentry.read_children_seq = 0
  BY DEF NoTentry
<1>4. CopySound(w, t)
  BY <1>2, <1>3 DEF CopySound, Touched
<1>5. n \in Nat /\ n >= r.next_seq /\ 0 < n
  BY DEF Record
<1> HIDE DEF w, n
<1>6. Good(w)
  BY <1>1, <1>3, <1>4, <1>5, Constants, CopyChange
<1>7. QED
  BY <1>2, <1>6 DEF w

(* A transaction's deletion of the entry only uses up a sequence number.   *)
LEMMA SkipSeqGood ==
    ASSUME NEW r, Good(r)
    PROVE  Good([r EXCEPT !.next_seq = @ + 1])
<1> DEFINE n == r.next_seq + 1
           w == [r EXCEPT !.next_seq = n]
<1>1. n \in Nat /\ n > r.next_seq
  BY DEF Record
<1>2. w = [r EXCEPT !.e = r.e, !.next_seq = n] /\ w.e = r.e /\ w.te = r.te
  BY DEF Record
<1>3. /\ r.e \in Entry
      /\ r.e.write_seq < n /\ r.e.delete_seq < n /\ r.e.write_children_seq < n
  BY <1>1 DEF RecordSound, SeqsBelowNext, Record, Entry
<1>4. ~IsValid(r.e) => r.e.children = {}
  BY DEF RecordSound
<1>5. \A t \in Tid : Touched(r, t) /\ CanMergeRec(w, t) =>
          CanMergeRec(r, t) /\ (CopyCurrent(r, t) => CopyCurrent(w, t))
  BY <1>2 DEF CanMergeRec, CopyCurrent
<1> HIDE DEF w, n
<1>6. Good(w)
  BY <1>1, <1>2, <1>3, <1>4, <1>5, EntryChange
<1>7. QED
  BY <1>6 DEF w, n

LEMMA CommitGood ==
    ASSUME NEW r, Good(r), NEW t \in Tid, Touched(r, t), CanMergeRec(r, t)
    PROVE  Good(Commit(r, t))
<1> DEFINE te == r.te[t]
           w == IF WroteData(te) THEN WriteEntry(r, te.value, te.perms) ELSE r
           cs == (r.e.children \cup te.children_add) \ te.children_rem
<1>1. te \in Tentry /\ r.e \in Entry
  BY DEF Record
<1>2. te.value \in Value /\ te.perms \in PermList /\ cs \in SUBSET Name
  BY <1>1 DEF Tentry, Entry
<1>3. Good(w)
  BY <1>2, WriteEntryGood
<1>4. CASE WroteChildren(te)
  <2>1. IsValid(w.e)
    <3>1. CASE WroteData(te)
      BY <1>2, <3>1, WriteEntryGood
    <3>2. CASE ~WroteData(te)
      <4>1. Pristine(te)
        <5>1. te.write_seq # te.init_seq
          BY DEF RecordSound, CopySound
        <5>2. QED
          BY <1>1, <1>4, <3>2, <5>1
             DEF WroteChildren, WroteData, Pristine, IsValid, Tentry
      <4>2. te.init_valid
        BY <1>4, <4>1 DEF RecordSound, CopySound, WroteChildren
      <4>3. IsValid(r.e)
        BY <4>2 DEF RecordSound, CopySound, CopyCurrent
      <4>4. QED
        BY <3>2, <4>3
    <3>3. QED
      BY <3>1, <3>2
  <2>2. Good(SetChildren(w, cs))
    BY <1>2, <1>3, <2>1, SetChildrenGood
  <2>3. ~Deleted(te)
    BY <1>4 DEF WroteChildren, Deleted
  <2>4. Commit(r, t) = SetChildren(w, cs)
    BY <1>4, <2>3 DEF Commit
  <2>5. QED
    BY <2>2, <2>4
<1>5. CASE ~WroteChildren(te) /\ Deleted(te)
  BY <1>5, SkipSeqGood DEF Commit
<1>6. CASE ~WroteChildren(te) /\ ~Deleted(te)
  BY <1>3, <1>6 DEF Commit
<1>7. QED
  BY <1>4, <1>5, <1>6

LEMMA CleanupGood ==
    ASSUME NEW r, Good(r)
    PROVE  Good(Cleanup(r))
<1>1. CASE ~Untouched(r)
  BY <1>1 DEF Cleanup
<1>2. CASE Untouched(r) /\ ~IsValid(r.e)
  BY <1>2, NewRecordGood DEF Cleanup
<1>3. CASE Untouched(r) /\ IsValid(r.e)
  <2> DEFINE w == Cleanup(r)
             x == [r.e EXCEPT !.write_seq = 1, !.delete_seq = 0,
                              !.write_children_seq = 0]
  <2>1. w = [r EXCEPT !.e = x, !.next_seq = 2]
    BY <1>3 DEF Cleanup
  <2>2. x \in Entry
    BY DEF Record, Entry
  <2>3. x.write_seq = 1 /\ x.delete_seq = 0 /\ x.write_children_seq = 0
    BY DEF Record, Entry
  <2> HIDE DEF x, w
  <2>4. w \in Record
    <3>1. 2 \in Nat \ {0}
      OBVIOUS
    <3>2. QED
      BY <2>1, <2>2, <3>1 DEF Record
  <2>5. w.e = x /\ w.te = r.te /\ w.next_seq = 2
    BY <2>1 DEF Record
  <2>6. ASSUME NEW t \in Tid
        PROVE  CopySound(w, t)
    BY <1>3, <2>5 DEF CopySound, Touched, Untouched
  <2>7. SeqsBelowNext(w)
    BY <1>3, <2>3, <2>5 DEF SeqsBelowNext, Touched, Untouched
  <2>8. QED
    BY <2>3, <2>4, <2>5, <2>6, <2>7 DEF RecordSound, IsValid, w
<1>4. QED
  BY <1>1, <1>2, <1>3

LEMMA MergeRecGood ==
    ASSUME NEW r, Good(r), NEW t \in Tid, Touched(r, t), CanMergeRec(r, t)
    PROVE  Good(MergeRec(r, t))
<1>1. Good(Commit(r, t))
  BY CommitGood
<1>2. Good(DropTentry(Commit(r, t), t))
  BY <1>1, DropTentryGood
<1>3. QED
  BY <1>2, CleanupGood DEF MergeRec

LEMMA AbortRecGood ==
    ASSUME NEW r, Good(r), NEW t \in Tid
    PROVE  Good(AbortRec(r, t))
BY DropTentryGood, NewRecordGood DEF AbortRec

-----------------------------------------------------------------------------
(* The paths an operation visits.                                          *)

LEMMA ChainPaths ==
    ASSUME NEW p \in Path, NEW q \in Chain(p)
    PROVE  /\ q \in Path
           /\ Len(q) \in Nat /\ Len(q) <= Len(p)
           /\ q = SubSeq(p, 1, Len(q))
<1>1. p \in Seq(Name) /\ Len(p) \in Nat
  BY PathAssumption
<1>2. PICK n \in 0 .. Len(p) : q = SubSeq(p, 1, n)
  BY DEF Chain
<1>3. q \in Path
  BY <1>2, PathAssumption
<1>4. Len(q) = n
  BY <1>1, <1>2
<1>5. QED
  BY <1>1, <1>2, <1>3, <1>4

(* Of the parents that register a new child, those that are not created by *)
(* the same operation are valid.                                           *)
LEMMA RegistrarsExist ==
    ASSUME NEW V, NEW p \in Path, NEW q \in Registrars(V, p)
    PROVE  /\ q \in Path
           /\ Step(q, p) \in Name
           /\ q \in Missing(V, p) \/ q \in V
<1>1. q \in Chain(p)
  BY DEF Registrars
<1>2. PICK r \in Missing(V, p) : Len(r) = Len(q) + 1
  BY DEF Registrars
<1>3. r \in Chain(p)
  BY <1>2 DEF Missing
<1>4. p \in Seq(Name) /\ Len(p) \in Nat
  BY PathAssumption
<1>5. q \in Path /\ Len(q) \in Nat
  BY <1>1, ChainPaths
<1>6. Len(q) + 1 \in 1 .. Len(p)
  BY <1>2, <1>3, <1>4, <1>5, ChainPaths
<1>7. Step(q, p) \in Name
  BY <1>4, <1>6 DEF Step
<1>8. ASSUME q \notin Missing(V, p)
      PROVE  q \in V
  <2>1. PICK s \in Chain(p) : Len(s) >= Len(q) /\ s \in V
    BY <1>1, <1>8 DEF Missing
  <2>2. ~(Len(s) >= Len(r))
    BY <1>2, <2>1 DEF Missing
  <2>3. Len(s) = Len(q)
    BY <1>2, <1>5, <2>1, <2>2, ChainPaths
  <2>4. s = q
    BY <1>1, <2>1, <2>3, ChainPaths
  <2>5. QED
    BY <2>1, <2>4
<1>9. QED
  BY <1>5, <1>7, <1>8

LEMMA InheritedPermsTyped ==
    ASSUME NEW V, NEW p \in Path, NEW f \in [Path -> PermList]
    PROVE  InheritedPerms(V, p, f) \in PermList
<1> DEFINE nearest == Registrars(V, p) \ Missing(V, p)
<1>1. CASE nearest = {}
  BY <1>1, Constants DEF InheritedPerms
<1>2. CASE nearest # {}
  <2> DEFINE q == CHOOSE x \in nearest : TRUE
  <2>1. q \in nearest
    BY <1>2
  <2>2. q \in Path
    BY <2>1, RegistrarsExist
  <2>3. InheritedPerms(V, p, f) = f[q]
    BY <1>2 DEF InheritedPerms
  <2> HIDE DEF q
  <2>4. QED
    BY <2>2, <2>3
<1>3. QED
  BY <1>1, <1>2

-----------------------------------------------------------------------------
(* Operations on the whole tree.                                           *)

GoodDb(d) == d \in [Path -> Record] /\ \A q \in Path : RecordSound(d[q])

LEMMA GoodDbRecords ==
    ASSUME NEW d, GoodDb(d), NEW q \in Path
    PROVE  /\ Good(d[q])
           /\ d[q].e \in Entry
           /\ \A t \in Tid : d[q].te[t] \in Tentry
BY DEF GoodDb, Record

LEMMA UpdateGood ==
    ASSUME NEW d, GoodDb(d), NEW p \in Path, NEW r, Good(r)
    PROVE  GoodDb([d EXCEPT ![p] = r])
BY DEF GoodDb

LEMMA CreateBranchGood ==
    ASSUME NEW d, GoodDb(d), NEW p \in Path, NEW v \in Value
    PROVE  GoodDb(CreateBranch(d, p, v))
<1> DEFINE V == ValidPaths(d)
           perms == InheritedPerms(V, p, [q \in Path |-> d[q].e.perms])
           written(q) ==
               IF q \in Missing(V, p)
               THEN WriteEntry(d[q], IF q = p THEN v ELSE EmptyValue, perms)
               ELSE d[q]
           new(q) == IF q \in Registrars(V, p)
                     THEN AddChild(written(q), Step(q, p)) ELSE written(q)
<1>1. perms \in PermList
  <2>1. [q \in Path |-> d[q].e.perms] \in [Path -> PermList]
    BY GoodDbRecords DEF Entry
  <2>2. QED
    BY <2>1, InheritedPermsTyped
<1> HIDE DEF perms
<1>2. ASSUME NEW q \in Path
      PROVE  /\ Good(written(q))
             /\ q \in Missing(V, p) => IsValid(written(q).e)
             /\ q \in V => IsValid(written(q).e)
  <2>1. Good(d[q]) /\ (q \in V => IsValid(d[q].e))
    BY GoodDbRecords DEF ValidPaths
  <2>2. CASE q \in Missing(V, p)
    <3> DEFINE x == IF q = p THEN v ELSE EmptyValue
    <3>1. x \in Value
      BY Constants
    <3> HIDE DEF x
    <3>2. Good(WriteEntry(d[q], x, perms)) /\ IsValid(WriteEntry(d[q], x, perms).e)
      BY <1>1, <2>1, <3>1, WriteEntryGood
    <3>3. written(q) = WriteEntry(d[q], x, perms)
      BY <2>2 DEF x
    <3> HIDE DEF written
    <3>4. QED
      BY <3>2, <3>3
  <2>3. CASE q \notin Missing(V, p)
    BY <2>1, <2>3
  <2>4. QED
    BY <2>2, <2>3
<1> HIDE DEF written
<1>3. ASSUME NEW q \in Path
      PROVE  Good(new(q))
  <2>1. CASE q \in Registrars(V, p)
    <3>1. IsValid(written(q).e) /\ Step(q, p) \in Name
      BY <1>2, <2>1, RegistrarsExist
    <3>2. written(q).e.children \cup {Step(q, p)} \in SUBSET Name
      BY <1>2, <3>1 DEF Record, Entry
    <3>3. Good(AddChild(written(q), Step(q, p)))
      BY <1>2, <3>1, <3>2, SetChildrenGood DEF AddChild
    <3>4. QED
      BY <2>1, <3>3
  <2>2. CASE q \notin Registrars(V, p)
    BY <1>2, <2>2
  <2>3. QED
    BY <2>1, <2>2
<1>4. CreateBranch(d, p, v) = [q \in Path |-> new(q)]
  BY DEF CreateBranch, written, perms
<1> HIDE DEF new
<1>5. QED
  BY <1>3, <1>4 DEF GoodDb

LEMMA BaseName ==
    ASSUME NEW p \in Path, p # <<>>
    PROVE  Base(p) \in Name
<1>1. p \in Seq(Name)
  BY PathAssumption
<1>2. Len(p) \in 1 .. Len(p)
  BY <1>1
<1>3. QED
  BY <1>1, <1>2 DEF Base

LEMMA DeleteBranchGood ==
    ASSUME NEW d, GoodDb(d), NEW p \in Path,
           \A q \in Subtree([q \in Path |-> d[q].e.children], p) : IsValid(d[q].e)
    PROVE  GoodDb(DeleteBranch(d, p))
<1> DEFINE kids == [q \in Path |-> d[q].e.children]
           S == Subtree(kids, p)
           new(q) == IF q \in S
                     THEN MarkDeleted(RemoveChildren(d[q], kids[q]))
                     ELSE IF p # <<>> /\ q = Parent(p)
                     THEN RemoveChildren(d[q], {Base(p)})
                     ELSE d[q]
<1>1. DeleteBranch(d, p) = [q \in Path |-> new(q)]
  BY DEF DeleteBranch
<1>2. ASSUME NEW q \in Path
      PROVE  Good(new(q))
  <2>1. Good(d[q]) /\ d[q].e \in Entry /\ kids[q] = d[q].e.children
    BY GoodDbRecords
  <2>2. kids[q] \in SUBSET Name
    BY <2>1 DEF Entry
  <2>3. CASE q \in S
    <3> DEFINE r == RemoveChildren(d[q], kids[q])
    <3>1. IsValid(d[q].e)
      BY <2>3
    <3>2. Good(r) /\ IsValid(r.e) /\ r.e.children = {}
      BY <2>1, <2>2, <3>1, RemoveChildrenGood
    <3> HIDE DEF r
    <3>3. Good(MarkDeleted(r))
      BY <3>2, MarkDeletedGood
    <3>4. QED
      BY <2>3, <3>3 DEF r
  <2>4. CASE q \notin S /\ p # <<>> /\ q = Parent(p)
    <3>1. {Base(p)} \in SUBSET Name
      BY <2>4, BaseName
    <3>2. Good(RemoveChildren(d[q], {Base(p)}))
      BY <2>1, <3>1, RemoveChildrenGood
    <3>3. QED
      BY <2>4, <3>2
  <2>5. CASE q \notin S /\ ~(p # <<>> /\ q = Parent(p))
    BY <2>1, <2>5
  <2>6. QED
    BY <2>3, <2>4, <2>5
<1> HIDE DEF new
<1>3. QED
  BY <1>1, <1>2 DEF GoodDb

LEMMA TCreateBranchGood ==
    ASSUME NEW d, GoodDb(d), NEW t \in Tid, NEW p \in Path, NEW v \in Value
    PROVE  GoodDb(TCreateBranch(d, t, p, v))
<1> DEFINE V == TValidPaths(d, t)
           fetched == [q \in Path |-> FetchData(GetTentry(d[q], t), t).te[t].perms]
           perms == InheritedPerms(V, p, fetched)
           written(q) ==
               IF q \in Missing(V, p)
               THEN TWrite(GetTentry(d[q], t), t,
                           IF q = p THEN v ELSE EmptyValue, perms)
               ELSE GetTentry(d[q], t)
           new(q) == IF q \in Registrars(V, p)
                     THEN FetchData(TAddChild(written(q), t, Step(q, p)), t)
                     ELSE IF q \in Missing(V, p) THEN written(q)
                     ELSE d[q]
<1>1. perms \in PermList
  <2>1. ASSUME NEW q \in Path
        PROVE  FetchData(GetTentry(d[q], t), t).te[t].perms \in PermList
    <3>1. FetchData(GetTentry(d[q], t), t) \in Record
      BY GoodDbRecords, GetTentryGood, FetchDataGood
    <3>2. QED
      BY <3>1 DEF Record, Tentry
  <2>2. fetched \in [Path -> PermList]
    BY <2>1
  <2> HIDE DEF fetched
  <2>3. QED
    BY <2>2, InheritedPermsTyped
<1> HIDE DEF perms
<1>2. ASSUME NEW q \in Path
      PROVE  Good(written(q))
  <2>1. Good(GetTentry(d[q], t))
    BY GoodDbRecords, GetTentryGood
  <2> DEFINE x == IF q = p THEN v ELSE EmptyValue
  <2>2. x \in Value
    BY Constants
  <2> HIDE DEF x
  <2>3. Good(TWrite(GetTentry(d[q], t), t, x, perms))
    BY <1>1, <2>1, <2>2, TWriteGood
  <2>4. written(q) = IF q \in Missing(V, p)
                     THEN TWrite(GetTentry(d[q], t), t, x, perms)
                     ELSE GetTentry(d[q], t)
    BY DEF x
  <2> HIDE DEF written
  <2>5. QED
    BY <2>1, <2>3, <2>4
<1> HIDE DEF written
<1>3. ASSUME NEW q \in Path
      PROVE  Good(new(q))
  <2>1. CASE q \in Registrars(V, p)
    <3>1. Step(q, p) \in Name
      BY <2>1, RegistrarsExist
    <3>2. Good(TAddChild(written(q), t, Step(q, p)))
      BY <1>2, <3>1, TAddChildGood
    <3>3. Good(FetchData(TAddChild(written(q), t, Step(q, p)), t))
      BY <3>2, FetchDataGood
    <3>4. QED
      BY <2>1, <3>3
  <2>2. CASE q \notin Registrars(V, p)
    BY <1>2, <2>2, GoodDbRecords
  <2>3. QED
    BY <2>1, <2>2
<1>4. TCreateBranch(d, t, p, v) = [q \in Path |-> new(q)]
  BY DEF TCreateBranch, written, perms
<1> HIDE DEF new
<1>5. QED
  BY <1>3, <1>4 DEF GoodDb

LEMMA TDeleteBranchGood ==
    ASSUME NEW d, GoodDb(d), NEW t \in Tid, NEW p \in Path
    PROVE  GoodDb(TDeleteBranch(d, t, p))
<1> DEFINE V == TValidPaths(d, t)
           opened(q) == FetchChildren(FetchData(GetTentry(d[q], t), t), t)
           kids == [q \in Path |->
                       IF q \in V THEN CurrentChildren(opened(q).te[t]) ELSE {}]
           visited == Subtree(kids, p)
           removed(q) == {c \in kids[q] : Append(q, c) \in V}
           new(q) ==
               IF q \in visited \cap V
               THEN TMarkDeleted(TRemoveChildren(opened(q), t, removed(q)), t)
               ELSE IF q \in visited
               THEN GetTentry(d[q], t)
               ELSE IF p # <<>> /\ q = Parent(p)
               THEN TRemoveChildren(GetTentry(d[q], t), t, {Base(p)})
               ELSE d[q]
<1>1. TDeleteBranch(d, t, p) = [q \in Path |-> new(q)]
  BY DEF TDeleteBranch
<1>2. ASSUME NEW q \in Path
      PROVE  Good(d[q]) /\ Good(GetTentry(d[q], t)) /\ Good(opened(q))
  <2>1. Good(d[q]) /\ Good(GetTentry(d[q], t))
    BY GoodDbRecords, GetTentryGood
  <2>2. Good(FetchData(GetTentry(d[q], t), t))
    BY <2>1, FetchDataGood
  <2>3. QED
    BY <2>1, <2>2, FetchChildrenGood
<1>3. ASSUME NEW q \in Path
      PROVE  removed(q) \in SUBSET Name
  <2>1. opened(q).te[t] \in Tentry
    BY <1>2 DEF Record
  <2>2. kids[q] \in SUBSET Name
    BY <2>1 DEF CurrentChildren, Tentry
  <2>3. QED
    BY <2>2
<1> HIDE DEF opened, removed, visited, kids
<1>4. ASSUME NEW q \in Path
      PROVE  Good(new(q))
  <2>1. CASE q \in visited \cap V
    <3>1. Good(TRemoveChildren(opened(q), t, removed(q)))
      BY <1>2, <1>3, TRemoveChildrenGood
    <3>2. Good(TMarkDeleted(TRemoveChildren(opened(q), t, removed(q)), t))
      BY <3>1, TMarkDeletedGood
    <3>3. QED
      BY <2>1, <3>2
  <2>2. CASE q \notin visited \cap V /\ q \in visited
    BY <1>2, <2>2
  <2>3. CASE q \notin visited /\ p # <<>> /\ q = Parent(p)
    <3>1. {Base(p)} \in SUBSET Name
      BY <2>3, BaseName
    <3>2. Good(TRemoveChildren(GetTentry(d[q], t), t, {Base(p)}))
      BY <1>2, <3>1, TRemoveChildrenGood
    <3>3. QED
      BY <2>3, <3>2
  <2>4. CASE q \notin visited /\ ~(p # <<>> /\ q = Parent(p))
    BY <1>2, <2>4
  <2>5. QED
    BY <2>1, <2>2, <2>3, <2>4
<1> HIDE DEF new
<1>5. QED
  BY <1>1, <1>4 DEF GoodDb

LEMMA OpenGood ==
    ASSUME NEW r, Good(r), NEW t \in Tid
    PROVE  Good(Open(r, t)) /\ Open(r, t).te[t] \in Tentry
<1>1. Good(Open(r, t))
  BY GetTentryGood, FetchDataGood DEF Open
<1>2. QED
  BY <1>1 DEF Record

LEMMA EndGood ==
    ASSUME GoodDb(db), NEW t \in Tid
    PROVE  /\ CanMerge(t) => GoodDb([p \in Path |-> IF p \in Records(t)
                                     THEN MergeRec(db[p], t) ELSE db[p]])
           /\ GoodDb([p \in Path |-> IF p \in Records(t)
                                     THEN AbortRec(db[p], t) ELSE db[p]])
<1>1. ASSUME CanMerge(t), NEW p \in Path, p \in Records(t)
      PROVE  Good(MergeRec(db[p], t))
  <2>1. Touched(db[p], t) /\ CanMergeRec(db[p], t)
    BY <1>1 DEF Records, CanMerge
  <2>2. QED
    BY <2>1, GoodDbRecords, MergeRecGood
<1>2. ASSUME NEW p \in Path
      PROVE  Good(AbortRec(db[p], t))
  BY GoodDbRecords, AbortRecGood
<1>3. QED
  BY <1>1, <1>2 DEF GoodDb

-----------------------------------------------------------------------------
(* The invariant of the specification, one action at a time.               *)

IInv == TypeOK /\ RecordsSound

LEMMA IInvDb == IInv <=> GoodDb(db) /\ trans \subseteq Tid /\ next_tid \in Tid
BY DEF IInv, TypeOK, RecordsSound, GoodDb

LEMMA InitIInv == Init => IInv
<1> SUFFICES ASSUME Init
             PROVE  IInv
  OBVIOUS
<1>1. Good(WriteEntry(NewRecord, EmptyValue, DefaultPerms))
  BY NewRecordGood, Constants, WriteEntryGood
<1>2. GoodDb(db)
  BY <1>1, NewRecordGood DEF Init, GoodDb
<1>3. trans \subseteq Tid /\ next_tid \in Tid
  BY Constants DEF Init
<1>4. QED
  BY <1>2, <1>3, IInvDb

LEMMA SimpleStep ==
    ASSUME GoodDb(db), SimpleNext
    PROVE  GoodDb(db') /\ UNCHANGED <<trans, next_tid>>
<1>1. PICK p \in Path :
         \/ SimpleCreate(p)
         \/ \E c \in Cid :
               \/ \E v \in Value : SimpleUpdate(c, p, v)
               \/ SimpleDel(c, p)
               \/ \E perms \in PermLists : SimpleSetPerms(c, p, perms)
  BY DEF SimpleNext
<1>2. Good(db[p]) /\ db[p].e \in Entry
  BY GoodDbRecords
<1>3. CASE SimpleCreate(p)
  BY <1>3, Constants, CreateBranchGood DEF SimpleCreate
<1>4. ASSUME NEW c \in Cid, NEW v \in Value, SimpleUpdate(c, p, v)
      PROVE  GoodDb(db') /\ UNCHANGED <<trans, next_tid>>
  <2>1. Good(WriteEntry(db[p], v, db[p].e.perms))
    BY <1>2, WriteEntryGood DEF Entry
  <2>2. GoodDb([db EXCEPT ![p] = WriteEntry(db[p], v, db[p].e.perms)])
    BY <2>1, UpdateGood
  <2>3. QED
    BY <1>4, <2>2, CreateBranchGood DEF SimpleUpdate
<1>5. ASSUME NEW c \in Cid, SimpleDel(c, p)
      PROVE  GoodDb(db') /\ UNCHANGED <<trans, next_tid>>
  BY <1>5, DeleteBranchGood DEF SimpleDel
<1>6. ASSUME NEW c \in Cid, NEW perms \in PermLists, SimpleSetPerms(c, p, perms)
      PROVE  GoodDb(db') /\ UNCHANGED <<trans, next_tid>>
  <2>1. Good(WriteEntry(db[p], db[p].e.value, perms))
    BY <1>2, Constants, WriteEntryGood DEF Entry
  <2>2. GoodDb([db EXCEPT ![p] = WriteEntry(db[p], db[p].e.value, perms)])
    BY <2>1, UpdateGood
  <2>3. QED
    BY <1>6, <2>2 DEF SimpleSetPerms
<1>7. QED
  BY <1>1, <1>3, <1>4, <1>5, <1>6

LEMMA TransStep ==
    ASSUME GoodDb(db), NEW t \in Tid, TransNext(t)
    PROVE  GoodDb(db') /\ UNCHANGED <<trans, next_tid>>
<1>1. PICK p \in Path :
         \/ TransCreate(t, p)
         \/ TransRead(t, p)
         \/ \E c \in Cid :
               \/ TransGetChildren(t, p, c)
               \/ \E v \in Value : TransUpdate(t, p, c, v)
               \/ \E perms \in PermLists : TransSetPerms(t, p, c, perms)
               \/ TransDel(t, p, c)
  BY DEF TransNext, TransWriteNext
<1> DEFINE o == Open(db[p], t)
<1>2. Good(db[p]) /\ Good(o) /\ o.te[t] \in Tentry
  BY GoodDbRecords, OpenGood
<1>3. GoodDb([db EXCEPT ![p] = o])
  BY <1>2, UpdateGood
<1>4. CASE TransCreate(t, p)
  <2>1. GoodDb([db EXCEPT ![p] = GetTentry(db[p], t)])
    BY <1>2, GetTentryGood, UpdateGood
  <2>2. GoodDb(TCreateBranch(db, t, p, EmptyValue))
    BY Constants, TCreateBranchGood
  <2>3. QED
    BY <1>4, <2>1, <2>2 DEF TransCreate
<1>5. CASE TransRead(t, p)
  BY <1>3, <1>5 DEF TransRead
<1>6. ASSUME NEW c \in Cid, TransGetChildren(t, p, c)
      PROVE  GoodDb(db') /\ UNCHANGED <<trans, next_tid>>
  <2>1. GoodDb([db EXCEPT ![p] = FetchChildren(o, t)])
    BY <1>2, FetchChildrenGood, UpdateGood
  <2>2. db' = [db EXCEPT ![p] = FetchChildren(o, t)] \/ db' = [db EXCEPT ![p] = o]
    BY <1>6 DEF TransGetChildren
  <2>3. QED
    BY <1>3, <1>6, <2>1, <2>2 DEF TransGetChildren
<1>7. ASSUME NEW c \in Cid, NEW v \in Value, TransUpdate(t, p, c, v)
      PROVE  GoodDb(db') /\ UNCHANGED <<trans, next_tid>>
  <2> DEFINE w == TWrite(o, t, v, o.te[t].perms)
  <2>1. Good(w)
    BY <1>2, TWriteGood DEF Tentry
  <2>2. GoodDb([db EXCEPT ![p] = w])
    BY <2>1, UpdateGood
  <2>3. GoodDb(TCreateBranch(db, t, p, v))
    BY TCreateBranchGood
  <2>4. \/ db' = TCreateBranch(db, t, p, v)
        \/ db' = [db EXCEPT ![p] = w]
        \/ db' = [db EXCEPT ![p] = o]
    BY <1>7 DEF TransUpdate
  <2>5. QED
    BY <1>3, <1>7, <2>2, <2>3, <2>4 DEF TransUpdate
<1>8. ASSUME NEW c \in Cid, NEW perms \in PermLists, TransSetPerms(t, p, c, perms)
      PROVE  GoodDb(db') /\ UNCHANGED <<trans, next_tid>>
  <2> DEFINE w == TWrite(o, t, o.te[t].value, perms)
  <2>1. Good(w)
    BY <1>2, Constants, TWriteGood DEF Tentry
  <2>2. GoodDb([db EXCEPT ![p] = w])
    BY <2>1, UpdateGood
  <2>3. db' = [db EXCEPT ![p] = w] \/ db' = [db EXCEPT ![p] = o]
    BY <1>8 DEF TransSetPerms
  <2>4. QED
    BY <1>3, <1>8, <2>2, <2>3 DEF TransSetPerms
<1>9. ASSUME NEW c \in Cid, TransDel(t, p, c)
      PROVE  GoodDb(db') /\ UNCHANGED <<trans, next_tid>>
  <2>1. GoodDb(TDeleteBranch(db, t, p))
    BY TDeleteBranchGood
  <2>2. db' = TDeleteBranch(db, t, p) \/ db' = [db EXCEPT ![p] = o]
    BY <1>9 DEF TransDel
  <2>3. QED
    BY <1>3, <1>9, <2>1, <2>2 DEF TransDel
<1>10. QED
  BY <1>1, <1>4, <1>5, <1>6, <1>7, <1>8, <1>9

LEMMA NextIInv == IInv /\ [Next]_vars => IInv'
<1> SUFFICES ASSUME IInv, [Next]_vars
             PROVE  IInv'
  OBVIOUS
<1>1. GoodDb(db) /\ trans \subseteq Tid /\ next_tid \in Tid
  BY IInvDb
<1>2. SUFFICES GoodDb(db') /\ trans' \subseteq Tid /\ next_tid' \in Tid
  BY DEF IInv, TypeOK, RecordsSound, GoodDb
<1>3. CASE SimpleNext
  BY <1>1, <1>3, SimpleStep
<1>4. CASE \E t \in trans : TransNext(t)
  BY <1>1, <1>4, TransStep
<1>5. CASE Branch
  <2>1. next_tid' \in Tid
    BY <1>1, <1>5, DataAssumption, TidAssumption DEF Branch, Tid
  <2>2. QED
    BY <1>1, <1>5, <2>1 DEF Branch
<1>6. ASSUME NEW t \in trans, Merge(t)
      PROVE  GoodDb(db') /\ trans' \subseteq Tid /\ next_tid' \in Tid
  BY <1>1, <1>6, EndGood DEF Merge
<1>7. ASSUME NEW t \in trans, Abort(t)
      PROVE  GoodDb(db') /\ trans' \subseteq Tid /\ next_tid' \in Tid
  BY <1>1, <1>7, EndGood DEF Abort
<1>8. CASE UNCHANGED vars
  BY <1>1, <1>8 DEF vars
<1>9. QED
  BY <1>3, <1>4, <1>5, <1>6, <1>7, <1>8 DEF Next, StoreNext

-----------------------------------------------------------------------------
(* The theorems.                                                           *)

THEOREM SpecIInv == Spec => []IInv
<1>1. QED
  BY InitIInv, NextIInv, PTL DEF Spec

(* The state of the store (database.hh, store.hh) keeps its types.         *)
THEOREM TypeCorrect == Spec => []TypeOK
<1>1. IInv => TypeOK
  BY DEF IInv
<1>2. QED
  BY <1>1, SpecIInv, PTL

(* Each record satisfies the invariant that makes the validation of        *)
(* can_merge (transaction.cc:277) sound.                                   *)
THEOREM RecordsAlwaysSound == Spec => []RecordsSound
<1>1. IInv => RecordsSound
  BY DEF IInv
<1>2. QED
  BY <1>1, SpecIInv, PTL

(* A transaction that can_merge would let commit has read nothing that is  *)
(* no longer true: what it knows of existence, data and children lists is  *)
(* what the store holds (transaction.cc:277, 332, 540, 573).               *)
THEOREM ValidationSound == Spec => []CommittableReadsAreCurrent
<1>1. IInv => CommittableReadsAreCurrent
  <2> SUFFICES ASSUME IInv, NEW t \in Tid, CanMerge(t), NEW p \in Records(t)
               PROVE  CopyCurrent(db[p], t)
    BY DEF CommittableReadsAreCurrent
  <2>1. p \in Path /\ Touched(db[p], t)
    BY DEF Records
  <2>2. CopySound(db[p], t)
    BY <2>1 DEF IInv, RecordsSound, RecordSound
  <2>3. CanMergeRec(db[p], t)
    BY DEF CanMerge
  <2>4. QED
    BY <2>1, <2>2, <2>3 DEF CopySound
<1>2. QED
  BY <1>1, SpecIInv, PTL

-----------------------------------------------------------------------------
(***************************************************************************)
(* What one step may do to the transactions that are open.  Every operator *)
(* on records is shown to be one of three kinds: it changes the entry and  *)
(* no copy (Outside), one transaction's copy and not the entry (Own), or   *)
(* it ends a transaction (Ended); every action applies operators of one    *)
(* kind.                                                                   *)
(***************************************************************************)

HIDE DEF Good

(* Only a transaction that references a record has a copy of it, and what  *)
(* the copy was stamped with was handed out by next_seq.                   *)
Below(te, n) == te.write_seq < n /\ te.delete_seq < n
Clean(r) ==
    \A t \in Tid : IF Touched(r, t) THEN Below(r.te[t], r.next_seq)
                                    ELSE r.te[t] = NoTentry

Whole(r) == Good(r) /\ Clean(r)

(* An entry is stamped with numbers that grow.                             *)
Later(x, y) ==
    /\ y.write_seq >= x.write_seq /\ y.delete_seq >= x.delete_seq
    /\ y.write_children_seq >= x.write_children_seq

Outside(r, w) ==
    /\ w.te = r.te
    /\ Untouched(r) \/ (Later(r.e, w.e) /\ w.next_seq >= r.next_seq)

(* What a transaction fetched stays, until it writes itself; what it has   *)
(* once read, it goes on comparing.                                        *)
OwnCopy(x, y) ==
    /\ y.init_seq # 0
    /\ y.write_seq >= x.write_seq
    /\ x.init_seq # 0 => y.init_seq = x.init_seq /\ y.init_valid = x.init_valid
    /\ x.read_seq # 0 =>
          /\ y.read_seq = x.read_seq
          /\ y.write_seq = x.write_seq => y.value = x.value /\ y.perms = x.perms
    /\ x.read_children_seq # 0 =>
          y.read_children_seq = x.read_children_seq /\ y.children = x.children

Own(r, w, t) ==
    /\ w.e = r.e /\ w.next_seq >= r.next_seq
    /\ \A u \in Tid : u # t => w.te[u] = r.te[u]
    /\ OwnCopy(r.te[t], w.te[t]) /\ Below(w.te[t], w.next_seq)
    /\ (Touched(r, t) => CanMergeRec(r, t)) => CanMergeRec(w, t)

(* How transaction t's end looks to the others.                            *)
Ended(r, w, t) ==
    /\ w.te[t] = NoTentry
    /\ \A u \in Tid : u # t =>
          /\ w.te[u] = r.te[u]
          /\ Touched(r, u) => Later(r.e, w.e) /\ w.next_seq >= r.next_seq

-----------------------------------------------------------------------------
(* Facts about types.                                                      *)

LEMMA Types ==
    ASSUME NEW r, Good(r)
    PROVE  /\ r \in Record /\ r.e \in Entry /\ r.next_seq \in Nat /\ r.next_seq # 0
           /\ r.e.write_seq \in Nat /\ r.e.delete_seq \in Nat
           /\ r.e.write_children_seq \in Nat
           /\ r.e.write_seq < r.next_seq /\ r.e.delete_seq < r.next_seq
           /\ r.e.write_children_seq < r.next_seq
           /\ \A t \in Tid :
                 /\ r.te[t] \in Tentry
                 /\ r.te[t].init_seq \in Nat /\ r.te[t].read_seq \in Nat
                 /\ r.te[t].write_seq \in Nat /\ r.te[t].read_children_seq \in Nat
                 /\ r.te[t].delete_seq \in Nat
                 /\ Touched(r, t) => /\ r.te[t].init_seq < r.next_seq
                                     /\ r.te[t].read_seq < r.next_seq
                                     /\ r.te[t].read_children_seq < r.next_seq
<1>1. r \in Record /\ SeqsBelowNext(r)
  BY DEF Good, RecordSound
<1>2. r.e \in Entry /\ r.next_seq \in Nat /\ r.next_seq # 0
  BY <1>1 DEF Record
<1>3. \A t \in Tid : r.te[t] \in Tentry
  BY <1>1 DEF Record
<1> QED
  BY <1>1, <1>2, <1>3 DEF SeqsBelowNext, Entry, Tentry

LEMMA NoCopy ==
    /\ NoTentry.init_seq = 0 /\ NoTentry.read_seq = 0 /\ NoTentry.write_seq = 0
    /\ NoTentry.read_children_seq = 0
    /\ \A t \in Tid : NewRecord.te[t] = NoTentry
  BY DEF NoTentry, NewRecord

LEMMA UntouchedHasNoCopies ==
    ASSUME NEW r, Whole(r), Untouched(r)
    PROVE  r.te = NewRecord.te
<1>1. r.te \in [Tid -> Tentry]
  BY DEF Whole, Good, Record
<1>2. \A t \in Tid : r.te[t] = NoTentry
  BY DEF Whole, Clean, Untouched
<1>3. NewRecord.te = [t \in Tid |-> NoTentry]
  BY DEF NewRecord
<1> QED
  BY <1>1, <1>2, <1>3

-----------------------------------------------------------------------------
(* The three kinds, and that records stay clean.                           *)

LEMMA OutsideReflexive == \A r : Good(r) => Outside(r, r)
  BY Types DEF Outside, Later

LEMMA OutsideTransitive ==
    ASSUME NEW a, NEW b, NEW c, Good(a), Good(b), Good(c), Outside(a, b), Outside(b, c)
    PROVE  Outside(a, c)
<1>1. c.te = a.te /\ (Untouched(b) <=> Untouched(a))
  BY DEF Outside, Untouched, Touched
<1>2. CASE Untouched(a)
  BY <1>1, <1>2 DEF Outside
<1>3. CASE ~Untouched(a)
  <2>1. /\ Later(a.e, b.e) /\ b.next_seq >= a.next_seq
        /\ Later(b.e, c.e) /\ c.next_seq >= b.next_seq
    BY <1>1, <1>3 DEF Outside
  <2>2. Later(a.e, c.e) /\ c.next_seq >= a.next_seq
    BY <2>1, Types DEF Later
  <2> QED
    BY <1>1, <2>2 DEF Outside
<1> QED
  BY <1>2, <1>3

LEMMA OutsideClean ==
    ASSUME NEW r, NEW w, Whole(r), Good(w), Outside(r, w)
    PROVE  Whole(w)
<1> SUFFICES ASSUME NEW t \in Tid
             PROVE  IF Touched(w, t) THEN Below(w.te[t], w.next_seq)
                                     ELSE w.te[t] = NoTentry
  BY DEF Whole, Clean
<1>1. w.te[t] = r.te[t] /\ (Touched(w, t) <=> Touched(r, t))
  BY DEF Outside, Touched
<1>2. CASE Touched(r, t)
  <2>1. Below(r.te[t], r.next_seq)
    BY <1>2 DEF Whole, Clean
  <2>2. w.next_seq >= r.next_seq
    BY <1>2 DEF Outside, Untouched
  <2>3. /\ r.te[t].write_seq \in Nat /\ r.te[t].delete_seq \in Nat
        /\ r.next_seq \in Nat /\ w.next_seq \in Nat
    BY Types DEF Whole
  <2> QED
    BY <1>1, <1>2, <2>1, <2>2, <2>3 DEF Below
<1>3. CASE ~Touched(r, t)
  BY <1>1, <1>3 DEF Whole, Clean
<1> QED
  BY <1>2, <1>3

LEMMA OwnTransitive ==
    ASSUME NEW a, NEW b, NEW c, NEW t \in Tid, Good(a), Good(b), Good(c),
           Own(a, b, t), Own(b, c, t)
    PROVE  Own(a, c, t)
<1>1. Touched(b, t) /\ CanMergeRec(b, t) => CanMergeRec(c, t)
  BY DEF Own, OwnCopy, Touched
<1>2. (Touched(a, t) => CanMergeRec(a, t)) => CanMergeRec(c, t)
  BY <1>1 DEF Own, OwnCopy, Touched
<1>3. c.e = a.e /\ c.next_seq >= a.next_seq /\ \A u \in Tid : u # t => c.te[u] = a.te[u]
  BY Types DEF Own
<1>4. OwnCopy(a.te[t], c.te[t])
  <2> DEFINE x == a.te[t]
             y == b.te[t]
             z == c.te[t]
  <2>1. OwnCopy(x, y) /\ OwnCopy(y, z)
    BY DEF Own
  <2>2. x.write_seq \in Nat /\ y.write_seq \in Nat /\ z.write_seq \in Nat
    BY Types
  <2> HIDE DEF x, y, z
  <2>3. z.write_seq >= x.write_seq /\ (z.write_seq = x.write_seq => y.write_seq = x.write_seq)
    BY <2>1, <2>2 DEF OwnCopy
  <2>4. OwnCopy(x, z)
    BY <2>1, <2>3 DEF OwnCopy
  <2> QED
    BY <2>4 DEF x, z
<1> QED
  BY <1>2, <1>3, <1>4 DEF Own

LEMMA OwnClean ==
    ASSUME NEW r, NEW w, NEW t \in Tid, Whole(r), Good(w), Own(r, w, t)
    PROVE  Whole(w)
<1> SUFFICES ASSUME NEW u \in Tid
             PROVE  IF Touched(w, u) THEN Below(w.te[u], w.next_seq)
                                     ELSE w.te[u] = NoTentry
  BY DEF Whole, Clean
<1>1. CASE u = t
  BY <1>1 DEF Own, OwnCopy, Touched
<1>2. CASE u # t
  <2>1. w.te[u] = r.te[u] /\ w.next_seq >= r.next_seq
    BY <1>2 DEF Own
  <2>2. /\ r.te[u].write_seq \in Nat /\ r.te[u].delete_seq \in Nat
        /\ r.next_seq \in Nat /\ w.next_seq \in Nat
    BY Types DEF Whole
  <2>3. IF Touched(r, u) THEN Below(r.te[u], r.next_seq) ELSE r.te[u] = NoTentry
    BY DEF Whole, Clean
  <2>4. Touched(w, u) <=> Touched(r, u)
    BY <2>1 DEF Touched
  <2> QED
    BY <2>1, <2>2, <2>3, <2>4 DEF Below
<1> QED
  BY <1>1, <1>2

LEMMA EndedClean ==
    ASSUME NEW r, NEW w, NEW t \in Tid, Whole(r), Good(w), Ended(r, w, t)
    PROVE  Whole(w)
<1> SUFFICES ASSUME NEW u \in Tid
             PROVE  IF Touched(w, u) THEN Below(w.te[u], w.next_seq)
                                     ELSE w.te[u] = NoTentry
  BY DEF Whole, Clean
<1>1. CASE u = t
  BY <1>1, NoCopy DEF Ended, Touched
<1>2. CASE u # t
  <2>1. w.te[u] = r.te[u] /\ (Touched(r, u) => w.next_seq >= r.next_seq)
    BY <1>2 DEF Ended
  <2>2. /\ r.te[u].write_seq \in Nat /\ r.te[u].delete_seq \in Nat
        /\ r.next_seq \in Nat /\ w.next_seq \in Nat
    BY Types DEF Whole
  <2>3. IF Touched(r, u) THEN Below(r.te[u], r.next_seq) ELSE r.te[u] = NoTentry
    BY DEF Whole, Clean
  <2>4. Touched(w, u) <=> Touched(r, u)
    BY <2>1 DEF Touched
  <2> QED
    BY <2>1, <2>2, <2>3, <2>4 DEF Below
<1> QED
  BY <1>1, <1>2

-----------------------------------------------------------------------------
(* Outside transactions: what simple_access does to a record.              *)

(* A change of the entry alone.                                            *)
LEMMA EntryOutside ==
    ASSUME NEW r, Good(r), NEW x, NEW n, Later(r.e, x), n >= r.next_seq,
           NEW w, w = [r EXCEPT !.e = x, !.next_seq = n]
    PROVE  Outside(r, w)
<1>1. w.e = x /\ w.te = r.te /\ w.next_seq = n
  BY Types DEF Record
<1> QED
  BY <1>1 DEF Outside

LEMMA WriteEntryOutside ==
    ASSUME NEW r, Good(r), NEW v \in Value, NEW pl \in PermList
    PROVE  Outside(r, WriteEntry(r, v, pl))
<1> DEFINE x == [r.e EXCEPT !.value = v, !.perms = pl, !.write_seq = r.next_seq]
           n == r.next_seq + 1
<1>1. Later(r.e, x)
  BY Types DEF Later, Entry
<1>2. n >= r.next_seq
  BY Types
<1>3. WriteEntry(r, v, pl) = [r EXCEPT !.e = x, !.next_seq = n]
  BY DEF WriteEntry
<1> HIDE DEF x, n
<1> QED
  BY <1>1, <1>2, <1>3, EntryOutside

LEMMA AddChildOutside ==
    ASSUME NEW r, Good(r), NEW c
    PROVE  Outside(r, AddChild(r, c))
<1> DEFINE x == [r.e EXCEPT !.children = r.e.children \cup {c},
                            !.write_children_seq = r.next_seq]
           n == r.next_seq + 1
<1>1. Later(r.e, x)
  BY Types DEF Later, Entry
<1>2. n >= r.next_seq
  BY Types
<1>3. AddChild(r, c) = [r EXCEPT !.e = x, !.next_seq = n]
  BY DEF AddChild, SetChildren
<1> HIDE DEF x, n
<1> QED
  BY <1>1, <1>2, <1>3, EntryOutside

LEMMA RemoveChildrenOutside ==
    ASSUME NEW r, Good(r), NEW cs \in SUBSET Name
    PROVE  Outside(r, RemoveChildren(r, cs))
<1>1. CASE cs = {}
  BY <1>1, OutsideReflexive DEF RemoveChildren
<1>2. CASE cs # {}
  <2> DEFINE k == Cardinality(cs)
             x == [r.e EXCEPT !.children = r.e.children \ cs,
                              !.write_children_seq = r.next_seq + k - 1]
             n == r.next_seq + k
  <2>1. k \in Nat /\ k > 0
    BY <1>2, CardinalityOfNames
  <2>2. RemoveChildren(r, cs) = [r EXCEPT !.e = x, !.next_seq = n]
    BY <1>2 DEF RemoveChildren
  <2> HIDE DEF k
  <2>3. Later(r.e, x)
    BY <2>1, Types DEF Later, Entry
  <2>4. n >= r.next_seq
    BY <2>1, Types
  <2> HIDE DEF x, n
  <2> QED
    BY <2>2, <2>3, <2>4, EntryOutside
<1> QED
  BY <1>1, <1>2

LEMMA MarkDeletedOutside ==
    ASSUME NEW r, Whole(r)
    PROVE  Outside(r, MarkDeleted(r))
<1>1. CASE Untouched(r)
  BY <1>1, UntouchedHasNoCopies DEF MarkDeleted, Outside
<1>2. CASE ~Untouched(r)
  <2> DEFINE x == [r.e EXCEPT !.delete_seq = r.next_seq]
             n == r.next_seq + 1
  <2>1. Good(r)
    BY DEF Whole
  <2>2. Later(r.e, x)
    BY <2>1, Types DEF Later, Entry
  <2>3. n >= r.next_seq
    BY <2>1, Types
  <2>4. MarkDeleted(r) = [r EXCEPT !.e = x, !.next_seq = n]
    BY <1>2, <2>1, Types DEF MarkDeleted, Record
  <2> HIDE DEF x, n
  <2> QED
    BY <2>1, <2>2, <2>3, <2>4, EntryOutside
<1> QED
  BY <1>1, <1>2

-----------------------------------------------------------------------------
(* Inside transaction t: what its operations do to a record.               *)

(* A change of t's copy alone.                                             *)
LEMMA OwnChange ==
    ASSUME NEW r, Good(r), NEW t \in Tid, NEW x, NEW n, n >= r.next_seq,
           OwnCopy(r.te[t], x), Below(x, n),
           NEW w, w = [r EXCEPT !.te[t] = x, !.next_seq = n],
           (Touched(r, t) => CanMergeRec(r, t)) => CanMergeRec(w, t)
    PROVE  Own(r, w, t)
<1>1. /\ w.e = r.e /\ w.next_seq = n /\ w.te[t] = x
      /\ \A u \in Tid : u # t => w.te[u] = r.te[u]
  BY Types DEF Record
<1> QED
  BY <1>1 DEF Own

LEMMA OwnReflexive ==
    ASSUME NEW r, Whole(r), NEW t \in Tid, Touched(r, t)
    PROVE  Own(r, r, t)
<1>1. Below(r.te[t], r.next_seq)
  BY DEF Whole, Clean
<1>2. Good(r)
  BY DEF Whole
<1>3. OwnCopy(r.te[t], r.te[t])
  BY <1>2, Types DEF OwnCopy, Touched
<1> QED
  BY <1>1, <1>2, <1>3, Types DEF Own

LEMMA GetTentryOwn ==
    ASSUME NEW r, Whole(r), NEW t \in Tid
    PROVE  Own(r, GetTentry(r, t), t)
<1>0. Good(r)
  BY DEF Whole
<1>1. CASE Touched(r, t)
  BY <1>1, OwnReflexive DEF GetTentry
<1>2. CASE ~Touched(r, t)
  <2> DEFINE x == [NoTentry EXCEPT !.write_seq = r.e.write_seq,
                                   !.delete_seq = r.e.delete_seq,
                                   !.init_valid = IsValid(r.e),
                                   !.init_seq = r.next_seq]
             n == r.next_seq + 1
             w == GetTentry(r, t)
  <2>1. w = [r EXCEPT !.te[t] = x, !.next_seq = n]
    BY <1>2 DEF GetTentry
  <2>2. /\ x.write_seq = r.e.write_seq /\ x.delete_seq = r.e.delete_seq
        /\ x.init_valid = IsValid(r.e)
        /\ x.init_seq = r.next_seq /\ x.read_seq = 0 /\ x.read_children_seq = 0
    BY DEF NoTentry
  <2>3. r.te[t] = NoTentry
    BY <1>2 DEF Whole, Clean
  <2>4. n >= r.next_seq /\ Below(x, n)
    BY <1>0, <2>2, Types DEF Below
  <2> HIDE DEF x, w
  <2>5. OwnCopy(r.te[t], x)
    BY <1>0, <2>2, <2>3, NoCopy, Types DEF OwnCopy
  <2>6. w.e = r.e /\ w.te[t] = x
    BY <1>0, <2>1, Types DEF Record
  <2>7. CanMergeRec(w, t)
    BY <1>0, <2>2, <2>6, Types DEF CanMergeRec
  <2> HIDE DEF n
  <2> QED
    BY <1>0, <2>1, <2>4, <2>5, <2>7, OwnChange DEF w
<1> QED
  BY <1>1, <1>2

LEMMA FetchDataOwn ==
    ASSUME NEW r, Whole(r), NEW t \in Tid, Touched(r, t)
    PROVE  Own(r, FetchData(r, t), t)
<1>0. Good(r)
  BY DEF Whole
<1>1. CASE r.te[t].read_seq # 0
  BY <1>1, OwnReflexive DEF FetchData
<1>2. CASE r.te[t].read_seq = 0
  <2> DEFINE te == r.te[t]
             copy == IF Pristine(te)
                     THEN [te EXCEPT !.value = r.e.value, !.perms = r.e.perms]
                     ELSE te
             x == [copy EXCEPT !.read_seq = r.next_seq]
             n == r.next_seq + 1
             w == FetchData(r, t)
  <2>1. w = [r EXCEPT !.te[t] = x, !.next_seq = n]
    BY <1>2 DEF FetchData
  <2>2. te \in Tentry
    BY <1>0, Types
  <2>3. /\ x.write_seq = te.write_seq /\ x.delete_seq = te.delete_seq
        /\ x.init_valid = te.init_valid
        /\ x.init_seq = te.init_seq /\ x.read_seq = r.next_seq
        /\ x.read_children_seq = te.read_children_seq /\ x.children = te.children
    BY <2>2 DEF Tentry
  <2>4. n >= r.next_seq /\ Below(x, n)
    BY <1>0, <2>3, Types DEF Whole, Clean, Below
  <2> HIDE DEF x, w, copy
  <2>5. OwnCopy(te, x)
    BY <1>0, <1>2, <2>3, Types DEF OwnCopy, Touched
  <2>6. w.e = r.e /\ w.te[t] = x
    BY <1>0, <2>1, Types DEF Record
  <2>7. CanMergeRec(r, t) => CanMergeRec(w, t)
    BY <1>0, <2>3, <2>6, Types DEF CanMergeRec
  <2> HIDE DEF n
  <2> QED
    BY <1>0, <2>1, <2>4, <2>5, <2>7, OwnChange DEF w
<1> QED
  BY <1>1, <1>2

LEMMA FetchChildrenOwn ==
    ASSUME NEW r, Whole(r), NEW t \in Tid, Touched(r, t)
    PROVE  Own(r, FetchChildren(r, t), t)
<1>0. Good(r)
  BY DEF Whole
<1>1. CASE r.te[t].read_children_seq # 0
  BY <1>1, OwnReflexive DEF FetchChildren
<1>2. CASE r.te[t].read_children_seq = 0
  <2> DEFINE te == r.te[t]
             copy == IF IsValid(r.e)
                     THEN [te EXCEPT !.children = te.children \cup r.e.children]
                     ELSE te
             x == [copy EXCEPT !.read_children_seq = r.next_seq]
             n == r.next_seq + 1
             w == FetchChildren(r, t)
  <2>1. w = [r EXCEPT !.te[t] = x, !.next_seq = n]
    BY <1>2 DEF FetchChildren
  <2>2. te \in Tentry
    BY <1>0, Types
  <2>3. /\ x.write_seq = te.write_seq /\ x.delete_seq = te.delete_seq
        /\ x.init_valid = te.init_valid
        /\ x.init_seq = te.init_seq /\ x.read_seq = te.read_seq
        /\ x.read_children_seq = r.next_seq
        /\ x.value = te.value /\ x.perms = te.perms
    BY <2>2 DEF Tentry
  <2>4. n >= r.next_seq /\ Below(x, n)
    BY <1>0, <2>3, Types DEF Whole, Clean, Below
  <2> HIDE DEF x, w, copy
  <2>5. OwnCopy(te, x)
    BY <1>0, <1>2, <2>3, Types DEF OwnCopy, Touched
  <2>6. w.e = r.e /\ w.te[t] = x
    BY <1>0, <2>1, Types DEF Record
  <2>7. CanMergeRec(r, t) => CanMergeRec(w, t)
    BY <1>0, <2>3, <2>6, Types DEF CanMergeRec
  <2> HIDE DEF n
  <2> QED
    BY <1>0, <2>1, <2>4, <2>5, <2>7, OwnChange DEF w
<1> QED
  BY <1>1, <1>2

LEMMA TWriteOwn ==
    ASSUME NEW r, Whole(r), NEW t \in Tid, Touched(r, t), NEW v, NEW pl
    PROVE  Own(r, TWrite(r, t, v, pl), t)
<1> DEFINE te == r.te[t]
           x == [te EXCEPT !.value = v, !.perms = pl, !.write_seq = r.next_seq]
           n == r.next_seq + 1
           w == TWrite(r, t, v, pl)
<1>0. Good(r) /\ te \in Tentry /\ Below(te, r.next_seq)
  BY Types DEF Whole, Clean
<1>1. w = [r EXCEPT !.te[t] = x, !.next_seq = n]
  BY DEF TWrite
<1>2. /\ x.write_seq = r.next_seq /\ x.delete_seq = te.delete_seq
      /\ x.init_valid = te.init_valid
      /\ x.init_seq = te.init_seq /\ x.read_seq = te.read_seq
      /\ x.read_children_seq = te.read_children_seq /\ x.children = te.children
  BY <1>0 DEF Tentry
<1>3. n >= r.next_seq /\ Below(x, n)
  BY <1>0, <1>2, Types DEF Below
<1> HIDE DEF x, w
<1>4. OwnCopy(te, x)
  BY <1>0, <1>2, Types DEF OwnCopy, Touched, Below
<1>5. w.e = r.e /\ w.te[t] = x
  BY <1>0, <1>1, Types DEF Record
<1>6. CanMergeRec(r, t) => CanMergeRec(w, t)
  BY <1>2, <1>5 DEF CanMergeRec
<1> HIDE DEF n
<1> QED
  BY <1>0, <1>1, <1>3, <1>4, <1>6, OwnChange DEF w

LEMMA TMarkDeletedOwn ==
    ASSUME NEW r, Whole(r), NEW t \in Tid, Touched(r, t)
    PROVE  Own(r, TMarkDeleted(r, t), t)
<1> DEFINE te == r.te[t]
           x == [te EXCEPT !.delete_seq = r.next_seq]
           n == r.next_seq + 1
           w == TMarkDeleted(r, t)
<1>0. Good(r) /\ te \in Tentry /\ Below(te, r.next_seq)
  BY Types DEF Whole, Clean
<1>1. w = [r EXCEPT !.te[t] = x, !.next_seq = n]
  BY DEF TMarkDeleted
<1>2. /\ x.write_seq = te.write_seq /\ x.delete_seq = r.next_seq
      /\ x.init_valid = te.init_valid
      /\ x.init_seq = te.init_seq /\ x.read_seq = te.read_seq
      /\ x.read_children_seq = te.read_children_seq /\ x.children = te.children
      /\ x.value = te.value /\ x.perms = te.perms
  BY <1>0 DEF Tentry
<1>3. n >= r.next_seq /\ Below(x, n)
  BY <1>0, <1>2, Types DEF Below
<1> HIDE DEF x, w
<1>4. OwnCopy(te, x)
  BY <1>0, <1>2, Types DEF OwnCopy, Touched
<1>5. w.e = r.e /\ w.te[t] = x
  BY <1>0, <1>1, Types DEF Record
<1>6. CanMergeRec(r, t) => CanMergeRec(w, t)
  BY <1>2, <1>5 DEF CanMergeRec
<1> HIDE DEF n
<1> QED
  BY <1>0, <1>1, <1>3, <1>4, <1>6, OwnChange DEF w

LEMMA ChildrenListOwn ==
    ASSUME NEW r, Whole(r), NEW t \in Tid, Touched(r, t), NEW add, NEW rem, NEW x, NEW w,
           x = [r.te[t] EXCEPT !.children_add = add, !.children_rem = rem],
           w = [r EXCEPT !.te[t] = x]
    PROVE  Own(r, w, t)
<1> DEFINE te == r.te[t]
           n == r.next_seq
<1>0. Good(r) /\ te \in Tentry /\ Below(te, r.next_seq)
  BY Types DEF Whole, Clean
<1>1. w = [r EXCEPT !.te[t] = x, !.next_seq = n]
  BY <1>0, Types DEF Record
<1>2. /\ x.write_seq = te.write_seq /\ x.delete_seq = te.delete_seq
      /\ x.init_valid = te.init_valid
      /\ x.init_seq = te.init_seq /\ x.read_seq = te.read_seq
      /\ x.read_children_seq = te.read_children_seq /\ x.children = te.children
      /\ x.value = te.value /\ x.perms = te.perms
  BY <1>0 DEF Tentry
<1>3. n >= r.next_seq /\ Below(x, n)
  BY <1>0, <1>2, Types DEF Below
<1>4. OwnCopy(te, x)
  BY <1>0, <1>2, Types DEF OwnCopy, Touched
<1>5. w.e = r.e /\ w.te[t] = x
  BY <1>0, <1>1, Types DEF Record
<1>6. CanMergeRec(r, t) => CanMergeRec(w, t)
  BY <1>2, <1>5 DEF CanMergeRec
<1> HIDE DEF n
<1> QED
  BY <1>0, <1>1, <1>3, <1>4, <1>6, OwnChange

LEMMA TAddChildOwn ==
    ASSUME NEW r, Whole(r), NEW t \in Tid, Touched(r, t), NEW c
    PROVE  Own(r, TAddChild(r, t, c), t)
<1> DEFINE add == r.te[t].children_add \cup {c}
           rem == r.te[t].children_rem \ {c}
           x == [r.te[t] EXCEPT !.children_add = add, !.children_rem = rem]
<1>1. r.te[t] \in Tentry
  BY Types DEF Whole
<1>2. TAddChild(r, t, c) = [r EXCEPT !.te[t] = x]
  BY <1>1 DEF TAddChild, Tentry
<1> HIDE DEF add, rem
<1> QED
  BY <1>2, ChildrenListOwn

LEMMA TRemoveChildrenOwn ==
    ASSUME NEW r, Whole(r), NEW t \in Tid, Touched(r, t), NEW cs
    PROVE  Own(r, TRemoveChildren(r, t, cs), t)
<1> DEFINE add == r.te[t].children_add \ cs
           rem == r.te[t].children_rem \cup cs
           x == [r.te[t] EXCEPT !.children_add = add, !.children_rem = rem]
<1>1. r.te[t] \in Tentry
  BY Types DEF Whole
<1>2. TRemoveChildren(r, t, cs) = [r EXCEPT !.te[t] = x]
  BY <1>1 DEF TRemoveChildren, Tentry
<1> HIDE DEF add, rem
<1> QED
  BY <1>2, ChildrenListOwn

-----------------------------------------------------------------------------
(* The end of transaction t.                                               *)

LEMMA SetChildrenOutside ==
    ASSUME NEW r, Good(r), NEW cs
    PROVE  /\ Outside(r, SetChildren(r, cs))
           /\ SetChildren(r, cs).e.write_seq = r.e.write_seq
           /\ SetChildren(r, cs).e.delete_seq = r.e.delete_seq
<1> DEFINE x == [r.e EXCEPT !.children = cs, !.write_children_seq = r.next_seq]
           n == r.next_seq + 1
           w == SetChildren(r, cs)
<1>1. Later(r.e, x)
  BY Types DEF Later, Entry
<1>2. n >= r.next_seq
  BY Types
<1>3. w = [r EXCEPT !.e = x, !.next_seq = n]
  BY DEF SetChildren
<1>4. x.write_seq = r.e.write_seq /\ x.delete_seq = r.e.delete_seq
  BY Types DEF Entry
<1> HIDE DEF x, n, w
<1>5. w.e = x
  BY <1>3, Types DEF Record
<1>6. Outside(r, w)
  BY <1>1, <1>2, <1>3, EntryOutside
<1> QED
  BY <1>4, <1>5, <1>6 DEF w

LEMMA WriteEntryKeeps ==
    ASSUME NEW r, Good(r), NEW v \in Value, NEW pl \in PermList
    PROVE  /\ WriteEntry(r, v, pl).e.delete_seq = r.e.delete_seq
           /\ WriteEntry(r, v, pl).e.write_children_seq = r.e.write_children_seq
<1> DEFINE x == [r.e EXCEPT !.value = v, !.perms = pl, !.write_seq = r.next_seq]
           n == r.next_seq + 1
           w == WriteEntry(r, v, pl)
<1>1. w = [r EXCEPT !.e = x, !.next_seq = n]
  BY DEF WriteEntry
<1>2. x.delete_seq = r.e.delete_seq /\ x.write_children_seq = r.e.write_children_seq
  BY Types DEF Entry
<1> HIDE DEF x, n, w
<1>3. w.e = x
  BY <1>1, Types DEF Record
<1> QED
  BY <1>2, <1>3 DEF w

(* Commit stamps the entry only with what the transaction wrote, and its   *)
(* children list only if the transaction changed it.                       *)
LEMMA CommitOutside ==
    ASSUME NEW r, Good(r), NEW t \in Tid
    PROVE  /\ Outside(r, Commit(r, t))
           /\ Commit(r, t).e.delete_seq = r.e.delete_seq
           /\ ~WroteData(r.te[t]) => Commit(r, t).e.write_seq = r.e.write_seq
           /\ ~WroteChildren(r.te[t]) =>
                 Commit(r, t).e.write_children_seq = r.e.write_children_seq
<1> DEFINE te == r.te[t]
           w == IF WroteData(te) THEN WriteEntry(r, te.value, te.perms) ELSE r
           cs == (r.e.children \cup te.children_add) \ te.children_rem
           s == [r EXCEPT !.next_seq = @ + 1]
<1>1. te.value \in Value /\ te.perms \in PermList
  BY Types DEF Tentry
<1>2. /\ Good(w) /\ Outside(r, w)
      /\ w.e.delete_seq = r.e.delete_seq
      /\ w.e.write_children_seq = r.e.write_children_seq
      /\ ~WroteData(te) => w.e.write_seq = r.e.write_seq
  <2>1. CASE WroteData(te)
    BY <1>1, <2>1, WriteEntryGood, WriteEntryOutside, WriteEntryKeeps
  <2>2. CASE ~WroteData(te)
    BY <2>2, OutsideReflexive
  <2> QED
    BY <2>1, <2>2
<1>3. CASE WroteChildren(te)
  <2>1. Commit(r, t) = SetChildren(w, cs)
    BY <1>3 DEF Commit, WroteChildren, Deleted
  <2> HIDE DEF w, cs
  <2>2. /\ Outside(w, SetChildren(w, cs))
        /\ SetChildren(w, cs).e.write_seq = w.e.write_seq
        /\ SetChildren(w, cs).e.delete_seq = w.e.delete_seq
    BY <1>2, SetChildrenOutside
  <2>3. Outside(r, SetChildren(w, cs))
    <3> DEFINE c == SetChildren(w, cs)
    <3>1. c.te = r.te /\ (Untouched(w) <=> Untouched(r))
      BY <1>2, <2>2 DEF Outside, Untouched, Touched
    <3>2. ~Untouched(r) => Later(r.e, w.e) /\ w.next_seq >= r.next_seq
      BY <1>2 DEF Outside
    <3>3. ~Untouched(r) => Later(w.e, c.e) /\ c.next_seq >= w.next_seq
      BY <2>2, <3>1 DEF Outside
    <3> HIDE DEF c
    <3>4. c.e = [w.e EXCEPT !.children = cs, !.write_children_seq = w.next_seq]
      BY <1>2, Types DEF SetChildren, c, Record
    <3>5. c.next_seq = w.next_seq + 1
      BY <1>2, Types DEF SetChildren, c, Record
    <3>6. c.e.write_seq = w.e.write_seq /\ c.e.delete_seq = w.e.delete_seq
          /\ c.e.write_children_seq = w.next_seq
      BY <1>2, <3>4, Types DEF Entry
    <3>7. ~Untouched(r) => Later(r.e, c.e) /\ c.next_seq >= r.next_seq
      BY <1>2, <3>2, <3>3, <3>5, <3>6, Types DEF Later
    <3> QED
      BY <3>1, <3>7 DEF Outside, c
  <2> QED
    BY <1>2, <1>3, <2>1, <2>2, <2>3
<1>4. CASE ~WroteChildren(te) /\ Deleted(te)
  <2>1. Commit(r, t) = s
    BY <1>4 DEF Commit
  <2>2. s.e = r.e /\ s.te = r.te /\ s.next_seq = r.next_seq + 1
    BY Types DEF Record
  <2> HIDE DEF s
  <2>3. Outside(r, s)
    BY <2>2, Types DEF Outside, Later
  <2> QED
    BY <2>1, <2>2, <2>3
<1>5. CASE ~WroteChildren(te) /\ ~Deleted(te)
  <2>1. Commit(r, t) = w
    BY <1>5 DEF Commit
  <2> HIDE DEF w
  <2> QED
    BY <1>2, <2>1
<1> QED
  BY <1>3, <1>4, <1>5

LEMMA DropTentryFacts ==
    ASSUME NEW r, r \in Record, NEW t \in Tid
    PROVE  /\ DropTentry(r, t).e = r.e
           /\ DropTentry(r, t).next_seq = r.next_seq
           /\ DropTentry(r, t).te[t] = NoTentry
           /\ \A u \in Tid : u # t => DropTentry(r, t).te[u] = r.te[u]
  BY DEF DropTentry, Record

(* A record that a transaction still references keeps its numbers; one     *)
(* that none does keeps no copy.                                           *)
LEMMA CleanupFacts ==
    ASSUME NEW r, Whole(r)
    PROVE  /\ Cleanup(r).te = r.te
           /\ ~Untouched(r) => Cleanup(r) = r
<1>1. CASE ~Untouched(r)
  BY <1>1 DEF Cleanup
<1>2. CASE Untouched(r) /\ IsValid(r.e)
  BY <1>2, Types DEF Cleanup, Record, Whole
<1>3. CASE Untouched(r) /\ ~IsValid(r.e)
  BY <1>3, UntouchedHasNoCopies DEF Cleanup
<1> QED
  BY <1>1, <1>2, <1>3

LEMMA DropTentryWhole ==
    ASSUME NEW r, Whole(r), NEW t \in Tid
    PROVE  Whole(DropTentry(r, t))
<1> DEFINE d == DropTentry(r, t)
<1>1. Good(d) /\ Good(r)
  BY DropTentryGood DEF Whole
<1>2. /\ d.e = r.e /\ d.next_seq = r.next_seq /\ d.te[t] = NoTentry
      /\ \A u \in Tid : u # t => d.te[u] = r.te[u]
  BY <1>1, Types, DropTentryFacts
<1> HIDE DEF d
<1>3. Ended(r, d, t)
  BY <1>1, <1>2, Types DEF Ended, Later
<1>4. Whole(d)
  BY <1>1, <1>3, EndedClean
<1> QED
  BY <1>4 DEF d

LEMMA MergeRecEnded ==
    ASSUME NEW r, Whole(r), NEW u \in Tid, Touched(r, u), CanMergeRec(r, u)
    PROVE  /\ Whole(MergeRec(r, u)) /\ Ended(r, MergeRec(r, u), u)
           /\ \A t \in Tid : t # u /\ Touched(r, t) =>
                 /\ MergeRec(r, u).e.delete_seq = r.e.delete_seq
                 /\ ~WroteData(r.te[u]) => MergeRec(r, u).e.write_seq = r.e.write_seq
                 /\ ~WroteChildren(r.te[u]) =>
                       MergeRec(r, u).e.write_children_seq = r.e.write_children_seq
<1> DEFINE c == Commit(r, u)
           d == DropTentry(c, u)
           w == MergeRec(r, u)
<1>1. Good(r) /\ Good(c) /\ Good(w)
  BY CommitGood, MergeRecGood DEF Whole
<1>2. /\ Outside(r, c)
      /\ c.e.delete_seq = r.e.delete_seq
      /\ ~WroteData(r.te[u]) => c.e.write_seq = r.e.write_seq
      /\ ~WroteChildren(r.te[u]) => c.e.write_children_seq = r.e.write_children_seq
  BY <1>1, CommitOutside
<1>3. w = Cleanup(d)
  BY DEF MergeRec
<1> HIDE DEF c, w
<1>4. Whole(c)
  BY <1>1, <1>2, OutsideClean
<1>5. Whole(d)
  BY <1>4, DropTentryWhole
<1>6. /\ d.e = c.e /\ d.next_seq = c.next_seq /\ d.te[u] = NoTentry
      /\ \A t \in Tid : t # u => d.te[t] = c.te[t]
  BY <1>1, Types, DropTentryFacts
<1> HIDE DEF d
<1>7. w.te = d.te /\ (~Untouched(d) => w = d)
  BY <1>3, <1>5, CleanupFacts
<1>8. c.te = r.te /\ Later(r.e, c.e) /\ c.next_seq >= r.next_seq
  BY <1>2 DEF Outside, Untouched
<1>9. ASSUME NEW t \in Tid, t # u, Touched(r, t)
      PROVE  w = d
  BY <1>6, <1>7, <1>8, <1>9 DEF Untouched, Touched
<1>10. Ended(r, w, u)
  BY <1>6, <1>7, <1>8, <1>9 DEF Ended
<1>11. Whole(w)
  BY <1>1, <1>10, EndedClean
<1> QED
  BY <1>2, <1>6, <1>9, <1>10, <1>11 DEF w

LEMMA AbortRecEnded ==
    ASSUME NEW r, Whole(r), NEW u \in Tid
    PROVE  /\ Whole(AbortRec(r, u)) /\ Ended(r, AbortRec(r, u), u)
           /\ \A t \in Tid : t # u /\ Touched(r, t) => AbortRec(r, u).e = r.e
           /\ AbortRec(r, u).e = r.e
                 \/ (~IsValid(r.e) /\ ~IsValid(AbortRec(r, u).e))
<1> DEFINE d == DropTentry(r, u)
           w == AbortRec(r, u)
<1>1. Good(r) /\ Good(w)
  BY AbortRecGood DEF Whole
<1>2. Whole(d)
  BY DropTentryWhole
<1>3. /\ d.e = r.e /\ d.next_seq = r.next_seq /\ d.te[u] = NoTentry
      /\ \A t \in Tid : t # u => d.te[t] = r.te[t]
  BY <1>1, Types, DropTentryFacts
<1>4. \/ w = d
      \/ w = NewRecord /\ Untouched(d) /\ d.e.delete_seq > d.e.write_seq
  BY DEF AbortRec
<1> HIDE DEF d, w
<1>5. CASE w = d
  <2>1. Ended(r, w, u)
    BY <1>1, <1>3, <1>5, Types DEF Ended, Later
  <2> QED
    BY <1>2, <1>3, <1>5, <2>1 DEF w
<1>6. CASE w = NewRecord /\ Untouched(d) /\ d.e.delete_seq > d.e.write_seq
  <2>1. w.te = d.te
    BY <1>2, <1>6, UntouchedHasNoCopies
  <2>2. \A t \in Tid : t # u => ~Touched(r, t)
    BY <1>3, <1>6 DEF Untouched, Touched
  <2>3. Ended(r, w, u)
    BY <1>3, <2>1, <2>2 DEF Ended
  <2>4. Whole(w)
    BY <1>1, <2>3, EndedClean
  <2>5. ~IsValid(r.e)
    BY <1>1, <1>3, <1>6, Types DEF IsValid
  <2>6. ~IsValid(w.e)
    BY <1>6 DEF IsValid, NewRecord, NewEntry
  <2> QED
    BY <2>2, <2>3, <2>4, <2>5, <2>6 DEF w
<1> QED
  BY <1>4, <1>5, <1>6

-----------------------------------------------------------------------------
(* Operations on the whole tree.                                           *)

WholeDb(d) == GoodDb(d) /\ \A q \in Path : Clean(d[q])

LEMMA WholeDbRecords ==
    ASSUME NEW d, WholeDb(d), NEW q \in Path
    PROVE  Whole(d[q]) /\ Good(d[q]) /\ d[q].e \in Entry
  BY GoodDbRecords DEF WholeDb, Whole

LEMMA CreateBranchOutside ==
    ASSUME NEW d, WholeDb(d), NEW p \in Path, NEW v \in Value
    PROVE  \A q \in Path : Outside(d[q], CreateBranch(d, p, v)[q])
<1> DEFINE V == ValidPaths(d)
           perms == InheritedPerms(V, p, [q \in Path |-> d[q].e.perms])
           written(q) ==
               IF q \in Missing(V, p)
               THEN WriteEntry(d[q], IF q = p THEN v ELSE EmptyValue, perms)
               ELSE d[q]
           new(q) == IF q \in Registrars(V, p)
                     THEN AddChild(written(q), Step(q, p)) ELSE written(q)
<1>1. perms \in PermList
  <2>1. [q \in Path |-> d[q].e.perms] \in [Path -> PermList]
    BY WholeDbRecords DEF Entry
  <2>2. QED
    BY <2>1, InheritedPermsTyped
<1> HIDE DEF perms
<1>2. ASSUME NEW q \in Path
      PROVE  /\ Good(written(q)) /\ Outside(d[q], written(q))
             /\ q \in Missing(V, p) \/ q \in V => IsValid(written(q).e)
  <2>1. Good(d[q]) /\ (q \in V => IsValid(d[q].e))
    BY WholeDbRecords DEF ValidPaths
  <2>2. CASE q \in Missing(V, p)
    <3> DEFINE x == IF q = p THEN v ELSE EmptyValue
    <3>1. x \in Value
      BY Constants
    <3>2. written(q) = WriteEntry(d[q], x, perms)
      BY <2>2
    <3> HIDE DEF x, written
    <3> QED
      BY <1>1, <2>1, <3>1, <3>2, WriteEntryGood, WriteEntryOutside
  <2>3. CASE q \notin Missing(V, p)
    BY <2>1, <2>3, OutsideReflexive
  <2> QED
    BY <2>2, <2>3
<1> HIDE DEF written
<1>3. ASSUME NEW q \in Path
      PROVE  Outside(d[q], new(q))
  <2> DEFINE w == written(q)
             a == AddChild(w, Step(q, p))
  <2>0. Good(d[q]) /\ Good(w) /\ Outside(d[q], w)
    BY <1>2, WholeDbRecords
  <2>1. CASE q \in Registrars(V, p)
    <3>1. IsValid(w.e) /\ Step(q, p) \in Name
      BY <1>2, <2>1, RegistrarsExist
    <3> HIDE DEF w
    <3>2. w.e.children \cup {Step(q, p)} \in SUBSET Name
      BY <2>0, <3>1, Types DEF Entry
    <3>3. Good(a) /\ Outside(w, a)
      BY <2>0, <3>1, <3>2, SetChildrenGood, AddChildOutside DEF AddChild
    <3> HIDE DEF a
    <3>4. Outside(d[q], a)
      BY <2>0, <3>3, OutsideTransitive
    <3> QED
      BY <2>1, <3>4 DEF a, w
  <2>2. CASE q \notin Registrars(V, p)
    BY <2>0, <2>2
  <2> QED
    BY <2>1, <2>2
<1>4. CreateBranch(d, p, v) = [q \in Path |-> new(q)]
  BY DEF CreateBranch, written, perms
<1> HIDE DEF new
<1> QED
  BY <1>3, <1>4

LEMMA DeleteBranchOutside ==
    ASSUME NEW d, WholeDb(d), NEW p \in Path,
           \A q \in Subtree([q \in Path |-> d[q].e.children], p) : IsValid(d[q].e)
    PROVE  \A q \in Path : Outside(d[q], DeleteBranch(d, p)[q])
<1> DEFINE kids == [q \in Path |-> d[q].e.children]
           S == Subtree(kids, p)
           new(q) == IF q \in S
                     THEN MarkDeleted(RemoveChildren(d[q], kids[q]))
                     ELSE IF p # <<>> /\ q = Parent(p)
                     THEN RemoveChildren(d[q], {Base(p)})
                     ELSE d[q]
<1>1. DeleteBranch(d, p) = [q \in Path |-> new(q)]
  BY DEF DeleteBranch
<1>2. ASSUME NEW q \in Path
      PROVE  Outside(d[q], new(q))
  <2>1. Whole(d[q]) /\ Good(d[q]) /\ kids[q] = d[q].e.children
    BY WholeDbRecords
  <2>2. kids[q] \in SUBSET Name
    BY <2>1, Types DEF Entry
  <2>3. CASE q \in S
    <3> DEFINE r == RemoveChildren(d[q], kids[q])
               m == MarkDeleted(r)
    <3>1. IsValid(d[q].e)
      BY <2>3
    <3>2. Good(r) /\ IsValid(r.e) /\ r.e.children = {} /\ Outside(d[q], r)
      BY <2>1, <2>2, <3>1, RemoveChildrenGood, RemoveChildrenOutside
    <3> HIDE DEF r
    <3>3. Whole(r)
      BY <2>1, <3>2, OutsideClean
    <3>4. Good(m) /\ Outside(r, m)
      BY <3>2, <3>3, MarkDeletedGood, MarkDeletedOutside
    <3> HIDE DEF m
    <3>5. Outside(d[q], m)
      BY <2>1, <3>2, <3>4, OutsideTransitive
    <3> QED
      BY <2>3, <3>5 DEF r, m
  <2>4. CASE q \notin S /\ p # <<>> /\ q = Parent(p)
    <3>1. {Base(p)} \in SUBSET Name
      BY <2>4, BaseName
    <3>2. Outside(d[q], RemoveChildren(d[q], {Base(p)}))
      BY <2>1, <3>1, RemoveChildrenOutside
    <3> QED
      BY <2>4, <3>2
  <2>5. CASE q \notin S /\ ~(p # <<>> /\ q = Parent(p))
    BY <2>1, <2>5, OutsideReflexive
  <2> QED
    BY <2>3, <2>4, <2>5
<1> HIDE DEF new
<1> QED
  BY <1>1, <1>2

(* What an operation of transaction t may do to a record: nothing, or a    *)
(* change of t's copy.                                                     *)
OwnAt(r, w, t) == w = r \/ Own(r, w, t)

LEMMA GetTentryWhole ==
    ASSUME NEW r, Whole(r), NEW t \in Tid
    PROVE  /\ Whole(GetTentry(r, t)) /\ Own(r, GetTentry(r, t), t)
           /\ Touched(GetTentry(r, t), t)
<1> DEFINE g == GetTentry(r, t)
<1>1. Good(r) /\ Good(g) /\ Own(r, g, t)
  BY GetTentryGood, GetTentryOwn DEF Whole
<1> HIDE DEF g
<1>2. Whole(g) /\ Touched(g, t)
  BY <1>1, OwnClean DEF Own, OwnCopy, Touched
<1> QED
  BY <1>1, <1>2 DEF g

(* A step on the copy after others is a step on the copy.                  *)
LEMMA OwnThen ==
    ASSUME NEW a, NEW b, NEW c, NEW t \in Tid, Whole(a), Whole(b), Good(c),
           Own(a, b, t), Own(b, c, t)
    PROVE  Whole(c) /\ Own(a, c, t) /\ Touched(c, t)
<1>1. Good(a) /\ Good(b)
  BY DEF Whole
<1>2. Own(a, c, t)
  BY <1>1, OwnTransitive
<1>3. Whole(c) /\ Touched(c, t)
  BY <1>2, OwnClean DEF Own, OwnCopy, Touched
<1> QED
  BY <1>2, <1>3

LEMMA FetchDataWhole ==
    ASSUME NEW a, NEW r, NEW t \in Tid, Whole(a), Whole(r), Own(a, r, t), Touched(r, t)
    PROVE  /\ Whole(FetchData(r, t)) /\ Own(a, FetchData(r, t), t)
           /\ Touched(FetchData(r, t), t)
<1>1. Good(FetchData(r, t)) /\ Own(r, FetchData(r, t), t)
  BY FetchDataGood, FetchDataOwn DEF Whole
<1> QED
  BY <1>1, OwnThen

LEMMA FetchChildrenWhole ==
    ASSUME NEW a, NEW r, NEW t \in Tid, Whole(a), Whole(r), Own(a, r, t), Touched(r, t)
    PROVE  /\ Whole(FetchChildren(r, t)) /\ Own(a, FetchChildren(r, t), t)
           /\ Touched(FetchChildren(r, t), t)
<1>1. Good(FetchChildren(r, t)) /\ Own(r, FetchChildren(r, t), t)
  BY FetchChildrenGood, FetchChildrenOwn DEF Whole
<1> QED
  BY <1>1, OwnThen

LEMMA OpenOwn ==
    ASSUME NEW r, Whole(r), NEW t \in Tid
    PROVE  /\ Whole(Open(r, t)) /\ Own(r, Open(r, t), t) /\ Touched(Open(r, t), t)
           /\ Open(r, t).te[t] \in Tentry
<1>1. Whole(Open(r, t)) /\ Own(r, Open(r, t), t) /\ Touched(Open(r, t), t)
  BY GetTentryWhole, FetchDataWhole DEF Open
<1> QED
  BY <1>1, Types DEF Whole

LEMMA TWriteWhole ==
    ASSUME NEW a, NEW r, NEW t \in Tid, Whole(a), Whole(r), Own(a, r, t), Touched(r, t),
           NEW v \in Value, NEW pl \in PermList
    PROVE  /\ Whole(TWrite(r, t, v, pl)) /\ Own(a, TWrite(r, t, v, pl), t)
           /\ Touched(TWrite(r, t, v, pl), t)
<1>1. Good(TWrite(r, t, v, pl)) /\ Own(r, TWrite(r, t, v, pl), t)
  BY TWriteGood, TWriteOwn DEF Whole
<1> QED
  BY <1>1, OwnThen

LEMMA TCreateBranchOwn ==
    ASSUME NEW d, WholeDb(d), NEW t \in Tid, NEW p \in Path, NEW v \in Value
    PROVE  \A q \in Path : OwnAt(d[q], TCreateBranch(d, t, p, v)[q], t)
<1> DEFINE V == TValidPaths(d, t)
           fetched == [q \in Path |-> FetchData(GetTentry(d[q], t), t).te[t].perms]
           perms == InheritedPerms(V, p, fetched)
           written(q) ==
               IF q \in Missing(V, p)
               THEN TWrite(GetTentry(d[q], t), t,
                           IF q = p THEN v ELSE EmptyValue, perms)
               ELSE GetTentry(d[q], t)
           new(q) == IF q \in Registrars(V, p)
                     THEN FetchData(TAddChild(written(q), t, Step(q, p)), t)
                     ELSE IF q \in Missing(V, p) THEN written(q)
                     ELSE d[q]
<1>1. perms \in PermList
  <2>1. ASSUME NEW q \in Path
        PROVE  FetchData(GetTentry(d[q], t), t).te[t].perms \in PermList
    <3>1. FetchData(GetTentry(d[q], t), t) \in Record
      BY WholeDbRecords, GetTentryGood, FetchDataGood DEF Good
    <3>2. QED
      BY <3>1 DEF Record, Tentry
  <2>2. fetched \in [Path -> PermList]
    BY <2>1
  <2> HIDE DEF fetched
  <2>3. QED
    BY <2>2, InheritedPermsTyped
<1> HIDE DEF perms
<1>2. ASSUME NEW q \in Path
      PROVE  Whole(written(q)) /\ Own(d[q], written(q), t) /\ Touched(written(q), t)
  <2> DEFINE g == GetTentry(d[q], t)
             x == IF q = p THEN v ELSE EmptyValue
  <2>1. Whole(d[q]) /\ Whole(g) /\ Own(d[q], g, t) /\ Touched(g, t)
    BY WholeDbRecords, GetTentryWhole
  <2>2. x \in Value
    BY Constants
  <2>3. written(q) = IF q \in Missing(V, p) THEN TWrite(g, t, x, perms) ELSE g
    OBVIOUS
  <2> HIDE DEF x, g, written
  <2> QED
    BY <1>1, <2>1, <2>2, <2>3, TWriteWhole
<1> HIDE DEF written
<1>3. ASSUME NEW q \in Path
      PROVE  OwnAt(d[q], new(q), t)
  <2> DEFINE w == written(q)
             a == TAddChild(w, t, Step(q, p))
             f == FetchData(a, t)
  <2>0. Whole(d[q]) /\ Whole(w) /\ Own(d[q], w, t) /\ Touched(w, t)
    BY <1>2, WholeDbRecords
  <2>1. CASE q \in Registrars(V, p)
    <3>1. Step(q, p) \in Name
      BY <2>1, RegistrarsExist
    <3> HIDE DEF w
    <3>2. Good(a) /\ Own(w, a, t)
      BY <2>0, <3>1, TAddChildGood, TAddChildOwn DEF Whole
    <3> HIDE DEF a
    <3>3. Whole(a) /\ Own(d[q], a, t) /\ Touched(a, t)
      BY <2>0, <3>2, OwnThen
    <3>4. Own(d[q], f, t)
      BY <2>0, <3>3, FetchDataWhole
    <3> HIDE DEF f
    <3> QED
      BY <2>1, <3>4 DEF OwnAt, f, a, w
  <2>2. CASE q \notin Registrars(V, p)
    BY <2>0, <2>2 DEF OwnAt
  <2> QED
    BY <2>1, <2>2
<1>4. TCreateBranch(d, t, p, v) = [q \in Path |-> new(q)]
  BY DEF TCreateBranch, written, perms
<1> HIDE DEF new
<1> QED
  BY <1>3, <1>4

LEMMA TDeleteBranchOwn ==
    ASSUME NEW d, WholeDb(d), NEW t \in Tid, NEW p \in Path
    PROVE  \A q \in Path : OwnAt(d[q], TDeleteBranch(d, t, p)[q], t)
<1> DEFINE V == TValidPaths(d, t)
           opened(q) == FetchChildren(FetchData(GetTentry(d[q], t), t), t)
           kids == [q \in Path |->
                       IF q \in V THEN CurrentChildren(opened(q).te[t]) ELSE {}]
           visited == Subtree(kids, p)
           removed(q) == {c \in kids[q] : Append(q, c) \in V}
           new(q) ==
               IF q \in visited \cap V
               THEN TMarkDeleted(TRemoveChildren(opened(q), t, removed(q)), t)
               ELSE IF q \in visited
               THEN GetTentry(d[q], t)
               ELSE IF p # <<>> /\ q = Parent(p)
               THEN TRemoveChildren(GetTentry(d[q], t), t, {Base(p)})
               ELSE d[q]
<1>1. TDeleteBranch(d, t, p) = [q \in Path |-> new(q)]
  BY DEF TDeleteBranch
<1>2. ASSUME NEW q \in Path
      PROVE  /\ Whole(d[q])
             /\ Whole(GetTentry(d[q], t)) /\ Own(d[q], GetTentry(d[q], t), t)
             /\ Touched(GetTentry(d[q], t), t)
             /\ Whole(opened(q)) /\ Own(d[q], opened(q), t) /\ Touched(opened(q), t)
  <2> DEFINE g == GetTentry(d[q], t)
             f == FetchData(g, t)
  <2>1. Whole(d[q]) /\ Whole(g) /\ Own(d[q], g, t) /\ Touched(g, t)
    BY WholeDbRecords, GetTentryWhole
  <2> HIDE DEF g
  <2>2. Whole(f) /\ Own(d[q], f, t) /\ Touched(f, t)
    BY <2>1, FetchDataWhole
  <2> HIDE DEF f
  <2>3. /\ Whole(FetchChildren(f, t)) /\ Own(d[q], FetchChildren(f, t), t)
        /\ Touched(FetchChildren(f, t), t)
    BY <2>1, <2>2, FetchChildrenWhole
  <2> QED
    BY <2>1, <2>3 DEF f, g
<1>3. ASSUME NEW q \in Path
      PROVE  removed(q) \in SUBSET Name
  <2>1. opened(q).te[t] \in Tentry
    BY <1>2, Types DEF Whole
  <2>2. kids[q] \in SUBSET Name
    BY <2>1 DEF CurrentChildren, Tentry
  <2>3. QED
    BY <2>2
<1> HIDE DEF opened, removed, visited, kids
<1>4. ASSUME NEW r, NEW w, Whole(r), Whole(w), Own(r, w, t), Touched(w, t),
             NEW cs \in SUBSET Name
      PROVE  /\ Whole(TRemoveChildren(w, t, cs)) /\ Own(r, TRemoveChildren(w, t, cs), t)
             /\ Touched(TRemoveChildren(w, t, cs), t)
  <2>1. Good(TRemoveChildren(w, t, cs)) /\ Own(w, TRemoveChildren(w, t, cs), t)
    BY <1>4, TRemoveChildrenGood, TRemoveChildrenOwn DEF Whole
  <2> QED
    BY <1>4, <2>1, OwnThen
<1>5. ASSUME NEW q \in Path
      PROVE  OwnAt(d[q], new(q), t)
  <2>1. CASE q \in visited \cap V
    <3> DEFINE w == TRemoveChildren(opened(q), t, removed(q))
    <3>1. Whole(w) /\ Own(d[q], w, t) /\ Touched(w, t)
      BY <1>2, <1>3, <1>4
    <3> HIDE DEF w
    <3>2. Good(TMarkDeleted(w, t)) /\ Own(w, TMarkDeleted(w, t), t)
      BY <3>1, TMarkDeletedGood, TMarkDeletedOwn DEF Whole
    <3>3. Own(d[q], TMarkDeleted(w, t), t)
      BY <1>2, <3>1, <3>2, OwnThen
    <3> QED
      BY <2>1, <3>3 DEF w, OwnAt
  <2>2. CASE q \notin visited \cap V /\ q \in visited
    BY <1>2, <2>2 DEF OwnAt
  <2>3. CASE q \notin visited /\ p # <<>> /\ q = Parent(p)
    <3>1. {Base(p)} \in SUBSET Name
      BY <2>3, BaseName
    <3>2. Own(d[q], TRemoveChildren(GetTentry(d[q], t), t, {Base(p)}), t)
      BY <1>2, <1>4, <3>1
    <3> QED
      BY <2>3, <3>2 DEF OwnAt
  <2>4. CASE q \notin visited /\ ~(p # <<>> /\ q = Parent(p))
    BY <2>4 DEF OwnAt
  <2> QED
    BY <2>1, <2>2, <2>3, <2>4
<1> HIDE DEF new
<1> QED
  BY <1>1, <1>5

-----------------------------------------------------------------------------
(* The kinds of steps.                                                     *)

(* Every transaction a record knows of is open.                            *)
StepInv == IInv /\ (\A p \in Path : Clean(db[p])) /\ NoClosedTransactionInRecords

LEMMA StepInvDb ==
    StepInv => WholeDb(db) /\ trans \subseteq Tid
  BY IInvDb DEF StepInv, WholeDb

Direct == trans' = trans /\ \A p \in Path : Outside(db[p], db'[p])

Within(t) == trans' = trans /\ \A p \in Path : OwnAt(db[p], db'[p], t)

LEMMA UpdateAt ==
    ASSUME NEW d, WholeDb(d), NEW p \in Path, NEW r
    PROVE  \A q \in Path : [d EXCEPT ![p] = r][q] = IF q = p THEN r ELSE d[q]
  BY DEF WholeDb, GoodDb

LEMMA SimpleDirect ==
    ASSUME WholeDb(db), SimpleNext
    PROVE  Direct
<1>1. PICK p \in Path :
         \/ SimpleCreate(p)
         \/ \E c \in Cid :
               \/ \E v \in Value : SimpleUpdate(c, p, v)
               \/ SimpleDel(c, p)
               \/ \E perms \in PermLists : SimpleSetPerms(c, p, perms)
  BY DEF SimpleNext
<1>2. Good(db[p]) /\ db[p].e.perms \in PermList /\ db[p].e.value \in Value
  BY WholeDbRecords DEF Entry
<1>3. ASSUME NEW v \in Value, NEW pl \in PermList,
             db' = [db EXCEPT ![p] = WriteEntry(@, v, pl)]
      PROVE  \A q \in Path : Outside(db[q], db'[q])
  <2>1. Outside(db[p], WriteEntry(db[p], v, pl))
    BY <1>2, WriteEntryOutside
  <2> QED
    BY <1>3, <2>1, UpdateAt, WholeDbRecords, OutsideReflexive
<1>4. CASE SimpleCreate(p)
  BY <1>4, Constants, CreateBranchOutside DEF SimpleCreate, Direct
<1>5. ASSUME NEW c \in Cid, NEW v \in Value, SimpleUpdate(c, p, v)
      PROVE  Direct
  <2>1. \/ db' = [db EXCEPT ![p] = WriteEntry(@, v, db[p].e.perms)]
        \/ db' = CreateBranch(db, p, v)
    BY <1>5 DEF SimpleUpdate
  <2>2. \A q \in Path : Outside(db[q], db'[q])
    BY <1>2, <1>3, <2>1, CreateBranchOutside
  <2> QED
    BY <1>5, <2>2 DEF SimpleUpdate, Direct
<1>6. ASSUME NEW c \in Cid, SimpleDel(c, p)
      PROVE  Direct
  BY <1>6, DeleteBranchOutside DEF SimpleDel, Direct
<1>7. ASSUME NEW c \in Cid, NEW perms \in PermLists, SimpleSetPerms(c, p, perms)
      PROVE  Direct
  <2>1. db' = [db EXCEPT ![p] = WriteEntry(@, db[p].e.value, perms)]
    BY <1>7 DEF SimpleSetPerms
  <2>2. perms \in PermList
    BY Constants
  <2>3. \A q \in Path : Outside(db[q], db'[q])
    BY <1>2, <1>3, <2>1, <2>2
  <2> QED
    BY <1>7, <2>3 DEF SimpleSetPerms, Direct
<1> QED
  BY <1>1, <1>4, <1>5, <1>6, <1>7

LEMMA TransWithin ==
    ASSUME WholeDb(db), NEW t \in Tid, TransNext(t)
    PROVE  Within(t)
<1>1. PICK p \in Path :
         \/ TransCreate(t, p)
         \/ TransRead(t, p)
         \/ \E c \in Cid :
               \/ TransGetChildren(t, p, c)
               \/ \E v \in Value : TransUpdate(t, p, c, v)
               \/ \E perms \in PermLists : TransSetPerms(t, p, c, perms)
               \/ TransDel(t, p, c)
  BY DEF TransNext, TransWriteNext
<1> DEFINE o == Open(db[p], t)
<1>2. /\ Whole(db[p]) /\ Whole(o) /\ Own(db[p], o, t) /\ Touched(o, t)
      /\ o.te[t].value \in Value /\ o.te[t].perms \in PermList
  BY WholeDbRecords, OpenOwn DEF Tentry
<1>3. ASSUME NEW r, Own(db[p], r, t), db' = [db EXCEPT ![p] = r]
      PROVE  \A q \in Path : OwnAt(db[q], db'[q], t)
  BY <1>3, UpdateAt DEF OwnAt
<1> HIDE DEF o
<1>4. CASE TransCreate(t, p)
  <2>1. Own(db[p], GetTentry(db[p], t), t)
    BY <1>2, GetTentryWhole
  <2>2. \/ db' = [db EXCEPT ![p] = GetTentry(db[p], t)]
        \/ db' = TCreateBranch(db, t, p, EmptyValue)
    BY <1>4 DEF TransCreate
  <2>3. \A q \in Path : OwnAt(db[q], db'[q], t)
    BY <1>3, <2>1, <2>2, Constants, TCreateBranchOwn
  <2> QED
    BY <1>4, <2>3 DEF TransCreate, Within
<1>5. CASE TransRead(t, p)
  BY <1>2, <1>3, <1>5 DEF TransRead, Within, o
<1>6. ASSUME NEW c \in Cid, TransGetChildren(t, p, c)
      PROVE  Within(t)
  <2>1. Own(db[p], FetchChildren(o, t), t)
    BY <1>2, FetchChildrenWhole
  <2>2. db' = [db EXCEPT ![p] = FetchChildren(o, t)] \/ db' = [db EXCEPT ![p] = o]
    BY <1>6 DEF TransGetChildren, o
  <2>3. \A q \in Path : OwnAt(db[q], db'[q], t)
    BY <1>2, <1>3, <2>1, <2>2
  <2> QED
    BY <1>6, <2>3 DEF TransGetChildren, Within
<1>7. ASSUME NEW c \in Cid, NEW v \in Value, TransUpdate(t, p, c, v)
      PROVE  Within(t)
  <2>1. Own(db[p], TWrite(o, t, v, o.te[t].perms), t)
    BY <1>2, TWriteWhole
  <2>2. \/ db' = TCreateBranch(db, t, p, v)
        \/ db' = [db EXCEPT ![p] = TWrite(o, t, v, o.te[t].perms)]
        \/ db' = [db EXCEPT ![p] = o]
    BY <1>7 DEF TransUpdate, o
  <2>3. \A q \in Path : OwnAt(db[q], db'[q], t)
    BY <1>2, <1>3, <2>1, <2>2, TCreateBranchOwn
  <2> QED
    BY <1>7, <2>3 DEF TransUpdate, Within
<1>8. ASSUME NEW c \in Cid, NEW perms \in PermLists, TransSetPerms(t, p, c, perms)
      PROVE  Within(t)
  <2>1. Own(db[p], TWrite(o, t, o.te[t].value, perms), t)
    BY <1>2, TWriteWhole, Constants
  <2>2. \/ db' = [db EXCEPT ![p] = TWrite(o, t, o.te[t].value, perms)]
        \/ db' = [db EXCEPT ![p] = o]
    BY <1>8 DEF TransSetPerms, o
  <2>3. \A q \in Path : OwnAt(db[q], db'[q], t)
    BY <1>2, <1>3, <2>1, <2>2
  <2> QED
    BY <1>8, <2>3 DEF TransSetPerms, Within
<1>9. ASSUME NEW c \in Cid, TransDel(t, p, c)
      PROVE  Within(t)
  <2>1. db' = TDeleteBranch(db, t, p) \/ db' = [db EXCEPT ![p] = o]
    BY <1>9 DEF TransDel, o
  <2>2. \A q \in Path : OwnAt(db[q], db'[q], t)
    BY <1>2, <1>3, <2>1, TDeleteBranchOwn
  <2> QED
    BY <1>9, <2>2 DEF TransDel, Within
<1> QED
  BY <1>1, <1>4, <1>5, <1>6, <1>7, <1>8, <1>9

(* The end of transaction u, one record at a time.                         *)
EndOf(u) == trans' = trans \ {u} /\ \A p \in Path : Ended(db[p], db'[p], u)

LEMMA NotReferenced ==
    ASSUME NEW r, Whole(r), NEW u \in Tid, ~Touched(r, u)
    PROVE  Ended(r, r, u)
  BY Types DEF Ended, Later, Whole, Clean

LEMMA MergeEnds ==
    ASSUME WholeDb(db), NEW u \in Tid, Merge(u), CanMerge(u)
    PROVE  /\ EndOf(u) /\ \A p \in Path : Whole(db'[p])
           /\ \A p \in Path : db'[p] = IF Touched(db[p], u) THEN MergeRec(db[p], u)
                                                         ELSE db[p]
<1>1. trans' = trans \ {u} /\ \A p \in Path :
         db'[p] = IF Touched(db[p], u) THEN MergeRec(db[p], u) ELSE db[p]
  BY DEF Merge, Records
<1>2. ASSUME NEW p \in Path
      PROVE  Ended(db[p], db'[p], u) /\ Whole(db'[p])
  <2>1. Whole(db[p])
    BY WholeDbRecords
  <2>2. CASE Touched(db[p], u)
    <3>1. CanMergeRec(db[p], u)
      BY <2>2 DEF CanMerge, Records
    <3> QED
      BY <1>1, <2>1, <2>2, <3>1, MergeRecEnded
  <2>3. CASE ~Touched(db[p], u)
    BY <1>1, <2>1, <2>3, NotReferenced
  <2> QED
    BY <2>2, <2>3
<1> QED
  BY <1>1, <1>2 DEF EndOf

Aborts(u) == Abort(u) \/ (Merge(u) /\ ~CanMerge(u))

LEMMA AbortEnds ==
    ASSUME WholeDb(db), NEW u \in Tid, Aborts(u)
    PROVE  /\ EndOf(u) /\ \A p \in Path : Whole(db'[p])
           /\ \A p \in Path : db'[p] = IF Touched(db[p], u) THEN AbortRec(db[p], u)
                                                         ELSE db[p]
<1>1. trans' = trans \ {u} /\ \A p \in Path :
         db'[p] = IF Touched(db[p], u) THEN AbortRec(db[p], u) ELSE db[p]
  BY DEF Aborts, Abort, Merge, Records
<1>2. ASSUME NEW p \in Path
      PROVE  Ended(db[p], db'[p], u) /\ Whole(db'[p])
  BY <1>1, WholeDbRecords, AbortRecEnded, NotReferenced
<1> QED
  BY <1>1, <1>2 DEF EndOf

LEMMA StepKinds ==
    ASSUME StepInv, [Next]_vars
    PROVE  \/ Direct
           \/ \E t \in trans : Within(t)
           \/ db' = db /\ trans \subseteq trans'
           \/ \E u \in trans : Merge(u) /\ CanMerge(u)
           \/ \E u \in trans : Aborts(u)
<1>1. WholeDb(db) /\ trans \subseteq Tid
  BY StepInvDb
<1>2. CASE SimpleNext
  BY <1>1, <1>2, SimpleDirect
<1>3. CASE \E t \in trans : TransNext(t)
  BY <1>1, <1>3, TransWithin
<1>4. CASE StoreNext
  BY <1>4 DEF StoreNext, Branch, Aborts
<1>5. CASE UNCHANGED vars
  BY <1>5 DEF vars
<1> QED
  BY <1>2, <1>3, <1>4, <1>5 DEF Next

-----------------------------------------------------------------------------
(* The invariant.                                                          *)

LEMMA NoClosedByRecord ==
    NoClosedTransactionInRecords <=>
        \A t \in Tid, p \in Path : Touched(db[p], t) => t \in trans
  BY DEF NoClosedTransactionInRecords, Records

LEMMA InitStepInv == Init => StepInv
<1> SUFFICES ASSUME Init
             PROVE  StepInv
  OBVIOUS
<1>1. IInv
  BY InitIInv
<1>2. WriteEntry(NewRecord, EmptyValue, DefaultPerms).te = NewRecord.te
  BY NewRecordGood, Constants, WriteEntryGood
<1>3. \A p \in Path : db[p].te = NewRecord.te
  BY <1>2 DEF Init
<1>4. \A p \in Path, t \in Tid : db[p].te[t] = NoTentry /\ ~Touched(db[p], t)
  BY <1>3, NoCopy DEF Touched
<1> QED
  BY <1>1, <1>4, NoClosedByRecord DEF StepInv, Clean

LEMMA NextStepInv == StepInv /\ [Next]_vars => StepInv'
<1> SUFFICES ASSUME StepInv, [Next]_vars
             PROVE  StepInv'
  OBVIOUS
<1>1. IInv' /\ GoodDb(db') /\ \A p \in Path : Good(db'[p])
  <2>1. IInv'
    BY NextIInv DEF StepInv
  <2>2. GoodDb(db')
    BY <2>1 DEF IInv, TypeOK, RecordsSound, GoodDb
  <2> QED
    BY <2>1, <2>2, GoodDbRecords
<1>2. WholeDb(db) /\ trans \subseteq Tid /\ \A p \in Path : Whole(db[p])
  BY StepInvDb, WholeDbRecords
<1>3. \A t \in Tid, p \in Path : Touched(db[p], t) => t \in trans
  BY NoClosedByRecord DEF StepInv
<1>4. SUFFICES /\ \A p \in Path : Clean(db'[p])
               /\ \A t \in Tid, p \in Path : Touched(db'[p], t) => t \in trans'
  BY <1>1 DEF StepInv, NoClosedTransactionInRecords, Records
<1>5. CASE Direct
  <2>1. \A p \in Path : Clean(db'[p])
    BY <1>1, <1>2, <1>5, OutsideClean DEF Direct, Whole
  <2>2. \A p \in Path, t \in Tid : Touched(db'[p], t) => Touched(db[p], t)
    BY <1>5 DEF Direct, Outside, Touched
  <2> QED
    BY <1>3, <1>5, <2>1, <2>2 DEF Direct
<1>6. ASSUME NEW u \in trans, Within(u)
      PROVE  /\ \A p \in Path : Clean(db'[p])
             /\ \A t \in Tid, p \in Path : Touched(db'[p], t) => t \in trans'
  <2>1. \A p \in Path : Clean(db'[p])
    BY <1>1, <1>2, <1>6, OwnClean DEF Within, OwnAt, Whole
  <2>2. \A p \in Path, t \in Tid : t # u /\ Touched(db'[p], t) => Touched(db[p], t)
    BY <1>6 DEF Within, OwnAt, Own, Touched
  <2> QED
    BY <1>3, <1>6, <2>1, <2>2 DEF Within
<1>7. CASE db' = db /\ trans \subseteq trans'
  BY <1>2, <1>3, <1>7 DEF Whole
<1>8. ASSUME NEW u \in trans, EndOf(u), \A p \in Path : Whole(db'[p])
      PROVE  /\ \A p \in Path : Clean(db'[p])
             /\ \A t \in Tid, p \in Path : Touched(db'[p], t) => t \in trans'
  <2>1. \A p \in Path, t \in Tid : Touched(db'[p], t) => t # u /\ Touched(db[p], t)
    BY <1>8, NoCopy DEF EndOf, Ended, Touched
  <2> QED
    BY <1>3, <1>8, <2>1 DEF EndOf, Whole
<1>9. \A u \in trans : (Merge(u) /\ CanMerge(u)) \/ Aborts(u) =>
         EndOf(u) /\ \A p \in Path : Whole(db'[p])
  BY <1>2, MergeEnds, AbortEnds
<1> QED
  BY <1>5, <1>6, <1>7, <1>8, <1>9, StepKinds

THEOREM SpecStepInv == Spec => []StepInv
  BY InitStepInv, NextStepInv, PTL DEF Spec

(* A record keeps no trace of a transaction that was merged or aborted:    *)
(* its copies are dropped wherever it has any (transaction.cc:378, 396).   *)
THEOREM NoTraceOfClosed == Spec => []NoClosedTransactionInRecords
<1>1. StepInv => NoClosedTransactionInRecords
  BY DEF StepInv
<1> QED
  BY <1>1, SpecStepInv, PTL

-----------------------------------------------------------------------------
(* What no step may do to an open transaction.                             *)

(* Reads repeat: what a transaction fetched stays as it was until the      *)
(* transaction itself writes (transaction.cc:540, 573).                    *)
THEOREM ReadsRepeat == Spec => RepeatableReads
<1>1. ASSUME StepInv, [Next]_vars, NEW t \in Tid, NEW p \in Path
      PROVE  db'[p].te[t] = db[p].te[t] \/ OwnCopy(db[p].te[t], db'[p].te[t])
                \/ db'[p].te[t] = NoTentry
  <2>0. WholeDb(db) /\ trans \subseteq Tid
    BY <1>1, StepInvDb
  <2>1. CASE Direct
    BY <2>1 DEF Direct, Outside
  <2>2. ASSUME NEW u \in trans, Within(u)
        PROVE  db'[p].te[t] = db[p].te[t] \/ OwnCopy(db[p].te[t], db'[p].te[t])
    BY <2>2 DEF Within, OwnAt, Own
  <2>3. ASSUME NEW u \in trans, EndOf(u)
        PROVE  db'[p].te[t] = db[p].te[t] \/ db'[p].te[t] = NoTentry
    BY <2>3 DEF EndOf, Ended
  <2>4. \A u \in trans : (Merge(u) /\ CanMerge(u)) \/ Aborts(u) => EndOf(u)
    BY <2>0, MergeEnds, AbortEnds
  <2> QED
    BY <1>1, <2>1, <2>2, <2>3, <2>4, StepKinds
<1>2. StepInv /\ [Next]_vars =>
        [\A t \in Tid, p \in Path :
           LET te == db[p].te[t]
               new == db'[p].te[t]
           IN  new.init_seq # 0 =>
                 /\ te.read_seq # 0 /\ new.write_seq = te.write_seq =>
                       new.value = te.value /\ new.perms = te.perms
                 /\ te.read_children_seq # 0 => new.children = te.children]_vars
  BY <1>1, NoCopy DEF OwnCopy
<1> QED
  BY <1>2, SpecStepInv, PTL DEF Spec, RepeatableReads

(* Nothing a transaction does is seen outside it before it is merged, nor  *)
(* after it was aborted or its merge refused (mstore.cc:211).              *)
THEOREM NotSeenBeforeMerge == Spec => UncommittedIsInvisible
<1> DEFINE Quiet == \A t \in trans :
               StepOf(t) \/ Abort(t) \/ (Merge(t) /\ ~CanMerge(t))
                  => Contents(db') = Contents(db)
<1>1. ASSUME StepInv, [Next]_vars, NEW t \in trans, StepOf(t)
      PROVE  Contents(db') = Contents(db)
  <2>0. WholeDb(db) /\ trans \subseteq Tid /\ t \in Tid
    BY <1>1, StepInvDb
  <2>1. PICK p \in Path : db'[p].te[t] # db[p].te[t]
    BY <1>1 DEF StepOf
  <2>2. ~Direct
    BY <2>1 DEF Direct, Outside
  <2>3. ASSUME NEW u \in trans, Within(u)
        PROVE  Contents(db') = Contents(db)
    <3>1. \A q \in Path : db'[q].e = db[q].e
      BY <2>3 DEF Within, OwnAt, Own
    <3> QED
      BY <3>1 DEF Contents
  <2>4. CASE db' = db
    BY <2>4
  <2>5. ASSUME NEW u \in trans, EndOf(u)
        PROVE  FALSE
    <3>1. u = t
      BY <2>0, <2>1, <2>5 DEF EndOf, Ended
    <3> QED
      BY <1>1, <2>5, <3>1 DEF EndOf, StepOf
  <2>6. \A u \in trans : (Merge(u) /\ CanMerge(u)) \/ Aborts(u) => EndOf(u)
    BY <2>0, MergeEnds, AbortEnds
  <2> QED
    BY <1>1, <2>2, <2>3, <2>4, <2>5, <2>6, StepKinds
<1>2. ASSUME StepInv, NEW t \in trans, Aborts(t)
      PROVE  Contents(db') = Contents(db)
  <2>0. WholeDb(db) /\ t \in Tid
    BY <1>2, StepInvDb
  <2>1. \A p \in Path : db'[p] = IF Touched(db[p], t) THEN AbortRec(db[p], t) ELSE db[p]
    BY <1>2, <2>0, AbortEnds
  <2>2. \A p \in Path : \/ db'[p].e = db[p].e
                        \/ ~IsValid(db[p].e) /\ ~IsValid(db'[p].e)
    BY <2>0, <2>1, WholeDbRecords, AbortRecEnded
  <2> QED
    BY <2>2 DEF Contents
<1>3. StepInv /\ [Next]_vars => Quiet
  BY <1>1, <1>2 DEF Aborts
<1> HIDE DEF Quiet
<1>4. Spec => [][Quiet]_vars
  BY <1>3, SpecStepInv, PTL DEF Spec
<1> QED
  BY <1>4 DEF UncommittedIsInvisible, Quiet

(* can_merge on one record, before and after a step: what a transaction    *)
(* compares with does not go back.                                         *)
LEMMA LaterDooms ==
    ASSUME NEW r, NEW w, NEW t \in Tid, Good(r), Good(w),
           w.te[t] = r.te[t], Later(r.e, w.e), CanMergeRec(w, t)
    PROVE  CanMergeRec(r, t)
<1> DEFINE te == r.te[t]
<1>1. /\ r.e.write_seq \in Nat /\ r.e.delete_seq \in Nat
      /\ r.e.write_children_seq \in Nat
      /\ w.e.write_seq \in Nat /\ w.e.delete_seq \in Nat
      /\ w.e.write_children_seq \in Nat
      /\ te.init_seq \in Nat /\ te.read_seq \in Nat /\ te.read_children_seq \in Nat
  BY Types
<1>2. /\ w.e.write_seq >= r.e.write_seq /\ w.e.delete_seq >= r.e.delete_seq
      /\ w.e.write_children_seq >= r.e.write_children_seq
  BY DEF Later
<1>3. CASE te.init_valid
  BY <1>1, <1>2, <1>3 DEF CanMergeRec
<1>4. CASE ~te.init_valid
  BY <1>1, <1>2, <1>4 DEF CanMergeRec
<1> QED
  BY <1>3, <1>4

LEMMA OwnDooms ==
    ASSUME NEW r, NEW w, NEW t \in Tid, Touched(r, t), Own(r, w, t), CanMergeRec(w, t)
    PROVE  CanMergeRec(r, t) /\ Touched(w, t)
<1>1. w.e = r.e /\ OwnCopy(r.te[t], w.te[t])
  BY DEF Own
<1> QED
  BY <1>1 DEF CanMergeRec, OwnCopy, Touched

LEMMA CanMergeByRecord ==
    ASSUME NEW t
    PROVE  /\ CanMerge(t) <=>
                 \A p \in Path : Touched(db[p], t) => CanMergeRec(db[p], t)
           /\ CanMerge(t)' <=>
                 \A p \in Path : Touched(db'[p], t) => CanMergeRec(db'[p], t)
  BY DEF CanMerge, Records

(* A transaction that lost a race stays lost: the numbers it compares with *)
(* only grow while it is open, although Cleanup resets those of records    *)
(* nobody references (transaction.cc:277, 378).                            *)
THEOREM LostStaysLost == Spec => DoomedStaysDoomed
<1> DEFINE Stays == \A t \in trans \cap trans' : ~CanMerge(t) => ~CanMerge(t)'
<1>1. ASSUME StepInv, [Next]_vars, NEW t \in trans \cap trans', CanMerge(t)'
      PROVE  CanMerge(t)
  <2>0. WholeDb(db) /\ trans \subseteq Tid /\ t \in Tid
    BY <1>1, StepInvDb
  <2> SUFFICES ASSUME NEW p \in Path, Touched(db[p], t)
               PROVE  CanMergeRec(db[p], t)
    BY CanMergeByRecord
  <2>1. Touched(db'[p], t) => CanMergeRec(db'[p], t)
    BY <1>1, CanMergeByRecord
  <2>2. Good(db[p]) /\ Good(db'[p])
    <3>1. IInv'
      BY <1>1, NextIInv DEF StepInv
    <3>2. GoodDb(db')
      BY <3>1 DEF IInv, TypeOK, RecordsSound, GoodDb
    <3> QED
      BY <2>0, <3>2, GoodDbRecords DEF WholeDb
  <2>3. ASSUME db'[p].te[t] = db[p].te[t], Later(db[p].e, db'[p].e)
        PROVE  CanMergeRec(db[p], t)
    <3>1. CanMergeRec(db'[p], t)
      BY <2>1, <2>3 DEF Touched
    <3> QED
      BY <2>0, <2>2, <2>3, <3>1, LaterDooms
  <2>4. Later(db[p].e, db[p].e)
    BY <2>2, Types DEF Later
  <2>5. CASE Direct
    BY <2>0, <2>3, <2>5 DEF Direct, Outside, Untouched
  <2>6. ASSUME NEW u \in trans, Within(u)
        PROVE  CanMergeRec(db[p], t)
    <3>1. CASE db'[p] = db[p]
      BY <2>3, <2>4, <3>1
    <3>2. CASE Own(db[p], db'[p], u) /\ u # t
      BY <2>0, <2>3, <2>4, <3>2 DEF Own
    <3>3. CASE Own(db[p], db'[p], u) /\ u = t
      <4>1. Touched(db'[p], t)
        BY <3>3 DEF Own, OwnCopy, Touched
      <4> QED
        BY <2>0, <2>1, <3>3, <4>1, OwnDooms
    <3> QED
      BY <2>6, <3>1, <3>2, <3>3 DEF Within, OwnAt
  <2>7. CASE db' = db
    BY <2>3, <2>4, <2>7
  <2>8. ASSUME NEW u \in trans, EndOf(u)
        PROVE  CanMergeRec(db[p], t)
    <3>1. u # t
      BY <1>1, <2>8 DEF EndOf
    <3> QED
      BY <2>0, <2>3, <2>8, <3>1 DEF EndOf, Ended
  <2>9. \A u \in trans : (Merge(u) /\ CanMerge(u)) \/ Aborts(u) => EndOf(u)
    BY <2>0, MergeEnds, AbortEnds
  <2> QED
    BY <1>1, <2>5, <2>6, <2>7, <2>8, <2>9, StepKinds
<1>2. StepInv /\ [Next]_vars => Stays
  BY <1>1
<1> HIDE DEF Stays
<1>3. Spec => [][Stays]_vars
  BY <1>2, SpecStepInv, PTL DEF Spec
<1> QED
  BY <1>3 DEF DoomedStaysDoomed, Stays

(* What the merge of u leaves of a record that t references too, if the    *)
(* two do not conflict on it.                                              *)
LEMMA MergeSpares ==
    ASSUME NEW r, Whole(r), NEW u \in Tid, NEW t \in Tid, t # u,
           Touched(r, u), Touched(r, t), CanMergeRec(r, u), CanMergeRec(r, t),
           ~WroteData(r.te[u]), ~Deleted(r.te[u]),
           ~(WroteChildren(r.te[u]) /\ r.te[t].read_children_seq # 0)
    PROVE  CanMergeRec(MergeRec(r, u), t)
<1> DEFINE w == MergeRec(r, u)
<1>1. w.te[t] = r.te[t]
  BY MergeRecEnded DEF Ended
<1>2. w.e.delete_seq = r.e.delete_seq /\ w.e.write_seq = r.e.write_seq
  BY MergeRecEnded
<1>3. r.te[t].read_children_seq # 0 => w.e.write_children_seq = r.e.write_children_seq
  BY MergeRecEnded
<1> HIDE DEF w
<1>4. CanMergeRec(w, t)
  BY <1>1, <1>2, <1>3 DEF CanMergeRec
<1> QED
  BY <1>4 DEF w

(* Transactions that do not conflict can both succeed: only a change       *)
(* outside transactions of what it references, or the merge of one it      *)
(* conflicts with, dooms a transaction (mstore.cc:200).                    *)
THEOREM DoomNeedsConflict == Spec => DoomedOnlyByConflict
<1> DEFINE Cause(t) == \/ OutsideChange(t)
                       \/ \E u \in trans \ trans' : CanMerge(u) /\ Conflicts(u, t)
           Only == \A t \in trans \cap trans' : CanMerge(t) /\ ~CanMerge(t)' => Cause(t)
<1>1. ASSUME StepInv, [Next]_vars, NEW t \in trans \cap trans', CanMerge(t), ~CanMerge(t)'
      PROVE  Cause(t)
  <2>0. /\ WholeDb(db) /\ trans \subseteq Tid /\ t \in Tid
        /\ \A p \in Path : Whole(db[p])
    BY <1>1, StepInvDb, WholeDbRecords
  <2>1. PICK p \in Path : Touched(db'[p], t) /\ ~CanMergeRec(db'[p], t)
    BY <1>1, CanMergeByRecord
  <2>2. Touched(db[p], t) => CanMergeRec(db[p], t)
    BY <1>1, CanMergeByRecord
  <2>3. ~(db'[p].te[t] = db[p].te[t] /\ db'[p].e = db[p].e)
    BY <2>1, <2>2 DEF Touched, CanMergeRec
  <2>4. CASE Direct
    <3>1. \A q \in Path : db'[q].te = db[q].te
      BY <2>4 DEF Direct, Outside
    <3>2. p \in Records(t) /\ db'[p].e # db[p].e
      BY <2>1, <2>3, <3>1 DEF Records, Touched
    <3> QED
      BY <3>1, <3>2 DEF OutsideChange
  <2>5. ASSUME NEW u \in trans, Within(u)
        PROVE  FALSE
    <3>1. Own(db[p], db'[p], u)
      BY <2>3, <2>5 DEF Within, OwnAt
    <3>2. CASE u # t
      BY <2>0, <2>3, <3>1, <3>2 DEF Own
    <3>3. CASE u = t
      BY <2>1, <2>2, <3>1, <3>3 DEF Own
    <3> QED
      BY <3>2, <3>3
  <2>6. ASSUME NEW u \in trans, Aborts(u)
        PROVE  FALSE
    <3>1. EndOf(u) /\ db'[p] = IF Touched(db[p], u) THEN AbortRec(db[p], u) ELSE db[p]
      BY <2>0, <2>6, AbortEnds
    <3>2. u # t /\ db'[p].te[t] = db[p].te[t]
      BY <1>1, <2>0, <3>1 DEF EndOf, Ended
    <3>3. Touched(db[p], t)
      BY <2>1, <3>2 DEF Touched
    <3>4. db'[p].e = db[p].e
      BY <2>0, <3>1, <3>2, <3>3, AbortRecEnded
    <3> QED
      BY <2>3, <3>2, <3>4
  <2>7. ASSUME NEW u \in trans, Merge(u), CanMerge(u)
        PROVE  Cause(t)
    <3>1. EndOf(u) /\ db'[p] = IF Touched(db[p], u) THEN MergeRec(db[p], u) ELSE db[p]
      BY <2>0, <2>7, MergeEnds
    <3>2. u # t /\ u \notin trans' /\ db'[p].te[t] = db[p].te[t]
      BY <1>1, <2>0, <3>1 DEF EndOf, Ended
    <3>3. Touched(db[p], t) /\ CanMergeRec(db[p], t)
      BY <2>1, <2>2, <3>2 DEF Touched
    <3>4. Touched(db[p], u) /\ db'[p] = MergeRec(db[p], u)
      BY <2>3, <3>1
    <3>5. CanMergeRec(db[p], u)
      BY <2>7, <3>4, CanMergeByRecord
    <3>6. \/ WroteData(db[p].te[u]) \/ Deleted(db[p].te[u])
          \/ WroteChildren(db[p].te[u]) /\ db[p].te[t].read_children_seq # 0
      BY <2>0, <2>1, <3>2, <3>3, <3>4, <3>5, MergeSpares
    <3>7. p \in Records(u) \cap Records(t)
      BY <3>3, <3>4 DEF Records
    <3>8. Conflicts(u, t)
      BY <3>6, <3>7 DEF Conflicts
    <3> QED
      BY <2>7, <3>2, <3>8
  <2> QED
    BY <1>1, <2>3, <2>4, <2>5, <2>6, <2>7, StepKinds
<1>2. StepInv /\ [Next]_vars => Only
  BY <1>1
<1> HIDE DEF Only
<1>3. Spec => [][Only]_vars
  BY <1>2, SpecStepInv, PTL DEF Spec
<1> QED
  BY <1>3 DEF DoomedOnlyByConflict, Only

=============================================================================
