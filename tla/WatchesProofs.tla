--------------------------- MODULE WatchesProofs ---------------------------
(***************************************************************************)
(* Machine-checked proofs about Watches, for any set of paths, clients,    *)
(* addresses and transactions and whatever the bounds.                     *)
(*                                                                         *)
(* The first part is about the watches, their clients and the lists of the *)
(* transactions, and does not need to know what the event queue holds.     *)
(* The second is about the queue.  Most of it counts: how many events of a *)
(* kind the queue, or the list of a transaction, holds (Count).  It goes   *)
(* from counting in sequences and the order of fired events (InOrder), over*)
(* the events a change fires (FiresNews: one for each watch it concerns),  *)
(* to the types, the deaths in the queue, and what every action does to    *)
(* the news that a watch is owed (Told).                                   *)
(***************************************************************************)
EXTENDS Watches, FiniteSetTheorems, SequenceTheorems, TLAPS

(* The shape of the state the invariants speak of.                         *)
Shape ==
    /\ clients \in [Client -> {"none", "alive", "dead"}]
    /\ watches \in [Watch -> WatchCb \cup {NoWatch}]
    /\ db \in [Path -> [path : SUBSET Watch, children : SUBSET Watch]]

Registry == Shape /\ RegistrationsExact /\ WatchesHaveClients

-----------------------------------------------------------------------------
(* A watch that does not exist is none of the callbacks a client made.     *)
LEMMA NoWatchIsNoCb == NoWatch \notin WatchCb
<1> SUFFICES ASSUME NoWatch \in WatchCb PROVE FALSE
    OBVIOUS
<1>1. DOMAIN NoWatch = {"client"}
    BY DEF NoWatch
<1>2. "path" \in DOMAIN NoWatch
    BY DEF WatchCb
<1> QED
    BY <1>1, <1>2

(* Dropping watches, wherever that happens, keeps the database exact.      *)
LEMMA DropKeepsRegistrations ==
    ASSUME Shape, RegistrationsExact, NEW ws, NEW told, DropWatches(ws, told)
    PROVE  /\ watches' \in [Watch -> WatchCb \cup {NoWatch}]
           /\ db' \in [Path -> [path : SUBSET Watch, children : SUBSET Watch]]
           /\ RegistrationsExact'
           /\ \A w \in Watch : Live(w)' => w \notin ws /\ Live(w) /\ watches'[w] = watches[w]
<1>1. watches' = [w \in Watch |-> IF w \in ws THEN NoWatch ELSE watches[w]]
    BY DEF DropWatches
<1>2. db' = [k \in Path |-> [path |-> db[k].path \ ws, children |-> db[k].children \ ws]]
    BY DEF DropWatches, Unregistered
<1>3. watches' \in [Watch -> WatchCb \cup {NoWatch}]
    BY <1>1 DEF Shape
<1>4. db' \in [Path -> [path : SUBSET Watch, children : SUBSET Watch]]
  <2>1. \A k \in Path : db[k] \in [path : SUBSET Watch, children : SUBSET Watch]
      BY DEF Shape
  <2> QED
      BY <1>2, <2>1
<1>5. \A w \in Watch : Live(w)' <=> w \notin ws /\ Live(w)
    BY <1>1 DEF Live
<1>6. \A w \in Watch : Live(w)' => watches'[w] = watches[w]
    BY <1>1, <1>5
<1>7. RegistrationsExact'
  <2> SUFFICES ASSUME NEW k \in Path
               PROVE  /\ db'[k].path = {w \in LiveWatches' : watches'[w].path = k}
                      /\ db'[k].children =
                             {w \in LiveWatches' : IsStrictPrefix(k, watches'[w].path)}
      BY DEF RegistrationsExact
  <2>1. /\ db[k].path = {w \in LiveWatches : watches[w].path = k}
        /\ db[k].children = {w \in LiveWatches : IsStrictPrefix(k, watches[w].path)}
      BY DEF RegistrationsExact
  <2>2. db'[k].path = db[k].path \ ws /\ db'[k].children = db[k].children \ ws
      BY <1>2
  <2>3. LiveWatches' = LiveWatches \ ws
      BY <1>5 DEF LiveWatches
  <2> QED
      BY <2>1, <2>2, <2>3, <1>5, <1>6 DEF LiveWatches
<1> QED
    BY <1>3, <1>4, <1>5, <1>6, <1>7

-----------------------------------------------------------------------------
(* A step that touches no watch, and takes away no client that had one.    *)
LEMMA SameWatches ==
    ASSUME Registry, UNCHANGED <<watches, db>>,
           clients' \in [Client -> {"none", "alive", "dead"}],
           \A c \in Client : clients[c] # "none" => clients'[c] # "none"
    PROVE  Registry'
<1>1. Shape'
    BY DEF Registry, Shape
<1>2. RegistrationsExact'
    BY DEF Registry, RegistrationsExact, LiveWatches, Live
<1>3. WatchesHaveClients'
  <2> SUFFICES ASSUME NEW w \in Watch, watches[w] # NoWatch
               PROVE  clients'[watches[w].client] # "none"
      BY DEF WatchesHaveClients, LiveWatches, Live
  <2>1. watches[w] \in WatchCb
      BY DEF Registry, Shape
  <2>2. watches[w].client \in Client
      BY <2>1 DEF WatchCb
  <2>3. clients[watches[w].client] # "none"
      BY DEF Registry, WatchesHaveClients, LiveWatches, Live
  <2> QED
      BY <2>2, <2>3
<1> QED
    BY <1>1, <1>2, <1>3 DEF Registry

(* A client that goes, with all of its watches.                            *)
LEMMA ClientGoes ==
    ASSUME Registry, NEW c, NEW told,
           clients' = [clients EXCEPT ![c] = "none"],
           DropWatches({w \in LiveWatches : watches[w].client = c}, told)
    PROVE  Registry'
<1> DEFINE ws == {w \in LiveWatches : watches[w].client = c}
<1>1. Shape /\ RegistrationsExact /\ DropWatches(ws, told)
    BY DEF Registry
<1> HIDE DEF ws
<1>2. /\ watches' \in [Watch -> WatchCb \cup {NoWatch}]
      /\ db' \in [Path -> [path : SUBSET Watch, children : SUBSET Watch]]
      /\ RegistrationsExact'
      /\ \A w \in Watch : Live(w)' => w \notin ws /\ Live(w) /\ watches'[w] = watches[w]
    BY <1>1, DropKeepsRegistrations
<1> USE DEF ws
<1>3. clients' \in [Client -> {"none", "alive", "dead"}]
    BY DEF Registry, Shape
<1>4. WatchesHaveClients'
  <2> SUFFICES ASSUME NEW w \in Watch, Live(w)'
               PROVE  clients'[watches'[w].client] # "none"
      BY DEF WatchesHaveClients, LiveWatches
  <2>1. Live(w) /\ watches'[w] = watches[w] /\ watches[w].client # c
      BY <1>2 DEF LiveWatches
  <2>2. watches[w] \in WatchCb
      BY <2>1 DEF Live, Registry, Shape
  <2>3. watches[w].client \in Client
      BY <2>2 DEF WatchCb
  <2>4. clients[watches[w].client] # "none"
      BY <2>1 DEF Registry, WatchesHaveClients, LiveWatches
  <2> QED
      BY <2>1, <2>3, <2>4 DEF Registry, Shape
<1> QED
    BY <1>2, <1>3, <1>4 DEF Registry, Shape

LEMMA OpWatchRegistry ==
    ASSUME Registry, NEW c \in Client, NEW p \in Path, NEW relative \in BOOLEAN,
           OpWatch(c, p, relative)
    PROVE  Registry'
<1>1. PICK v \in Watch \ LiveWatches :
          /\ watches' = [watches EXCEPT ![v] =
                            [client |-> c, path |-> p, relative |-> relative]]
          /\ db' = Registered(p, v)
    BY DEF OpWatch
<1> DEFINE cb == [client |-> c, path |-> p, relative |-> relative]
<1>2. cb \in WatchCb /\ cb.client = c /\ cb.path = p
    BY DEF WatchCb
<1>3. cb # NoWatch
    BY <1>2, NoWatchIsNoCb
<1>4. clients' = clients /\ clients[c] = "alive"
    BY DEF OpWatch, Requests
<1>5. watches \in [Watch -> WatchCb \cup {NoWatch}]
    BY DEF Registry, Shape
<1> HIDE DEF cb
<1>6. watches' = [watches EXCEPT ![v] = cb]
    BY <1>1 DEF cb
<1>7. \A w \in Watch : watches'[w] = IF w = v THEN cb ELSE watches[w]
    BY <1>5, <1>6
<1>8. LiveWatches' = LiveWatches \cup {v}
    BY <1>1, <1>3, <1>7 DEF LiveWatches, Live
<1>9. Shape'
  <2>1. watches' \in [Watch -> WatchCb \cup {NoWatch}]
      BY <1>2, <1>5, <1>6
  <2>2. db' \in [Path -> [path : SUBSET Watch, children : SUBSET Watch]]
    <3>1. \A k \in Path : db[k] \in [path : SUBSET Watch, children : SUBSET Watch]
        BY DEF Registry, Shape
    <3> QED
        BY <1>1, <3>1 DEF Registered
  <2> QED
      BY <1>4, <2>1, <2>2 DEF Registry, Shape
<1>10. RegistrationsExact'
  <2> SUFFICES ASSUME NEW k \in Path
               PROVE  /\ db'[k].path = {w \in LiveWatches' : watches'[w].path = k}
                      /\ db'[k].children =
                             {w \in LiveWatches' : IsStrictPrefix(k, watches'[w].path)}
      BY DEF RegistrationsExact
  <2>1. /\ db[k].path = {w \in LiveWatches : watches[w].path = k}
        /\ db[k].children = {w \in LiveWatches : IsStrictPrefix(k, watches[w].path)}
      BY DEF Registry, RegistrationsExact
  <2>2. /\ db'[k].path = db[k].path \cup (IF k = p THEN {v} ELSE {})
        /\ db'[k].children = db[k].children \cup
                                (IF IsStrictPrefix(k, p) THEN {v} ELSE {})
      BY <1>1 DEF Registered
  <2>3. \A w \in LiveWatches : w # v /\ watches'[w] = watches[w]
      BY <1>1, <1>7 DEF LiveWatches
  <2>4. v \in Watch /\ watches'[v].path = p
      BY <1>1, <1>2, <1>7
  <2> QED
      BY <2>1, <2>2, <2>3, <2>4, <1>8
<1>11. WatchesHaveClients'
  <2> SUFFICES ASSUME NEW w \in LiveWatches \cup {v}
               PROVE  clients[watches'[w].client] # "none"
      BY <1>4, <1>8 DEF WatchesHaveClients
  <2>1. CASE w = v
      BY <1>1, <1>2, <1>4, <1>7, <2>1
  <2>2. CASE w # v
      BY <1>7, <2>2 DEF Registry, WatchesHaveClients, LiveWatches
  <2> QED
      BY <2>1, <2>2
<1> QED
    BY <1>9, <1>10, <1>11 DEF Registry

LEMMA OpUnwatchRegistry ==
    ASSUME Registry, NEW c \in Client, NEW p \in Path, OpUnwatch(c, p)
    PROVE  Registry'
<1>1. PICK v \in LiveWatches : DropWatches({v}, {})
    BY DEF OpUnwatch
<1>2. Shape /\ RegistrationsExact
    BY DEF Registry
<1>3. /\ watches' \in [Watch -> WatchCb \cup {NoWatch}]
      /\ db' \in [Path -> [path : SUBSET Watch, children : SUBSET Watch]]
      /\ RegistrationsExact'
      /\ \A w \in Watch : Live(w)' => Live(w) /\ watches'[w] = watches[w]
    BY <1>1, <1>2, DropKeepsRegistrations
<1>4. clients' = clients
    BY DEF OpUnwatch
<1>5. WatchesHaveClients'
    BY <1>3, <1>4 DEF WatchesHaveClients, LiveWatches, Registry
<1> QED
    BY <1>3, <1>4, <1>5 DEF Registry, Shape

-----------------------------------------------------------------------------
(* Events and requests that leave the watches alone.                       *)
LEMMA InitRegistry == Init => Registry
<1> SUFFICES ASSUME Init PROVE Registry
    OBVIOUS
<1>1. LiveWatches = {}
    BY DEF Init, LiveWatches, Live
<1> QED
    BY <1>1 DEF Init, Registry, Shape, RegistrationsExact, WatchesHaveClients

LEMMA RunRegistry == Registry /\ RunNext => Registry'
<1> SUFFICES ASSUME Registry, RunNext PROVE Registry'
    OBVIOUS
<1>1. clients \in [Client -> {"none", "alive", "dead"}]
    BY DEF Registry, Shape
<1>2. CASE Poll
    BY <1>1, <1>2, SameWatches DEF Poll
<1>3. CASE Accept
  <2>1. UNCHANGED <<watches, db>>
      BY <1>3 DEF Accept
  <2>2. CASE clients' = clients
      BY <1>1, <2>1, <2>2, SameWatches
  <2>3. CASE \E c \in Socket : clients' = [clients EXCEPT ![c] = "alive"]
      BY <1>1, <2>1, <2>3, SameWatches
  <2> QED
      BY <1>3, <2>2, <2>3 DEF Accept
<1>4. CASE IoDone
    BY <1>1, <1>4, SameWatches DEF IoDone
<1>5. CASE RunWatch
  <2>1. UNCHANGED <<watches, db>>
      BY <1>5 DEF RunWatch
  <2>2. CASE clients' = clients
      BY <1>1, <2>1, <2>2, SameWatches
  <2>3. CASE Dies(watches[Head(events).cb].client)
      BY <1>1, <2>1, <2>3, SameWatches DEF Dies
  <2> QED
      BY <1>5, <2>2, <2>3 DEF RunWatch
<1>6. CASE RunDead
    BY <1>6, ClientGoes DEF RunDead, Destroyed
<1> QED
    BY <1>2, <1>3, <1>4, <1>5, <1>6 DEF RunNext

LEMMA RequestRegistry ==
    ASSUME Registry, NEW c \in Client, Request(c)
    PROVE  Registry'
<1>1. clients \in [Client -> {"none", "alive", "dead"}]
    BY DEF Registry, Shape
<1>2. CASE \E p \in Named \cup Special, rel \in BOOLEAN : OpWatch(c, p, rel)
    BY <1>2, OpWatchRegistry, PathAssumption DEF Named
<1>3. CASE \E p \in Named \cup Special : OpUnwatch(c, p)
    BY <1>3, OpUnwatchRegistry, PathAssumption DEF Named
<1>4. CASE \E p \in Named, rm \in BOOLEAN : OpChange(c, p, rm)
    BY <1>1, <1>4, SameWatches DEF OpChange
<1>5. CASE \E d \in Domain : OpIntroduce(c, d)
    BY <1>1, <1>5, SameWatches DEF OpIntroduce, Created
<1>6. CASE \E d \in Domain : OpRelease(c, d)
    BY <1>6, ClientGoes DEF OpRelease, Destroyed
<1>7. CASE \E t \in Tid, p \in Named, rm \in BOOLEAN : OpTransChange(c, t, p, rm)
    BY <1>1, <1>7, SameWatches DEF OpTransChange
<1>8. CASE \E t \in Tid : OpTransactionStart(c, t)
    BY <1>1, <1>8, SameWatches DEF OpTransactionStart
<1>9. CASE \E t \in Tid : OpCommit(c, t)
    BY <1>1, <1>9, SameWatches DEF OpCommit
<1>10. CASE \E t \in Tid : OpAbort(c, t)
    BY <1>1, <1>10, SameWatches DEF OpAbort
<1> QED
    BY <1>2, <1>3, <1>4, <1>5, <1>6, <1>7, <1>8, <1>9, <1>10 DEF Request

LEMMA NextRegistry == Registry /\ [Next]_vars => Registry'
<1> SUFFICES ASSUME Registry, [Next]_vars PROVE Registry'
    OBVIOUS
<1>1. clients \in [Client -> {"none", "alive", "dead"}]
    BY DEF Registry, Shape
<1>2. CASE RunNext
    BY <1>2, RunRegistry
<1>3. CASE IoFails
    BY <1>1, <1>3, SameWatches DEF IoFails, Dies
<1>4. CASE Disable
    BY <1>1, <1>4, SameWatches DEF Disable
<1>5. CASE \E c \in Client : Request(c)
    BY <1>5, RequestRegistry
<1>6. CASE UNCHANGED vars
    BY <1>1, <1>6, SameWatches DEF vars
<1> QED
    BY <1>2, <1>3, <1>4, <1>5, <1>6 DEF Next

(* In every reachable state the raw pointers of the watch manager are      *)
(* exactly the watches that exist, each under its path and its parents     *)
(* (watch_mgr::add, del and the destructor of xs_proto).                   *)
THEOREM PointersExact == Spec => []RegistrationsExact
<1>1. Registry => RegistrationsExact
    BY DEF Registry
<1> QED
    BY <1>1, InitRegistry, NextRegistry, PTL DEF Spec

(* In every reachable state the client object that a watch_cb refers to    *)
(* still exists (the destructor of xs_proto, domain_mgr::destroy).         *)
THEOREM ClientsOutliveWatches == Spec => []WatchesHaveClients
<1>1. Registry => WatchesHaveClients
    BY DEF Registry
<1> QED
    BY <1>1, InitRegistry, NextRegistry, PTL DEF Spec

-----------------------------------------------------------------------------
Lists == DOMAIN tdb = Tid /\ OnlyOpenTransactionsFire

(* Only an open transaction ever holds events to fire: what an aborted or  *)
(* refused transaction did is never announced, not even when its id is     *)
(* used again (abort_transaction, fire_transaction).                       *)
THEOREM NoStaleLists == Spec => []OnlyOpenTransactionsFire
<1>1. Init => Lists
    BY DEF Init, Lists, OnlyOpenTransactionsFire
<1>2. Lists /\ [Next]_vars => Lists'
  <2> SUFFICES ASSUME Lists, [Next]_vars PROVE Lists'
      OBVIOUS
  <2>1. CASE UNCHANGED <<tdb, trans>>
      BY <2>1 DEF Lists, OnlyOpenTransactionsFire
  <2>2. ASSUME NEW c \in Client, NEW t \in Tid, NEW p \in Named,
               NEW rm \in BOOLEAN, OpTransChange(c, t, p, rm)
        PROVE  Lists'
      BY <2>2 DEF OpTransChange, Lists, OnlyOpenTransactionsFire
  <2>3. ASSUME NEW c \in Client, NEW t \in Tid, OpTransactionStart(c, t)
        PROVE  Lists'
      BY <2>3 DEF OpTransactionStart, Lists, OnlyOpenTransactionsFire
  <2>4. ASSUME NEW c \in Client, NEW t \in Tid, OpCommit(c, t)
        PROVE  Lists'
      BY <2>4 DEF OpCommit, EndTransaction, Lists, OnlyOpenTransactionsFire
  <2>5. ASSUME NEW c \in Client, NEW t \in Tid, OpAbort(c, t)
        PROVE  Lists'
      BY <2>5 DEF OpAbort, EndTransaction, Lists, OnlyOpenTransactionsFire
  <2>6. CASE RunNext \/ IoFails \/ Disable
      BY <2>1, <2>6
         DEF RunNext, Poll, Accept, IoDone, RunWatch, RunDead, IoFails, Disable
  <2>7. ASSUME NEW c \in Client, Request(c)
        PROVE  Lists'
    <3>1. CASE \/ \E p \in Named \cup Special, rel \in BOOLEAN : OpWatch(c, p, rel)
               \/ \E p \in Named \cup Special : OpUnwatch(c, p)
               \/ \E p \in Named, rm \in BOOLEAN : OpChange(c, p, rm)
               \/ \E d \in Domain : OpIntroduce(c, d) \/ OpRelease(c, d)
        BY <2>1, <3>1 DEF OpWatch, OpUnwatch, OpChange, OpIntroduce, OpRelease
    <3> QED
        BY <2>2, <2>3, <2>4, <2>5, <2>7, <3>1 DEF Request
  <2> QED
      BY <2>1, <2>6, <2>7 DEF Next, vars
<1>3. Lists => OnlyOpenTransactionsFire
    BY DEF Lists
<1> QED
    BY <1>1, <1>2, <1>3, PTL DEF Spec

-----------------------------------------------------------------------------
(* Counting in sequences.                                                  *)

LEMMA SameSize ==
    ASSUME NEW A, NEW B, IsFiniteSet(A), NEW f \in [A -> B],
           \A x, y \in A : f[x] = f[y] => x = y,
           \A y \in B : \E x \in A : f[x] = y
    PROVE  IsFiniteSet(B) /\ Cardinality(B) = Cardinality(A)
<1>1. f \in Bijection(A, B)
    BY DEF Bijection, Injection, Surjection, IsInjective
<1> QED
    BY <1>1, FS_Bijection DEF ExistsBijection

LEMMA CountIsNat ==
    ASSUME NEW T, NEW s \in Seq(T), NEW S
    PROVE  /\ IsFiniteSet({i \in DOMAIN s : s[i] \in S})
           /\ Count(s, S) \in Nat
<1>1. IsFiniteSet(1 .. Len(s))
    BY FS_Interval
<1>2. {i \in DOMAIN s : s[i] \in S} \in SUBSET (1 .. Len(s))
    OBVIOUS
<1>3. IsFiniteSet({i \in DOMAIN s : s[i] \in S})
    BY <1>1, <1>2, FS_Subset
<1> QED
    BY <1>3, FS_CardinalityType DEF Count

LEMMA CountConcat ==
    ASSUME NEW T, NEW s \in Seq(T), NEW t \in Seq(T), NEW S
    PROVE  Count(s \o t, S) = Count(s, S) + Count(t, S)
<1> DEFINE A == {i \in DOMAIN s : s[i] \in S}
           B == {i \in DOMAIN t : t[i] \in S}
           C == {i \in DOMAIN (s \o t) : (s \o t)[i] \in S}
           D == {i \in C : i > Len(s)}
           f == [i \in B |-> i + Len(s)]
<1>1. IsFiniteSet(A) /\ IsFiniteSet(B)
    BY CountIsNat
<1>2. A = {i \in C : i <= Len(s)}
    OBVIOUS
<1>3. f \in [B -> D]
    OBVIOUS
<1>4. \A x, y \in B : f[x] = f[y] => x = y
    OBVIOUS
<1>5. \A y \in D : \E x \in B : f[x] = y
  <2> SUFFICES ASSUME NEW y \in D PROVE \E x \in B : f[x] = y
      OBVIOUS
  <2>1. y - Len(s) \in B
      OBVIOUS
  <2> QED
      BY <2>1
<1>6. IsFiniteSet(D) /\ Cardinality(D) = Cardinality(B)
  <2> HIDE DEF f, B, D
  <2> QED
      BY <1>1, <1>3, <1>4, <1>5, SameSize
<1>7. C = A \cup D /\ A \cap D = {}
    BY <1>2
<1>8. Cardinality(C) = Cardinality(A) + Cardinality(D)
  <2>1. Cardinality(A) \in Nat /\ Cardinality(D) \in Nat /\ Cardinality({}) = 0
      BY <1>1, <1>6, FS_CardinalityType, FS_EmptySet
  <2> HIDE DEF A, C, D
  <2>2. Cardinality(A \cup D) = Cardinality(A) + Cardinality(D) - Cardinality(A \cap D)
      BY <1>1, <1>6, FS_Union
  <2>3. Cardinality(A \cap D) = 0 /\ Cardinality(C) = Cardinality(A \cup D)
      BY <1>7, <2>1
  <2> QED
      BY <2>1, <2>2, <2>3
<1> QED
    BY <1>6, <1>8 DEF Count

LEMMA FunctionIsSeq ==
    ASSUME NEW T, NEW n \in Nat, NEW f \in [1 .. n -> T]
    PROVE  f \in Seq(T)
OBVIOUS

LEMMA CountOne ==
    ASSUME NEW e, NEW S
    PROVE  Count(<<e>>, S) = IF e \in S THEN 1 ELSE 0
<1>1. {i \in DOMAIN <<e>> : <<e>>[i] \in S} = IF e \in S THEN {1} ELSE {}
    OBVIOUS
<1> QED
    BY <1>1, FS_EmptySet, FS_Singleton DEF Count

LEMMA CountEmpty ==
    ASSUME NEW S
    PROVE  Count(<<>>, S) = 0
<1>1. {i \in DOMAIN <<>> : <<>>[i] \in S} = {}
    OBVIOUS
<1> QED
    BY <1>1, FS_EmptySet DEF Count

LEMMA CountAppend ==
    ASSUME NEW T, NEW s \in Seq(T), NEW e \in T, NEW S
    PROVE  Count(Append(s, e), S) = Count(s, S) + (IF e \in S THEN 1 ELSE 0)
<1>1. Append(s, e) = s \o <<e>> /\ <<e>> \in Seq(T)
    OBVIOUS
<1>2. Count(s \o <<e>>, S) = Count(s, S) + Count(<<e>>, S)
    BY <1>1, CountConcat
<1>3. Count(<<e>>, S) = IF e \in S THEN 1 ELSE 0
    BY CountOne
<1> QED
    BY <1>1, <1>2, <1>3

LEMMA CountTail ==
    ASSUME NEW T, NEW s \in Seq(T), s # <<>>, NEW S
    PROVE  /\ Tail(s) \in Seq(T) /\ Head(s) \in T
           /\ Count(s, S) = Count(Tail(s), S) + (IF Head(s) \in S THEN 1 ELSE 0)
           /\ Count(Tail(s), S) \in Nat
<1>1. s = <<Head(s)>> \o Tail(s) /\ <<Head(s)>> \in Seq(T) /\ Tail(s) \in Seq(T)
    OBVIOUS
<1>2. Count(s, S) = Count(<<Head(s)>>, S) + Count(Tail(s), S)
    BY <1>1, CountConcat
<1>3. Count(Tail(s), S) \in Nat
    BY <1>1, CountIsNat
<1> QED
    BY <1>1, <1>2, <1>3, CountOne

LEMMA CountRound ==
    ASSUME NEW T, NEW s \in Seq(T), NEW t \in Seq(T), NEW e \in T, NEW S
    PROVE  /\ Append(s \o t, e) \in Seq(T)
           /\ Count(Append(s \o t, e), S) =
                  Count(s, S) + Count(t, S) + (IF e \in S THEN 1 ELSE 0)
<1>1. s \o t \in Seq(T) /\ Append(s \o t, e) \in Seq(T)
    OBVIOUS
<1>2. Count(s \o t, S) = Count(s, S) + Count(t, S)
    BY CountConcat
<1>3. Count(Append(s \o t, e), S) = Count(s \o t, S) + (IF e \in S THEN 1 ELSE 0)
    BY <1>1, CountAppend
<1> QED
    BY <1>1, <1>2, <1>3

(* Sequences that agree on what is counted.                                *)
LEMMA CountSame ==
    ASSUME NEW s, NEW t, NEW S, NEW R,
           DOMAIN s = DOMAIN t, \A i \in DOMAIN s : s[i] \in S <=> t[i] \in R
    PROVE  Count(s, S) = Count(t, R)
<1>1. {i \in DOMAIN s : s[i] \in S} = {i \in DOMAIN t : t[i] \in R}
    OBVIOUS
<1> QED
    BY <1>1 DEF Count

LEMMA CountNone ==
    ASSUME NEW s, NEW S, \A i \in DOMAIN s : s[i] \notin S
    PROVE  Count(s, S) = 0
<1>1. {i \in DOMAIN s : s[i] \in S} = {}
    OBVIOUS
<1> QED
    BY <1>1, FS_EmptySet DEF Count

LEMMA CountSome ==
    ASSUME NEW T, NEW s \in Seq(T), NEW S, NEW i \in DOMAIN s, s[i] \in S
    PROVE  Count(s, S) > 0
<1> DEFINE C == {j \in DOMAIN s : s[j] \in S}
<1>1. IsFiniteSet(C) /\ Count(s, S) \in Nat /\ Count(s, S) = Cardinality(C)
    BY CountIsNat DEF Count
<1>2. C # {}
    OBVIOUS
<1> HIDE DEF C
<1>3. Cardinality(C) # 0
    BY <1>1, <1>2, FS_EmptySet
<1> QED
    BY <1>1, <1>3

-----------------------------------------------------------------------------
(* Events queued in order: each of them once.                              *)

LEMMA WatchEventFields ==
    ASSUME NEW e \in WatchEvent
    PROVE  /\ e.kind = "watch" /\ e.key \in Path /\ e.path \in Path /\ e.cb \in Watch
           /\ Len(e.key) \in Nat /\ e.cb \in Nat
<1>1. e.kind = "watch" /\ e.key \in Path /\ e.path \in Path /\ e.cb \in Watch
    BY DEF WatchEvent
<1>2. e.key \in Seq(STRING) /\ e.cb \in Nat
    BY <1>1, PathAssumption, OtherAssumption
<1> QED
    BY <1>1, <1>2

LEMMA InOrderIsBijection ==
    ASSUME NEW es \in SUBSET WatchEvent, IsFiniteSet(es),
           \A e, f \in es : e = f \/ Before(e, f) \/ Before(f, e)
    PROVE  /\ Cardinality(es) \in Nat
           /\ InOrder(es) \in [1 .. Cardinality(es) -> es]
           /\ \A i, j \in 1 .. Cardinality(es) :
                  InOrder(es)[i] = InOrder(es)[j] => i = j
           /\ \A e \in es : \E i \in 1 .. Cardinality(es) : InOrder(es)[i] = e
<1> DEFINE n == Cardinality(es)
           below(e) == {f \in es : Before(f, e)}
           r == [e \in es |-> Cardinality(below(e))]
<1>1. n \in Nat
    BY FS_CardinalityType
<1>2. \A e \in es : Len(e.key) \in Nat /\ e.cb \in Nat
    BY WatchEventFields
<1>3. \A e, f, g \in es : Before(e, f) /\ Before(f, g) => Before(e, g)
    BY <1>2 DEF Before
<1>4. \A e \in es : ~Before(e, e)
    BY <1>2 DEF Before
<1>5. ASSUME NEW e \in es
      PROVE  IsFiniteSet(below(e)) /\ r[e] \in Nat /\ r[e] < n
  <2>1. below(e) \in SUBSET es /\ below(e) # es
      BY <1>4
  <2>2. IsFiniteSet(below(e)) /\ Cardinality(below(e)) <= n /\ Cardinality(below(e)) # n
    <3> HIDE DEF below
    <3> QED
        BY <2>1, FS_Subset
  <2>3. Cardinality(below(e)) \in Nat
    <3> HIDE DEF below
    <3> QED
        BY <2>2, FS_CardinalityType
  <2> QED
      BY <1>1, <2>2, <2>3
<1>6. ASSUME NEW e \in es, NEW f \in es, Before(e, f)
      PROVE  r[e] < r[f]
  <2>1. below(e) \in SUBSET below(f)
      BY <1>3, <1>6
  <2>2. e \in below(f) /\ e \notin below(e)
      BY <1>4, <1>6
  <2>3. IsFiniteSet(below(f)) /\ r[e] \in Nat /\ r[f] \in Nat
      BY <1>5
  <2>4. r[e] = Cardinality(below(e)) /\ r[f] = Cardinality(below(f))
      OBVIOUS
  <2> HIDE DEF below, r
  <2>5. Cardinality(below(e)) <= Cardinality(below(f))
        /\ (Cardinality(below(f)) = Cardinality(below(e)) => below(f) = below(e))
      BY <2>1, <2>3, FS_Subset
  <2> QED
      BY <2>2, <2>3, <2>4, <2>5
<1>7. r \in Injection(es, 0 .. n - 1)
  <2>1. r \in [es -> 0 .. n - 1]
    <3>1. ASSUME NEW e \in es PROVE r[e] \in 0 .. n - 1
      <4>1. r[e] \in Nat /\ r[e] < n
          BY <1>5
      <4> HIDE DEF r, n
      <4> QED
          BY <1>1, <4>1
    <3>2. r = [e \in es |-> r[e]]
        OBVIOUS
    <3> HIDE DEF r, n
    <3> QED
        BY <3>1, <3>2
  <2>2. ASSUME NEW e \in es, NEW f \in es, r[e] = r[f]
        PROVE  e = f
    <3>1. r[e] \in Nat /\ r[f] \in Nat
        BY <1>5
    <3>2. ~Before(e, f) /\ ~Before(f, e)
      <4> HIDE DEF r
      <4> QED
          BY <1>6, <2>2, <3>1
    <3> QED
        BY <3>2
  <2> QED
      BY <2>1, <2>2 DEF Injection, IsInjective
<1>8. r \in Surjection(es, 0 .. n - 1)
  <2>1. IsFiniteSet(0 .. n - 1) /\ Cardinality(0 .. n - 1) = n
      BY <1>1, FS_Interval
  <2> HIDE DEF r
  <2> QED
      BY <1>7, <2>1, FS_Injection
<1>9. ASSUME NEW i \in 1 .. n
      PROVE  InOrder(es)[i] \in es /\ r[InOrder(es)[i]] = i - 1
  <2>1. PICK e \in es : r[e] = i - 1
    <3> HIDE DEF r, n
    <3>1. i - 1 \in 0 .. n - 1
        BY <1>1
    <3> QED
        BY <1>8, <3>1 DEF Surjection
  <2>2. Cardinality(below(e)) = i - 1
      BY <2>1
  <2>3. InOrder(es)[i] = CHOOSE g \in es : Cardinality(below(g)) = i - 1
      BY DEF InOrder
  <2>4. InOrder(es)[i] \in es /\ Cardinality(below(InOrder(es)[i])) = i - 1
    <3> HIDE DEF below
    <3> QED
        BY <2>2, <2>3
  <2> QED
      BY <2>4
<1>10. InOrder(es) \in [1 .. n -> es]
  <2>1. InOrder(es) = [i \in 1 .. n |-> InOrder(es)[i]]
      BY DEF InOrder
  <2> QED
      BY <1>9, <2>1
<1>11. \A i, j \in 1 .. n : InOrder(es)[i] = InOrder(es)[j] => i = j
  <2> HIDE DEF r
  <2> SUFFICES ASSUME NEW i \in 1 .. n, NEW j \in 1 .. n, InOrder(es)[i] = InOrder(es)[j]
               PROVE  i = j
      OBVIOUS
  <2>1. i - 1 = j - 1
      BY <1>9
  <2> QED
      BY <1>1, <2>1
<1>12. \A e \in es : \E i \in 1 .. n : InOrder(es)[i] = e
  <2> SUFFICES ASSUME NEW e \in es
               PROVE  \E i \in 1 .. n : InOrder(es)[i] = e
      OBVIOUS
  <2>1. r[e] \in Nat /\ r[e] < n
      BY <1>5
  <2> HIDE DEF r
  <2> DEFINE i == r[e] + 1
  <2>2. i \in 1 .. n /\ i - 1 = r[e]
      BY <1>1, <2>1
  <2>3. InOrder(es)[i] \in es /\ r[InOrder(es)[i]] = r[e]
      BY <1>9, <2>2
  <2>4. InOrder(es)[i] = e
      BY <1>7, <2>3 DEF Injection, IsInjective
  <2> QED
      BY <2>2, <2>4
<1> QED
    BY <1>1, <1>10, <1>11, <1>12

LEMMA CountInOrder ==
    ASSUME NEW es \in SUBSET WatchEvent, IsFiniteSet(es), NEW S,
           \A e, f \in es : e = f \/ Before(e, f) \/ Before(f, e)
    PROVE  /\ InOrder(es) \in Seq(es)
           /\ Count(InOrder(es), S) = Cardinality(es \cap S)
<1> DEFINE n == Cardinality(es)
           o == InOrder(es)
           A == {i \in DOMAIN o : o[i] \in S}
           f == [i \in A |-> o[i]]
<1>1. /\ n \in Nat
      /\ o \in [1 .. n -> es]
      /\ \A i, j \in 1 .. n : o[i] = o[j] => i = j
      /\ \A e \in es : \E i \in 1 .. n : o[i] = e
    BY InOrderIsBijection
<1> HIDE DEF n, o
<1>2. o \in Seq(es)
    BY <1>1
<1>3. IsFiniteSet(A)
    BY <1>2, CountIsNat
<1>4. f \in [A -> es \cap S]
    BY <1>1
<1>5. \A x, y \in A : f[x] = f[y] => x = y
    BY <1>1
<1>6. \A y \in es \cap S : \E x \in A : f[x] = y
    BY <1>1
<1>7. Cardinality(es \cap S) = Cardinality(A)
  <2> HIDE DEF A, f
  <2> QED
      BY <1>3, <1>4, <1>5, <1>6, SameSize
<1>8. Count(o, S) = Cardinality(A)
    BY DEF Count
<1> QED
    BY <1>2, <1>7, <1>8 DEF o

-----------------------------------------------------------------------------
(* Paths.                                                                  *)

LEMMA PathIsSeq ==
    ASSUME NEW p \in Path
    PROVE  p \in Seq(STRING) /\ Len(p) \in Nat /\ Len(p) > 0
BY PathAssumption

LEMMA NormIsPath ==
    ASSUME NEW p \in Path
    PROVE  Norm(p) \in Path
<1>1. \A n \in 1 .. Len(p) : SubSeq(p, 1, n) \in Path
    BY PathAssumption
<1>2. CASE Len(p) > 1 /\ Last(p) = ""
  <2>1. Len(p) - 1 \in 1 .. Len(p)
    <3>1. Len(p) \in Nat /\ Len(p) > 1
        BY <1>2, PathIsSeq
    <3> QED
        BY <3>1
  <2> QED
      BY <1>1, <1>2, <2>1 DEF Norm, Front
<1> QED
    BY <1>2 DEF Norm

LEMMA WholePrefix ==
    ASSUME NEW T, NEW s \in Seq(T)
    PROVE  SubSeq(s, 1, Len(s)) = s
OBVIOUS

LEMMA SamePrefix ==
    ASSUME NEW k \in Path, NEW l \in Path, NEW p,
           IsPrefix(k, p), IsPrefix(l, p), Len(k) = Len(l)
    PROVE  k = l
<1>1. k = SubSeq(k, 1, Len(k)) /\ l = SubSeq(l, 1, Len(l))
    BY PathIsSeq, WholePrefix
<1> QED
    BY <1>1 DEF IsPrefix

LEMMA NoStrictLoop ==
    ASSUME NEW k \in Path, NEW p \in Path, IsPrefix(k, p)
    PROVE  ~IsStrictPrefix(p, k)
<1>1. SUFFICES ASSUME IsPrefix(p, k) PROVE k = p
    BY DEF IsStrictPrefix
<1>2. k = SubSeq(k, 1, Len(k)) /\ p = SubSeq(p, 1, Len(p))
    BY PathIsSeq, WholePrefix
<1>3. Len(k) = Len(p)
    BY <1>1, PathIsSeq DEF IsPrefix
<1> QED
    BY <1>1, <1>2, <1>3 DEF IsPrefix

LEMMA ReflexivePrefix ==
    ASSUME NEW p \in Path
    PROVE  IsPrefix(p, p)
BY PathIsSeq DEF IsPrefix

(* The store's reading of a path leaves the watches above it where they    *)
(* are: it only strips a '/' that no plain path ends in.                   *)
LEMMA PlainPrefix ==
    ASSUME NEW k \in Path, NEW p \in Path, k = Norm(k)
    PROVE  IsPrefix(k, p) <=> IsPrefix(k, Norm(p))
<1>1. /\ k \in Seq(STRING) /\ p \in Seq(STRING)
      /\ Len(k) \in Nat /\ Len(p) \in Nat
    BY PathIsSeq
<1>2. CASE ~(Len(p) > 1 /\ Last(p) = "")
    BY <1>2 DEF Norm
<1>3. CASE Len(p) > 1 /\ Last(p) = ""
  <2> DEFINE q == Norm(p)
  <2>1. q = SubSeq(p, 1, Len(p) - 1) /\ q \in Seq(STRING) /\ Len(q) = Len(p) - 1
    <3>1. q = SubSeq(p, 1, Len(p) - 1)
        BY <1>3 DEF Norm, Front
    <3>2. Len(p) > 1
        BY <1>3
    <3> HIDE DEF q
    <3> QED
        BY <1>1, <3>1, <3>2
  <2>2. \A n \in 0 .. Len(q) : SubSeq(q, 1, n) = SubSeq(p, 1, n)
    <3> SUFFICES ASSUME NEW n \in 0 .. Len(q)
                 PROVE  SubSeq(q, 1, n) = SubSeq(p, 1, n)
        OBVIOUS
    <3> HIDE DEF q
    <3> QED
        BY <1>1, <2>1
  <2>3. ASSUME IsPrefix(k, p)
        PROVE  Len(k) # Len(p)
    <3> SUFFICES ASSUME Len(k) = Len(p) PROVE FALSE
        OBVIOUS
    <3>1. k = p
        BY <1>1, <2>3, WholePrefix DEF IsPrefix
    <3>2. Len(Norm(k)) = Len(k) - 1
        BY <2>1, <3>1
    <3> QED
        BY <1>1, <3>2
  <2> HIDE DEF q
  <2> QED
      BY <1>1, <2>1, <2>2, <2>3 DEF IsPrefix, q
<1> QED
    BY <1>2, <1>3

-----------------------------------------------------------------------------
(* What is fired.                                                          *)
DbType == [Path -> [path : SUBSET Watch, children : SUBSET Watch]]

LEMMA FireUpwardsElements ==
    ASSUME NEW d \in DbType, NEW p \in Path
    PROVE  FireUpwards(d, p) = {e \in WatchEvent : /\ e.path = p
                                                   /\ IsPrefix(e.key, p)
                                                   /\ e.cb \in d[e.key].path}
<1>1. \A k \in Path : d[k].path \subseteq Watch
    BY DEF DbType
<1>2. ASSUME NEW e \in FireUpwards(d, p)
      PROVE  e \in WatchEvent /\ e.path = p /\ IsPrefix(e.key, p) /\ e.cb \in d[e.key].path
  <2>1. PICK k \in Path : \E w \in d[k].path :
            IsPrefix(k, p) /\ e = [kind |-> "watch", key |-> k, cb |-> w, path |-> p]
      BY <1>2 DEF FireUpwards
  <2>2. PICK w \in d[k].path : e = [kind |-> "watch", key |-> k, cb |-> w, path |-> p]
      BY <2>1
  <2>3. w \in Watch
      BY <1>1
  <2> QED
      BY <2>1, <2>2, <2>3 DEF WatchEvent
<1>3. ASSUME NEW e \in WatchEvent, e.path = p, IsPrefix(e.key, p), e.cb \in d[e.key].path
      PROVE  e \in FireUpwards(d, p)
  <2>1. e = [kind |-> "watch", key |-> e.key, cb |-> e.cb, path |-> p] /\ e.key \in Path
      BY <1>3 DEF WatchEvent
  <2> QED
      BY <1>3, <2>1 DEF FireUpwards
<1> QED
    BY <1>2, <1>3

LEMMA FireUpwardsOrdered ==
    ASSUME NEW d \in DbType, NEW p \in Path
    PROVE  /\ FireUpwards(d, p) \in SUBSET WatchEvent
           /\ IsFiniteSet(FireUpwards(d, p))
           /\ \A e, f \in FireUpwards(d, p) : e = f \/ Before(e, f) \/ Before(f, e)
<1> DEFINE es == FireUpwards(d, p)
           place == [e \in es |-> <<Len(e.key), e.cb>>]
<1>1. \A e \in es : e \in WatchEvent /\ e.path = p /\ IsPrefix(e.key, p)
    BY FireUpwardsElements
<1>2. ASSUME NEW e \in es
      PROVE  /\ e = [kind |-> "watch", key |-> e.key, cb |-> e.cb, path |-> p]
             /\ e.key \in Path /\ Len(e.key) \in 0 .. Len(p) /\ e.cb \in Watch /\ e.cb \in Nat
             /\ IsPrefix(e.key, p)
  <2>1. e \in WatchEvent /\ e.path = p /\ IsPrefix(e.key, p)
      BY <1>1
  <2>2. e = [kind |-> "watch", key |-> e.key, cb |-> e.cb, path |-> e.path]
      BY <2>1 DEF WatchEvent
  <2>3. Len(e.key) \in 0 .. Len(p)
      BY <2>1, WatchEventFields, PathIsSeq DEF IsPrefix
  <2> QED
      BY <2>1, <2>2, <2>3, WatchEventFields
<1>3. ASSUME NEW e \in es, NEW f \in es, Len(e.key) = Len(f.key), e.cb = f.cb
      PROVE  e = f
  <2>1. e.key = f.key
      BY <1>2, <1>3, SamePrefix
  <2> QED
      BY <1>2, <1>3, <2>1
<1>4. place \in Injection(es, (0 .. Len(p)) \X Watch)
  <2>1. place \in [es -> (0 .. Len(p)) \X Watch]
      BY <1>2
  <2>2. \A e, f \in es : place[e] = place[f] => e = f
      BY <1>3
  <2> QED
      BY <2>1, <2>2 DEF Injection, IsInjective
<1>5. IsFiniteSet((0 .. Len(p)) \X Watch)
  <2>1. IsFiniteSet(0 .. Len(p)) /\ IsFiniteSet(Watch)
      BY PathIsSeq, FS_Interval, OtherAssumption
  <2> QED
      BY <2>1, FS_Product
<1>6. IsFiniteSet(es)
  <2> HIDE DEF place, es
  <2> QED
      BY <1>4, <1>5, FS_Injection
<1>7. ASSUME NEW e \in es, NEW f \in es
      PROVE  e = f \/ Before(e, f) \/ Before(f, e)
  <2>1. Len(e.key) \in Nat /\ Len(f.key) \in Nat /\ e.cb \in Nat /\ f.cb \in Nat
      BY <1>2, PathIsSeq
  <2>2. Len(e.key) = Len(f.key) /\ e.cb = f.cb => e = f
      BY <1>3
  <2> QED
      BY <2>1, <2>2 DEF Before
<1> QED
    BY <1>1, <1>6, <1>7

LEMMA FireChildrenOrdered ==
    ASSUME NEW d \in DbType, NEW p \in Path,
           \A w \in d[p].children : watches[w].path \in Path
    PROVE  /\ FireChildren(d, p) \in SUBSET WatchEvent
           /\ IsFiniteSet(FireChildren(d, p))
           /\ \A e, f \in FireChildren(d, p) : e = f \/ Before(e, f) \/ Before(f, e)
<1> DEFINE es == FireChildren(d, p)
           place == [e \in es |-> e.cb]
<1>1. d[p].children \subseteq Watch
    BY DEF DbType
<1>2. ASSUME NEW e \in es
      PROVE  /\ e = [kind |-> "watch", key |-> p, cb |-> e.cb, path |-> watches[e.cb].path]
             /\ e.key = p /\ e.cb \in Watch /\ e.cb \in Nat /\ e.path \in Path
             /\ e.path = watches[e.cb].path /\ e \in WatchEvent
  <2>1. PICK w \in d[p].children :
            e = [kind |-> "watch", key |-> p, cb |-> w, path |-> watches[w].path]
      BY DEF FireChildren
  <2>2. w \in Watch /\ w \in Nat
      BY <1>1, OtherAssumption
  <2> QED
      BY <2>1, <2>2 DEF WatchEvent
<1>3. \A e, f \in es : e.cb = f.cb => e = f
    BY <1>2
<1>4. place \in Injection(es, Watch)
  <2>1. place \in [es -> Watch]
      BY <1>2
  <2> QED
      BY <1>3, <2>1 DEF Injection, IsInjective
<1>5. IsFiniteSet(es)
  <2> HIDE DEF place, es
  <2> QED
      BY <1>4, OtherAssumption, FS_Injection
<1>6. ASSUME NEW e \in es, NEW f \in es
      PROVE  e = f \/ Before(e, f) \/ Before(f, e)
  <2>1. e.key = p /\ f.key = p /\ e.cb \in Nat /\ f.cb \in Nat /\ Len(p) \in Nat
      BY <1>2, PathIsSeq
  <2> QED
      BY <1>3, <2>1 DEF Before
<1> QED
    BY <1>2, <1>5, <1>6

LEMMA WiderSeq ==
    ASSUME NEW A, NEW B, A \subseteq B, NEW s \in Seq(A)
    PROVE  s \in Seq(B)
OBVIOUS

LEMMA ConcatType ==
    ASSUME NEW T, NEW s \in Seq(T), NEW t \in Seq(T)
    PROVE  s \o t \in Seq(T)
OBVIOUS

LEMMA FiresCount ==
    ASSUME NEW d \in DbType, NEW p \in Path, NEW S,
           \A w \in d[p].children : watches[w].path \in Path
    PROVE  /\ \A rm \in BOOLEAN : Fires(d, p, rm) \in Seq(WatchEvent)
           /\ Count(Fires(d, p, TRUE), S) = Cardinality(FireUpwards(d, p) \cap S) +
                                               Cardinality(FireChildren(d, p) \cap S)
           /\ Count(Fires(d, p, FALSE), S) = Cardinality(FireUpwards(d, p) \cap S)
<1> DEFINE up == FireUpwards(d, p)
           below == FireChildren(d, p)
<1>1. /\ InOrder(up) \in Seq(WatchEvent)
      /\ Count(InOrder(up), S) = Cardinality(up \cap S)
      /\ Count(InOrder(up), S) \in Nat
  <2>1. /\ up \in SUBSET WatchEvent
        /\ IsFiniteSet(up)
        /\ \A e, f \in up : e = f \/ Before(e, f) \/ Before(f, e)
      BY FireUpwardsOrdered
  <2> HIDE DEF up
  <2>2. InOrder(up) \in Seq(up) /\ Count(InOrder(up), S) = Cardinality(up \cap S)
      BY <2>1, CountInOrder
  <2>3. InOrder(up) \in Seq(WatchEvent)
      BY <2>1, <2>2, WiderSeq
  <2>4. Count(InOrder(up), S) \in Nat
      BY <2>2, CountIsNat
  <2> QED
      BY <2>2, <2>3, <2>4
<1>2. /\ InOrder(below) \in Seq(WatchEvent)
      /\ Count(InOrder(below), S) = Cardinality(below \cap S)
      /\ Count(InOrder(below), S) \in Nat
  <2>1. /\ below \in SUBSET WatchEvent
        /\ IsFiniteSet(below)
        /\ \A e, f \in below : e = f \/ Before(e, f) \/ Before(f, e)
      BY FireChildrenOrdered
  <2> HIDE DEF below
  <2>2. InOrder(below) \in Seq(below) /\ Count(InOrder(below), S) = Cardinality(below \cap S)
      BY <2>1, CountInOrder
  <2>3. InOrder(below) \in Seq(WatchEvent)
      BY <2>1, <2>2, WiderSeq
  <2>4. Count(InOrder(below), S) \in Nat
      BY <2>2, CountIsNat
  <2> QED
      BY <2>2, <2>3, <2>4
<1>3. Fires(d, p, TRUE) = InOrder(up) \o InOrder(below)
    BY DEF Fires
<1>4. Fires(d, p, FALSE) = InOrder(up)
  <2>1. InOrder(up) \o <<>> = InOrder(up)
    <3> HIDE DEF up
    <3> QED
        BY <1>1
  <2> QED
      BY <2>1 DEF Fires
<1> HIDE DEF up, below
<1>5. Count(InOrder(up) \o InOrder(below), S) = Count(InOrder(up), S) + Count(InOrder(below), S)
    BY <1>1, <1>2, CountConcat
<1>6. Fires(d, p, TRUE) \in Seq(WatchEvent) /\ Fires(d, p, FALSE) \in Seq(WatchEvent)
  <2>1. InOrder(up) \o InOrder(below) \in Seq(WatchEvent)
      BY <1>1, <1>2, ConcatType
  <2> QED
      BY <1>1, <1>3, <1>4, <2>1
<1> QED
    BY <1>1, <1>2, <1>3, <1>4, <1>5, <1>6 DEF up, below

(* What Registry says of one watch.                                        *)
LEMMA LiveFields ==
    ASSUME Registry, NEW w \in Watch, Live(w)
    PROVE  /\ watches[w] \in WatchCb
           /\ watches[w].path \in Path /\ watches[w].client \in Client
           /\ \A k \in Path : w \in db[k].path <=> k = watches[w].path
           /\ \A k \in Path : w \in db[k].children <=> IsStrictPrefix(k, watches[w].path)
<1>1. watches[w] \in WatchCb
    BY DEF Registry, Shape, Live
<1>2. w \in LiveWatches
    BY DEF LiveWatches
<1> QED
    BY <1>1, <1>2 DEF Registry, RegistrationsExact, WatchCb

LEMMA RegisteredIsLive ==
    ASSUME Registry, NEW k \in Path, NEW w \in db[k].path \cup db[k].children
    PROVE  w \in Watch /\ Live(w) /\ watches[w].path \in Path
<1>1. w \in LiveWatches
    BY DEF Registry, RegistrationsExact
<1> QED
    BY <1>1, LiveFields DEF LiveWatches

(* Which of the fired events are news to a plain watch w that is found in  *)
(* d where it is registered: one if the change concerns it, else none.     *)
LEMMA FiresNews ==
    ASSUME Registry, NEW d \in DbType, NEW p \in Path, NEW rm \in BOOLEAN,
           NEW w \in Watch, NEW q \in Path, Plain(w),
           \A k \in Path : w \in d[k].path <=> k = watches[w].path,
           \A k \in Path : w \in d[k].children <=> IsStrictPrefix(k, watches[w].path),
           \A v \in d[p].children : watches[v].path \in Path
    PROVE  Count(Fires(d, p, rm), News(w, q)) =
               IF <<w, q>> \in Concerned(p, rm) THEN 1 ELSE 0
<1> DEFINE r == watches[w].path
           e0 == [kind |-> "watch", key |-> r, cb |-> w, path |-> p]
           e1 == [kind |-> "watch", key |-> p, cb |-> w, path |-> r]
<1>1. r \in Path /\ r = Norm(r) /\ Live(w)
    BY LiveFields DEF Plain
<1>2. \A k \in Path : w \in db[k].path <=> k = r
    BY <1>1, LiveFields
<1>3. \A k \in Path : w \in db[k].children <=> IsStrictPrefix(k, r)
    BY <1>1, LiveFields
<1>4. IsPrefix(r, p) <=> IsPrefix(r, Norm(p))
    BY <1>1, PlainPrefix
<1>5. FireUpwards(d, p) \cap News(w, q) =
          IF IsPrefix(r, p) /\ q = Norm(p) THEN {e0} ELSE {}
  <2>1. ASSUME NEW e \in FireUpwards(d, p) \cap News(w, q)
        PROVE  IsPrefix(r, p) /\ q = Norm(p) /\ e = e0
    <3>1. e \in WatchEvent /\ e.path = p /\ IsPrefix(e.key, p) /\ e.cb \in d[e.key].path
        BY <2>1, FireUpwardsElements
    <3>2. e.cb = w /\ Norm(e.path) = q
        BY <2>1 DEF News
    <3>3. e.key = r
        BY <3>1, <3>2, WatchEventFields
    <3>4. e = [kind |-> "watch", key |-> e.key, cb |-> e.cb, path |-> e.path]
        BY <3>1 DEF WatchEvent
    <3> QED
        BY <3>1, <3>2, <3>3, <3>4
  <2>2. ASSUME IsPrefix(r, p), q = Norm(p)
        PROVE  e0 \in FireUpwards(d, p) \cap News(w, q)
    <3>1. e0 \in WatchEvent
        BY <1>1 DEF WatchEvent
    <3>2. e0 \in FireUpwards(d, p)
        BY <1>1, <2>2, <3>1, FireUpwardsElements
    <3>3. Deliverable(e0)
        BY <1>1, <1>2 DEF Deliverable
    <3> QED
        BY <2>2, <3>1, <3>2, <3>3 DEF News
  <2> HIDE DEF e0, r
  <2> QED
      BY <2>1, <2>2
<1>6. FireChildren(d, p) \cap News(w, q) =
          IF IsStrictPrefix(p, r) /\ q = r THEN {e1} ELSE {}
  <2>1. ASSUME NEW e \in FireChildren(d, p) \cap News(w, q)
        PROVE  IsStrictPrefix(p, r) /\ q = r /\ e = e1
    <3>1. PICK v \in d[p].children :
              e = [kind |-> "watch", key |-> p, cb |-> v, path |-> watches[v].path]
        BY <2>1 DEF FireChildren
    <3>2. e.cb = w /\ Norm(e.path) = q
        BY <2>1 DEF News
    <3>3. v = w
        BY <3>1, <3>2
    <3> QED
        BY <1>1, <3>1, <3>2, <3>3
  <2>2. ASSUME IsStrictPrefix(p, r), q = r
        PROVE  e1 \in FireChildren(d, p) \cap News(w, q)
    <3>1. e1 \in WatchEvent
        BY <1>1 DEF WatchEvent
    <3>2. e1 \in FireChildren(d, p)
        BY <2>2 DEF FireChildren
    <3>3. Deliverable(e1)
        BY <1>3, <2>2 DEF Deliverable
    <3>4. e1.cb = w /\ Norm(e1.path) = q
        BY <1>1, <2>2
    <3> QED
        BY <3>1, <3>2, <3>3, <3>4 DEF News
  <2> HIDE DEF e1, r
  <2> QED
      BY <2>1, <2>2
<1>7. IsPrefix(r, p) => ~IsStrictPrefix(p, r)
    BY <1>1, NoStrictLoop
<1>8. <<w, q>> \in Concerned(p, rm) <=>
          \/ IsPrefix(r, p) /\ q = Norm(p)
          \/ rm /\ IsStrictPrefix(p, r) /\ q = r
    BY <1>4 DEF Concerned, Concerns
<1>9. /\ Count(Fires(d, p, TRUE), News(w, q)) =
            Cardinality(FireUpwards(d, p) \cap News(w, q)) +
                Cardinality(FireChildren(d, p) \cap News(w, q))
      /\ Count(Fires(d, p, FALSE), News(w, q)) =
            Cardinality(FireUpwards(d, p) \cap News(w, q))
    BY FiresCount
<1>10. Cardinality({e0}) = 1 /\ Cardinality({e1}) = 1 /\ Cardinality({}) = 0
    BY FS_Singleton, FS_EmptySet
<1> DEFINE a == IsPrefix(r, p) /\ q = Norm(p)
           b == IsStrictPrefix(p, r) /\ q = r
<1>11. Cardinality(FireUpwards(d, p) \cap News(w, q)) = IF a THEN 1 ELSE 0
    BY <1>5, <1>10
<1>12. Cardinality(FireChildren(d, p) \cap News(w, q)) = IF b THEN 1 ELSE 0
    BY <1>6, <1>10
<1>13. ~(a /\ b) /\ (<<w, q>> \in Concerned(p, rm) <=> a \/ (rm /\ b))
    BY <1>7, <1>8
<1> DEFINE told == <<w, q>> \in Concerned(p, rm)
           nup == Cardinality(FireUpwards(d, p) \cap News(w, q))
           nbelow == Cardinality(FireChildren(d, p) \cap News(w, q))
           nall == Count(Fires(d, p, rm), News(w, q))
<1> HIDE DEF a, b
<1>14. CASE rm = TRUE
  <2>1. nall = nup + nbelow /\ (told <=> a \/ b) /\ ~(a /\ b)
      BY <1>9, <1>13, <1>14
  <2>2. nup = (IF a THEN 1 ELSE 0) /\ nbelow = (IF b THEN 1 ELSE 0)
      BY <1>11, <1>12
  <2>3. nall = IF told THEN 1 ELSE 0
    <3> HIDE DEF nall, nup, nbelow, told
    <3> QED
        BY <2>1, <2>2
  <2> QED
      BY <2>3
<1>15. CASE rm = FALSE
  <2>1. nall = nup /\ (told <=> a)
      BY <1>9, <1>13, <1>15
  <2>2. nup = IF a THEN 1 ELSE 0
      BY <1>11
  <2>3. nall = IF told THEN 1 ELSE 0
    <3> HIDE DEF nall, nup, told
    <3> QED
        BY <2>1, <2>2
  <2> QED
      BY <2>3
<1> QED
    BY <1>14, <1>15

-----------------------------------------------------------------------------
(* The queue keeps its type, and the poll in it.                           *)
Again == [kind |-> "poll"]
Queue(s) == s \in Seq(Event) /\ Count(s, {Again}) = 1

LEMMA EventForms ==
    ASSUME NEW e \in Event
    PROVE  /\ e.kind = "watch" => e \in WatchEvent
           /\ e.kind \in {"io", "dead"} =>
                  e = [kind |-> e.kind, client |-> e.client] /\ e.client \in Client
           /\ e.kind \notin {"watch", "io", "dead"} => e = [kind |-> e.kind]
           /\ e.kind \in {"watch", "io", "dead", "poll", "accept", "expired"}
<1>1. CASE e \in WatchEvent
  <2>1. e.kind = "watch"
      BY <1>1 DEF WatchEvent
  <2> QED
      BY <1>1, <2>1
<1>2. CASE e \in [kind : {"poll", "accept", "expired"}]
    BY <1>2
<1>3. CASE e \in [kind : {"io", "dead"}, client : Client]
    BY <1>3
<1> QED
    BY <1>1, <1>2, <1>3 DEF Event

LEMMA EventMembers ==
    /\ \A c \in Client : Io(c) \in Event /\ Dead(c) \in Event
    /\ [kind |-> "accept"] \in Event /\ [kind |-> "expired"] \in Event /\ Again \in Event
    /\ WatchEvent \subseteq Event
    /\ \A c \in Client, b \in Client : Io(c) # Dead(b)
    /\ \A c \in Client : Io(c) # Again /\ Dead(c) # Again
BY DEF Event, Io, Dead, Again

(* Membership of the sets that are counted is a matter of the kind.        *)
LEMMA Kinds ==
    /\ \A e \in WatchEvent : e.kind = "watch"
    /\ \A c : Io(c).kind = "io" /\ Dead(c).kind = "dead"
    /\ Again.kind = "poll"
BY DEF WatchEvent, Io, Dead, Again

(* Watch events at the end of the queue.                                   *)
LEMMA QueueFires ==
    ASSUME NEW s, Queue(s), NEW t \in Seq(WatchEvent)
    PROVE  Queue(s \o t)
<1>1. t \in Seq(Event) /\ s \in Seq(Event)
    BY EventMembers, WiderSeq DEF Queue
<1>2. Count(t, {Again}) = 0
  <2>1. \A i \in DOMAIN t : t[i] \notin {Again}
    <3> SUFFICES ASSUME NEW i \in DOMAIN t PROVE t[i] # Again
        OBVIOUS
    <3>1. t[i] \in WatchEvent
        OBVIOUS
    <3> QED
        BY <3>1, Kinds
  <2> QED
      BY <2>1, CountNone
<1>3. Count(s \o t, {Again}) = Count(s, {Again}) + Count(t, {Again})
    BY <1>1, CountConcat
<1>4. s \o t \in Seq(Event)
    BY <1>1, ConcatType
<1> QED
    BY <1>2, <1>3, <1>4 DEF Queue

LEMMA QueueAppend ==
    ASSUME NEW s, Queue(s), NEW e \in Event, e # Again
    PROVE  Queue(Append(s, e))
<1>1. s \in Seq(Event) /\ Append(s, e) \in Seq(Event)
    BY DEF Queue
<1>2. Count(Append(s, e), {Again}) = Count(s, {Again}) + 0
    BY <1>1, CountAppend
<1> QED
    BY <1>1, <1>2 DEF Queue

LEMMA QueueTail ==
    ASSUME NEW s, Queue(s), s # <<>>, Head(s) # Again
    PROVE  Queue(Tail(s))
<1>1. s \in Seq(Event)
    BY DEF Queue
<1>2. /\ Tail(s) \in Seq(Event)
      /\ Count(s, {Again}) = Count(Tail(s), {Again}) + (IF Head(s) \in {Again} THEN 1 ELSE 0)
      /\ Count(Tail(s), {Again}) \in Nat
    BY <1>1, CountTail
<1> QED
    BY <1>2 DEF Queue

LEMMA ExpireEffect ==
    ASSUME events \in Seq(Event), NEW c
    PROVE  /\ Expire(c) \in Seq(Event) /\ Len(Expire(c)) = Len(events)
           /\ DOMAIN Expire(c) = DOMAIN events
           /\ \A i \in DOMAIN events :
                  \/ Expire(c)[i] = events[i]
                  \/ events[i] = Io(c) /\ Expire(c)[i] = [kind |-> "expired"]
<1>1. \A i \in DOMAIN events : Expire(c)[i] \in Event
    BY EventMembers DEF Expire
<1>2. Expire(c) = [i \in 1 .. Len(events) |-> Expire(c)[i]]
    BY DEF Expire
<1>3. Len(events) \in Nat /\ Expire(c) \in [1 .. Len(events) -> Event]
    BY <1>1, <1>2
<1>4. Expire(c) \in Seq(Event)
    BY <1>3, FunctionIsSeq
<1>5. DOMAIN Expire(c) = 1 .. Len(events) /\ DOMAIN events = 1 .. Len(events)
    BY <1>2
<1>6. Len(Expire(c)) = Len(events)
    BY <1>3, <1>4, <1>5
<1> QED
    BY <1>4, <1>5, <1>6 DEF Expire

LEMMA ExpireCount ==
    ASSUME events \in Seq(Event), NEW c, NEW S,
           Io(c) \notin S, [kind |-> "expired"] \notin S
    PROVE  Count(Expire(c), S) = Count(events, S)
<1>1. \A i \in DOMAIN Expire(c) : Expire(c)[i] \in S <=> events[i] \in S
    BY ExpireEffect
<1> QED
    BY <1>1, ExpireEffect, CountSame

LEMMA QueueExpire ==
    ASSUME Queue(events), NEW c
    PROVE  Queue(Expire(c))
<1>1. Io(c) \notin {Again} /\ [kind |-> "expired"] \notin {Again}
    BY DEF Io, Again
<1>2. events \in Seq(Event)
    BY DEF Queue
<1> QED
    BY <1>1, <1>2, ExpireEffect, ExpireCount DEF Queue

(* What epoll queues: some of the clients that are alive, each once, and   *)
(* perhaps the listening socket.                                           *)
Ready == {Io(c) : c \in Alive} \cup {[kind |-> "accept"]}

LEMMA ReadyOnes ==
    ASSUME NEW s \in SetToAllKPermutations(Ready)
    PROVE  s \in Seq(Ready)
<1>1. IsFiniteSet(Ready)
  <2> DEFINE Ios == {Io(c) : c \in Client}
             f == [c \in Client |-> Io(c)]
  <2>1. f \in Surjection(Client, Ios)
      BY DEF Surjection
  <2>2. IsFiniteSet(Ios)
    <3> HIDE DEF f, Ios
    <3> QED
        BY <2>1, OtherAssumption, FS_Surjection
  <2>3. IsFiniteSet(Ios \cup {[kind |-> "accept"]})
    <3> HIDE DEF f, Ios
    <3> QED
        BY <2>2, FS_AddElement
  <2>4. Ready \in SUBSET (Ios \cup {[kind |-> "accept"]})
      BY DEF Ready, Alive
  <2> HIDE DEF f, Ios
  <2> QED
      BY <2>3, <2>4, FS_Subset
<1>2. PICK x \in SUBSET Ready : s \in SetToSeqs(x)
    BY DEF SetToAllKPermutations
<1>3. Cardinality(x) \in Nat
    BY <1>1, FS_Subset, FS_CardinalityType
<1>4. s \in [1 .. Cardinality(x) -> x]
    BY <1>2 DEF SetToSeqs
<1> QED
    BY <1>3, <1>4

LEMMA QueuePoll ==
    ASSUME Queue(events), events # <<>>, Head(events) = Again,
           NEW s \in SetToAllKPermutations(Ready)
    PROVE  Queue(Append(Tail(events) \o s, Again))
<1>1. events \in Seq(Event) /\ Count(events, {Again}) = 1
    BY DEF Queue
<1>2. /\ Tail(events) \in Seq(Event)
      /\ Count(events, {Again}) =
             Count(Tail(events), {Again}) + (IF Head(events) \in {Again} THEN 1 ELSE 0)
      /\ Count(Tail(events), {Again}) \in Nat
    BY <1>1, CountTail
<1>3. Ready \subseteq Event /\ \A e \in Ready : e # Again
  <2>1. Alive \subseteq Client
      BY DEF Alive
  <2> QED
      BY <2>1, EventMembers DEF Ready, Io, Again
<1>4. s \in Seq(Ready)
    BY ReadyOnes
<1>5. s \in Seq(Event)
    BY <1>3, <1>4, WiderSeq
<1>6. Count(s, {Again}) = 0
  <2>1. \A i \in DOMAIN s : s[i] \notin {Again}
      BY <1>3, <1>4
  <2> QED
      BY <2>1, CountNone
<1>7. /\ Append(Tail(events) \o s, Again) \in Seq(Event)
      /\ Count(Append(Tail(events) \o s, Again), {Again}) =
             Count(Tail(events), {Again}) + Count(s, {Again}) + 1
  <2> DEFINE u == Tail(events)
  <2>1. u \in Seq(Event) /\ Again \in Event /\ Again \in {Again}
      BY <1>2, EventMembers
  <2> HIDE DEF u
  <2>2. /\ Append(u \o s, Again) \in Seq(Event)
        /\ Count(Append(u \o s, Again), {Again}) = Count(u, {Again}) + Count(s, {Again}) + 1
      BY <1>5, <2>1, CountRound
  <2> QED
      BY <2>2 DEF u
<1>8. Count(Tail(events), {Again}) = 0
    BY <1>1, <1>2
<1> QED
    BY <1>6, <1>7, <1>8 DEF Queue

-----------------------------------------------------------------------------
(* Type correctness.                                                       *)
Change == [path : Path, rm : BOOLEAN, watchers : SUBSET Watch]

Books ==
    /\ active \in BOOLEAN
    /\ tdb \in [Tid -> Seq(WatchEvent)]
    /\ changes \in [Tid -> Seq(Change)]
    /\ trans \subseteq Tid
    /\ owed \in [Watch \X Path -> Nat]

Typed == Queue(events) /\ Books /\ Registry

LEMMA TypedIsTypeOK == Typed => TypeOK
BY DEF Typed, TypeOK, Queue, Again, Books, Change, Registry, Shape

LEMMA OweType ==
    ASSUME Books, NEW xs, Owe(xs)
    PROVE  owed' \in [Watch \X Path -> Nat]
<1>1. \A x \in Watch \X Path : owed[x] + (IF x \in xs THEN 1 ELSE 0) \in Nat
    BY DEF Books
<1> QED
    BY <1>1 DEF Owe

LEMMA DropType ==
    ASSUME Books, NEW ws, NEW told, DropWatches(ws, told)
    PROVE  changes' \in [Tid -> Seq(Change)] /\ owed' \in [Watch \X Path -> Nat]
<1>1. owed' \in [Watch \X Path -> Nat]
  <2>1. \A x \in Watch \X Path :
            (IF x[1] \in ws THEN 0 ELSE owed[x] + (IF x \in told THEN 1 ELSE 0)) \in Nat
      BY DEF Books
  <2> QED
      BY <2>1 DEF DropWatches
<1>2. ASSUME NEW t \in Tid
      PROVE  [i \in DOMAIN changes[t] |->
                 [changes[t][i] EXCEPT !.watchers = @ \ ws]] \in Seq(Change)
  <2> DEFINE s == changes[t]
             f == [i \in DOMAIN s |-> [s[i] EXCEPT !.watchers = @ \ ws]]
  <2>1. s \in Seq(Change)
      BY DEF Books
  <2>2. ASSUME NEW i \in DOMAIN s
        PROVE  [s[i] EXCEPT !.watchers = @ \ ws] \in Change
    <3>1. s[i] \in Change
        BY <2>1
    <3> DEFINE ch == s[i]
    <3> HIDE DEF s
    <3>2. ch \in [path : Path, rm : BOOLEAN, watchers : SUBSET Watch]
        BY <3>1 DEF Change
    <3>3. ch.watchers \ ws \in SUBSET Watch
        BY <3>2
    <3> HIDE DEF ch
    <3>4. [ch EXCEPT !.watchers = @ \ ws] \in [path : Path, rm : BOOLEAN, watchers : SUBSET Watch]
        BY <3>2, <3>3
    <3> QED
        BY <3>4 DEF Change, ch
  <2>3. Len(s) \in Nat /\ DOMAIN s = 1 .. Len(s)
      BY <2>1
  <2> HIDE DEF s
  <2>4. f \in [1 .. Len(s) -> Change]
      BY <2>2, <2>3
  <2> HIDE DEF f
  <2>5. f \in Seq(Change)
      BY <2>3, <2>4, FunctionIsSeq
  <2> QED
      BY <2>5 DEF f, s
<1>3. changes' \in [Tid -> Seq(Change)]
    BY <1>2 DEF DropWatches
<1> QED
    BY <1>1, <1>3

LEMMA RunningHead ==
    ASSUME Typed, NEW kind, Running(kind)
    PROVE  /\ events \in Seq(Event) /\ events # <<>>
           /\ Head(events) \in Event /\ Head(events).kind = kind
           /\ Tail(events) \in Seq(Event)
           /\ kind # "poll" => Queue(Tail(events))
<1>1. events \in Seq(Event) /\ events # <<>> /\ Head(events).kind = kind
    BY DEF Typed, Queue, Running
<1>2. Head(events) \in Event /\ Tail(events) \in Seq(Event)
    BY <1>1
<1>3. kind # "poll" => Queue(Tail(events))
    BY <1>1, QueueTail, Kinds DEF Typed
<1> QED
    BY <1>1, <1>2, <1>3

LEMMA FiresType ==
    ASSUME Registry, NEW p \in Path, NEW rm \in BOOLEAN
    PROVE  Fires(db, p, rm) \in Seq(WatchEvent)
<1>1. db \in DbType
    BY DEF Registry, Shape, DbType
<1>2. \A w \in db[p].children : watches[w].path \in Path
    BY RegisteredIsLive
<1> QED
    BY <1>1, <1>2, FiresCount

LEMMA NamedPaths == Named \cup Special \subseteq Path /\ Introduced \in Path /\ Released \in Path
BY PathAssumption DEF Named, Special

LEMMA UnregisteredDb ==
    ASSUME Registry, NEW ws
    PROVE  /\ Unregistered(ws) \in DbType
           /\ \A k \in Path : \A w \in Unregistered(ws)[k].children : watches[w].path \in Path
<1>1. \A k \in Path : db[k] \in [path : SUBSET Watch, children : SUBSET Watch]
    BY DEF Registry, Shape
<1>2. Unregistered(ws) \in DbType
    BY <1>1 DEF Unregistered, DbType
<1>3. \A k \in Path : Unregistered(ws)[k].children \subseteq db[k].children
    BY DEF Unregistered
<1> QED
    BY <1>2, <1>3, RegisteredIsLive

LEMMA ReleaseFires ==
    ASSUME Registry, NEW ws
    PROVE  Fires(Unregistered(ws), Released, FALSE) \in Seq(WatchEvent)
BY UnregisteredDb, FiresCount, NamedPaths

LEMMA PollTyped ==
    ASSUME Typed, Poll
    PROVE  Queue(events')
<1>1. PICK s \in SetToAllKPermutations(Ready) : events' = Append(Tail(events) \o s, Again)
    BY DEF Poll, Ready, Again
<1>2. events # <<>> /\ Head(events) = Again
  <2>1. Head(events) \in Event /\ Head(events).kind = "poll" /\ events # <<>>
      BY RunningHead DEF Poll
  <2> QED
      BY <2>1, EventForms DEF Again
<1> QED
    BY <1>1, <1>2, QueuePoll DEF Typed

LEMMA RunTyped == Typed /\ RunNext => Typed'
<1> SUFFICES ASSUME Typed, RunNext PROVE Queue(events)' /\ Books'
    BY RunRegistry DEF Typed
<1>1. CASE Poll
    BY <1>1, PollTyped DEF Poll, Typed, Books
<1>2. CASE Accept
    BY <1>2, RunningHead DEF Accept, Typed, Books
<1>3. CASE IoDone
    BY <1>3, RunningHead DEF IoDone, Typed, Books
<1>4. CASE RunWatch
  <2>1. UNCHANGED <<active, tdb, changes, trans>> /\ Queue(Tail(events))
      BY <1>4, RunningHead DEF RunWatch
  <2> DEFINE e == Head(events)
             c == watches[e.cb].client
  <2>2. e \in WatchEvent
      BY <1>4, RunningHead, EventForms DEF RunWatch
  <2>3. CASE ~Deliverable(e)
      BY <1>4, <2>1, <2>3 DEF RunWatch, Typed, Books
  <2>4. CASE Deliverable(e)
    <3>1. e.cb \in Watch /\ c \in Client
        BY <2>2, <2>4, WatchEventFields, RegisteredIsLive, LiveFields DEF Deliverable, Typed
    <3>2. Settle(e.cb, e.path) /\ (events' = Tail(events) \/ events' = Append(Tail(events), Dead(c)))
        BY <1>4, <2>4 DEF RunWatch
    <3>3. Queue(events')
      <4>1. Dead(c) \in Event /\ Dead(c) # Again
          BY <3>1, EventMembers
      <4> HIDE DEF c
      <4> QED
          BY <2>1, <3>2, <4>1, QueueAppend
    <3>4. owed' \in [Watch \X Path -> Nat]
      <4> DEFINE x == <<e.cb, Norm(e.path)>>
      <4>1. owed \in [Watch \X Path -> Nat] /\ x \in Watch \X Path
          BY <2>2, <3>1, WatchEventFields, NormIsPath DEF Typed, Books
      <4>2. owed' = [owed EXCEPT ![x] = IF owed[x] = 0 THEN 0 ELSE owed[x] - 1]
          BY <3>2 DEF Settle
      <4>3. (IF owed[x] = 0 THEN 0 ELSE owed[x] - 1) \in Nat
        <5>1. owed[x] \in Nat
            BY <4>1
        <5> HIDE DEF x
        <5> QED
            BY <5>1
      <4> HIDE DEF x
      <4> QED
          BY <4>1, <4>2, <4>3
    <3> QED
        BY <2>1, <3>3, <3>4 DEF Typed, Books
  <2> QED
      BY <2>3, <2>4
<1>5. CASE RunDead
  <2> DEFINE c == Head(events).client
  <2>1. PICK ws : DropWatches(ws, {})
      BY <1>5 DEF RunDead
  <2>2. changes' \in [Tid -> Seq(Change)] /\ owed' \in [Watch \X Path -> Nat]
      BY <2>1, DropType DEF Typed
  <2>3. events' = Tail(Expire(c)) /\ UNCHANGED <<active, tdb, trans>>
      BY <1>5 DEF RunDead
  <2>4. Queue(Tail(Expire(c)))
    <3>1. Queue(Expire(c)) /\ events \in Seq(Event)
        BY QueueExpire DEF Typed, Queue
    <3>2. events # <<>> /\ Head(events).kind = "dead"
        BY <1>5 DEF RunDead, Running
    <3>3. Expire(c) # <<>> /\ Head(Expire(c)) # Again
      <4>1. 1 \in DOMAIN events /\ Head(events) = events[1]
          BY <3>1, <3>2
      <4>2. Expire(c)[1] = events[1]
          BY <3>1, <3>2, <4>1, ExpireEffect, Kinds
      <4>3. Expire(c) \in Seq(Event) /\ 1 \in DOMAIN Expire(c)
          BY <3>1, <4>1, ExpireEffect
      <4> HIDE DEF c
      <4> QED
          BY <3>2, <4>1, <4>2, <4>3, Kinds
    <3> HIDE DEF c
    <3> QED
        BY <3>1, <3>3, QueueTail
  <2> QED
      BY <2>2, <2>3, <2>4 DEF Typed, Books
<1> QED
    BY <1>1, <1>2, <1>3, <1>4, <1>5 DEF RunNext

LEMMA IoFailsTyped == Typed /\ IoFails => Typed'
<1> SUFFICES ASSUME Typed, IoFails PROVE Typed'
    OBVIOUS
<1> DEFINE c == Head(events).client
<1>1. Queue(Tail(events)) /\ c \in Client
    BY RunningHead, EventForms DEF IoFails
<1>2. events' = Append(Tail(events), Dead(c)) /\ UNCHANGED <<active, tdb, changes, trans, owed>>
    BY DEF IoFails
<1>3. Queue(events)'
  <2>1. Dead(c) \in Event /\ Dead(c) # Again
      BY <1>1, EventMembers
  <2> HIDE DEF c
  <2> QED
      BY <1>1, <1>2, <2>1, QueueAppend
<1>4. Registry'
    BY NextRegistry DEF Next, Typed
<1> QED
    BY <1>2, <1>3, <1>4 DEF Typed, Books

LEMMA NotedIsNat ==
    ASSUME Books, NEW t \in Tid, NEW x
    PROVE  Noted(t, x) \in Nat
<1> DEFINE s == changes[t]
<1>1. s \in Seq(Change)
    BY DEF Books
<1>2. Len(s) \in Nat /\ DOMAIN s = 1 .. Len(s) /\ IsFiniteSet(1 .. Len(s))
  <2> HIDE DEF s
  <2> QED
      BY <1>1, FS_Interval
<1> DEFINE I == {i \in DOMAIN s : /\ x[1] \in s[i].watchers
                                  /\ x \in Concerned(s[i].path, s[i].rm)}
<1>3. I \in SUBSET (1 .. Len(s))
    BY <1>2
<1>4. Noted(t, x) = Cardinality(I)
    BY DEF Noted
<1> HIDE DEF I, s
<1> QED
    BY <1>2, <1>3, <1>4, FS_Subset, FS_CardinalityType

LEMMA RequestTyped ==
    ASSUME Typed, NEW c \in Client, Request(c)
    PROVE  Typed'
<1>1. Registry'
    BY RequestRegistry DEF Typed
<1>2. Queue(events) /\ Books /\ Registry /\ events \in Seq(Event)
    BY DEF Typed, Queue
<1>3. ASSUME NEW p \in Path, NEW relative \in BOOLEAN, OpWatch(c, p, relative)
      PROVE  Queue(events)' /\ Books'
  <2>1. PICK w \in Watch :
            /\ events' = Append(events, [kind |-> "watch", key |-> p, cb |-> w, path |-> p])
            /\ Owe({<<w, Norm(p)>>})
      BY <1>3 DEF OpWatch
  <2> DEFINE e == [kind |-> "watch", key |-> p, cb |-> w, path |-> p]
  <2>2. e \in WatchEvent
      BY DEF WatchEvent
  <2>3. e \in Event /\ e # Again
      BY <2>2, EventMembers, Kinds
  <2>4. Queue(events')
    <3> HIDE DEF e
    <3>1. Queue(Append(events, e))
        BY <1>2, <2>3, QueueAppend
    <3> QED
        BY <2>1, <3>1 DEF e
  <2>5. owed' \in [Watch \X Path -> Nat]
      BY <1>2, <2>1, OweType
  <2> QED
      BY <1>2, <1>3, <2>4, <2>5 DEF OpWatch, Books
<1>4. ASSUME NEW p \in Path, OpUnwatch(c, p)
      PROVE  Queue(events)' /\ Books'
  <2>1. PICK w : DropWatches({w}, {})
      BY <1>4 DEF OpUnwatch
  <2>2. changes' \in [Tid -> Seq(Change)] /\ owed' \in [Watch \X Path -> Nat]
      BY <1>2, <2>1, DropType
  <2> QED
      BY <1>2, <1>4, <2>2 DEF OpUnwatch, Books
<1>5. ASSUME NEW p \in Path, NEW rm \in BOOLEAN, OpChange(c, p, rm)
      PROVE  Queue(events)' /\ Books'
  <2>1. Fires(db, p, rm) \in Seq(WatchEvent)
      BY <1>2, FiresType
  <2>2. Queue(events \o Fires(db, p, rm))
      BY <1>2, <2>1, QueueFires
  <2>3. owed' \in [Watch \X Path -> Nat]
      BY <1>2, <1>5, OweType DEF OpChange
  <2> QED
      BY <1>2, <1>5, <2>2, <2>3 DEF OpChange, Books
<1>6. ASSUME NEW d \in Domain, OpIntroduce(c, d)
      PROVE  Queue(events)' /\ Books'
  <2>1. Fires(db, Introduced, FALSE) \in Seq(WatchEvent)
      BY <1>2, FiresType, NamedPaths
  <2>2. Queue(events \o Fires(db, Introduced, FALSE))
      BY <1>2, <2>1, QueueFires
  <2>3. owed' \in [Watch \X Path -> Nat]
      BY <1>2, <1>6, OweType DEF OpIntroduce
  <2> QED
      BY <1>2, <1>6, <2>2, <2>3 DEF OpIntroduce, Books
<1>7. ASSUME NEW d \in Domain, OpRelease(c, d)
      PROVE  Queue(events)' /\ Books'
  <2> DEFINE ws == {w \in LiveWatches : watches[w].client = d}
             told == {x \in Concerned(Released, FALSE) : x[1] \notin ws}
             fired == Fires(Unregistered(ws), Released, FALSE)
  <2>1. DropWatches(ws, told) /\ events' = Expire(d) \o fired /\ UNCHANGED <<active, tdb, trans>>
      BY <1>7 DEF OpRelease
  <2>2. changes' \in [Tid -> Seq(Change)] /\ owed' \in [Watch \X Path -> Nat]
    <3> HIDE DEF ws, told
    <3> QED
        BY <1>2, <2>1, DropType
  <2>3. fired \in Seq(WatchEvent)
      BY <1>2, ReleaseFires
  <2>4. Queue(Expire(d) \o fired)
    <3> HIDE DEF fired
    <3> QED
        BY <1>2, <2>3, QueueExpire, QueueFires
  <2> HIDE DEF fired, ws, told
  <2> QED
      BY <1>2, <2>1, <2>2, <2>4 DEF Books
<1>8. ASSUME NEW t \in Tid, NEW p \in Path, NEW rm \in BOOLEAN, OpTransChange(c, t, p, rm)
      PROVE  Queue(events)' /\ Books'
  <2> DEFINE fired == Fires(db, p, rm)
             ch == [path |-> p, rm |-> rm, watchers |-> LiveWatches]
  <2>1. fired \in Seq(WatchEvent)
      BY <1>2, FiresType
  <2>2. ch \in Change
      BY DEF Change, LiveWatches
  <2>3. /\ tdb' = [tdb EXCEPT ![t] = tdb[t] \o fired]
        /\ changes' = [changes EXCEPT ![t] = Append(changes[t], ch)]
        /\ UNCHANGED <<active, events, trans, owed>>
      BY <1>8 DEF OpTransChange
  <2> HIDE DEF fired, ch
  <2>4. tdb[t] \o fired \in Seq(WatchEvent)
      BY <1>2, <2>1, ConcatType DEF Books
  <2>5. Append(changes[t], ch) \in Seq(Change)
      BY <1>2, <2>2 DEF Books
  <2>6. tdb' \in [Tid -> Seq(WatchEvent)] /\ changes' \in [Tid -> Seq(Change)]
      BY <1>2, <2>3, <2>4, <2>5 DEF Books
  <2> QED
      BY <1>2, <2>3, <2>6 DEF Books
<1>9. ASSUME NEW t \in Tid, OpTransactionStart(c, t)
      PROVE  Queue(events)' /\ Books'
    BY <1>2, <1>9 DEF OpTransactionStart, Books
<1>10. ASSUME NEW t \in Tid, EndTransaction(t), tdb' = [tdb EXCEPT ![t] = <<>>], UNCHANGED active
      PROVE  /\ tdb' \in [Tid -> Seq(WatchEvent)]
             /\ changes' \in [Tid -> Seq(Change)] /\ trans' \subseteq Tid /\ active' \in BOOLEAN
    BY <1>2, <1>10 DEF EndTransaction, Books
<1>11. ASSUME NEW t \in Tid, OpCommit(c, t)
      PROVE  Queue(events)' /\ Books'
  <2>1. Queue(events \o tdb[t])
      BY <1>2, QueueFires DEF Books
  <2>2. owed' \in [Watch \X Path -> Nat]
    <3>1. \A x \in Watch \X Path : Noted(t, x) \in Nat
        BY <1>2, NotedIsNat
    <3>2. \A x \in Watch \X Path : owed[x] \in Nat
        BY <1>2 DEF Books
    <3>3. owed' = [x \in Watch \X Path |-> owed[x] + Noted(t, x)]
        BY <1>11 DEF OpCommit
    <3> QED
        BY <3>1, <3>2, <3>3
  <2> QED
      BY <1>2, <1>10, <1>11, <2>1, <2>2 DEF OpCommit, Books
<1>12. ASSUME NEW t \in Tid, OpAbort(c, t)
      PROVE  Queue(events)' /\ Books'
    BY <1>2, <1>10, <1>12 DEF OpAbort, Books
<1>13. Queue(events)' /\ Books'
    BY <1>3, <1>4, <1>5, <1>6, <1>7, <1>8, <1>9, <1>11, <1>12, NamedPaths DEF Request
<1> QED
    BY <1>1, <1>13 DEF Typed

LEMMA InitTyped == Init => Typed
<1> SUFFICES ASSUME Init PROVE Queue(events) /\ Books
    BY InitRegistry DEF Typed
<1>1. events = <<Again>>
    BY DEF Init, Again
<1>2. Queue(<<Again>>)
    BY CountOne, EventMembers DEF Queue
<1>3. Books
    BY DEF Init, Books
<1> QED
    BY <1>1, <1>2, <1>3

LEMMA NextTyped == Typed /\ [Next]_vars => Typed'
<1> SUFFICES ASSUME Typed, [Next]_vars PROVE Typed'
    OBVIOUS
<1>1. CASE RunNext
    BY <1>1, RunTyped
<1>2. CASE IoFails
    BY <1>2, IoFailsTyped
<1>3. CASE Disable
    BY <1>3, NextRegistry DEF Next, Disable, Typed, Books
<1>4. CASE \E c \in Client : Request(c)
    BY <1>4, RequestTyped
<1>5. CASE UNCHANGED vars
    BY <1>5, NextRegistry DEF vars, Typed, Books
<1> QED
    BY <1>1, <1>2, <1>3, <1>4, <1>5 DEF Next

(* In every reachable state the queue, the database and the lists of the   *)
(* transactions are well formed, and the poll is in the queue exactly once *)
(* (epoll::handle queues itself again).                                    *)
THEOREM TypeCorrect == Spec => []TypeOK
BY TypedIsTypeOK, InitTyped, NextTyped, PTL DEF Spec

-----------------------------------------------------------------------------
(* Deaths in the queue.                                                    *)
LEMMA DeadEvents ==
    ASSUME NEW x \in Client
    PROVE  /\ Dead(x) \in Event
           /\ \A y \in Client : Dead(y) \in {Dead(x)} <=> y = x
           /\ \A e : e.kind # "dead" => e \notin {Dead(x)}
<1>1. \A y : Dead(y) = [kind |-> "dead", client |-> y]
    BY DEF Dead
<1>2. \A y : Dead(y).client = y /\ Dead(y).kind = "dead"
    BY <1>1
<1> QED
    BY <1>2, EventMembers

LEMMA DeathsOfTail ==
    ASSUME events \in Seq(Event), events # <<>>, Head(events).kind # "dead", NEW x \in Client
    PROVE  Count(Tail(events), {Dead(x)}) = Deaths(x)
<1>1. Head(events) \notin {Dead(x)}
    BY DeadEvents
<1>2. /\ Count(events, {Dead(x)}) =
             Count(Tail(events), {Dead(x)}) + (IF Head(events) \in {Dead(x)} THEN 1 ELSE 0)
      /\ Count(Tail(events), {Dead(x)}) \in Nat
    BY CountTail
<1> QED
    BY <1>1, <1>2 DEF Deaths

LEMMA DeathsOfAppend ==
    ASSUME NEW s \in Seq(Event), NEW y \in Client, NEW x \in Client
    PROVE  Count(Append(s, Dead(y)), {Dead(x)}) =
               Count(s, {Dead(x)}) + (IF x = y THEN 1 ELSE 0)
<1>1. Dead(y) \in Event /\ (Dead(y) \in {Dead(x)} <=> x = y)
    BY DeadEvents
<1>2. Count(Append(s, Dead(y)), {Dead(x)}) =
          Count(s, {Dead(x)}) + (IF Dead(y) \in {Dead(x)} THEN 1 ELSE 0)
    BY <1>1, CountAppend
<1> QED
    BY <1>1, <1>2

LEMMA DeathsOfFires ==
    ASSUME NEW s \in Seq(Event), NEW t \in Seq(WatchEvent), NEW x \in Client
    PROVE  Count(s \o t, {Dead(x)}) = Count(s, {Dead(x)})
<1>1. t \in Seq(Event)
    BY EventMembers, WiderSeq
<1>2. Count(t, {Dead(x)}) = 0
  <2>1. \A i \in DOMAIN t : t[i] \in WatchEvent
      OBVIOUS
  <2>2. \A i \in DOMAIN t : t[i] \notin {Dead(x)}
      BY <2>1, DeadEvents, Kinds
  <2> QED
      BY <2>2, CountNone
<1>3. Count(s \o t, {Dead(x)}) = Count(s, {Dead(x)}) + Count(t, {Dead(x)})
    BY <1>1, CountConcat
<1>4. Count(s, {Dead(x)}) \in Nat
    BY CountIsNat
<1> QED
    BY <1>2, <1>3, <1>4

LEMMA DeathsOfExpire ==
    ASSUME events \in Seq(Event), NEW c, NEW x \in Client
    PROVE  Count(Expire(c), {Dead(x)}) = Deaths(x)
<1>1. Io(c) \notin {Dead(x)} /\ [kind |-> "expired"] \notin {Dead(x)}
    BY DEF Io, Dead
<1> QED
    BY <1>1, ExpireCount DEF Deaths

LEMMA DeathsOfPoll ==
    ASSUME Typed, Poll, NEW x \in Client
    PROVE  Deaths(x)' = Deaths(x)
<1>1. PICK s \in SetToAllKPermutations(Ready) : events' = Append(Tail(events) \o s, Again)
    BY DEF Poll, Ready, Again
<1>2. events \in Seq(Event) /\ events # <<>> /\ Head(events).kind = "poll"
    BY RunningHead DEF Poll
<1>3. s \in Seq(Ready)
    BY ReadyOnes
<1>4. \A e \in Ready : e \in Event /\ e.kind # "dead"
  <2>1. \A c \in Alive : Io(c) \in Event /\ Io(c).kind # "dead"
      BY EventMembers, Kinds DEF Alive
  <2>2. [kind |-> "accept"] \in Event /\ [kind |-> "accept"].kind # "dead"
      BY EventMembers
  <2> QED
      BY <2>1, <2>2 DEF Ready
<1>5. s \in Seq(Event) /\ \A i \in DOMAIN s : s[i] \notin {Dead(x)}
    BY <1>3, <1>4, DeadEvents, WiderSeq
<1>6. Count(s, {Dead(x)}) = 0
    BY <1>5, CountNone
<1> DEFINE u == Tail(events)
<1>7. u \in Seq(Event) /\ Again \in Event /\ Again \notin {Dead(x)}
    BY <1>2, EventMembers, DeadEvents, Kinds
<1>8. Count(u, {Dead(x)}) = Deaths(x) /\ Count(u, {Dead(x)}) \in Nat
    BY <1>2, <1>7, DeathsOfTail, CountIsNat
<1> HIDE DEF u
<1>9. Count(Append(u \o s, Again), {Dead(x)}) = Count(u, {Dead(x)}) + Count(s, {Dead(x)}) + 0
    BY <1>5, <1>7, CountRound
<1>10. Count(Append(u \o s, Again), {Dead(x)}) = Deaths(x)
    BY <1>6, <1>8, <1>9
<1> QED
    BY <1>1, <1>10 DEF Deaths, u

(* A step after which no client is dead that was not, and no socket client *)
(* is not dead any more.                                                   *)
LEMMA NobodyDies ==
    ASSUME DeathQueued,
           \A x \in Client : /\ Deaths(x)' = Deaths(x)
                             /\ clients'[x] = "dead" => clients[x] = "dead",
           \A x \in Socket : clients[x] = "dead" => clients'[x] = "dead"
    PROVE  DeathQueued'
<1>1. Socket \subseteq Client
    BY DEF Client
<1> QED
    BY <1>1 DEF DeathQueued

LEMMA SomebodyDies ==
    ASSUME Typed, DeathQueued, events # <<>>, Head(events).kind # "dead",
           NEW c \in Client, clients[c] = "alive", Dies(c),
           events' = Append(Tail(events), Dead(c))
    PROVE  DeathQueued'
<1>1. events \in Seq(Event) /\ Tail(events) \in Seq(Event)
    BY DEF Typed, Queue
<1>2. ASSUME NEW x \in Client
      PROVE  Deaths(x)' = Deaths(x) + (IF x = c THEN 1 ELSE 0) /\ Deaths(x) \in Nat
  <2>1. Count(Append(Tail(events), Dead(c)), {Dead(x)}) =
            Count(Tail(events), {Dead(x)}) + (IF x = c THEN 1 ELSE 0)
    <3> DEFINE u == Tail(events)
    <3>1. u \in Seq(Event)
        BY <1>1
    <3> HIDE DEF u
    <3>2. Count(Append(u, Dead(c)), {Dead(x)}) = Count(u, {Dead(x)}) + (IF x = c THEN 1 ELSE 0)
        BY <3>1, DeathsOfAppend
    <3> QED
        BY <3>2 DEF u
  <2>2. Count(Tail(events), {Dead(x)}) = Deaths(x)
      BY <1>1, DeathsOfTail
  <2>3. Deaths(x) \in Nat
      BY <1>1, CountIsNat DEF Deaths
  <2>4. Deaths(x)' = Count(Append(Tail(events), Dead(c)), {Dead(x)})
      BY DEF Deaths
  <2> QED
      BY <2>1, <2>2, <2>3, <2>4
<1>3. \A x \in Client : clients'[x] = IF x = c THEN "dead" ELSE clients[x]
    BY DEF Dies, Typed, Registry, Shape
<1>4. Socket \subseteq Client
    BY DEF Client
<1>5. \A x \in Client : clients'[x] = "dead" => Deaths(x)' > 0
    BY <1>2, <1>3 DEF DeathQueued
<1>6. ASSUME NEW x \in Socket
      PROVE  Deaths(x)' = IF clients'[x] = "dead" THEN 1 ELSE 0
    BY <1>2, <1>3, <1>4 DEF DeathQueued
<1> QED
    BY <1>5, <1>6 DEF DeathQueued

LEMMA RunDeaths ==
    ASSUME Typed, DeathQueued, RunNext
    PROVE  DeathQueued'
<1>1. CASE Poll
    BY <1>1, DeathsOfPoll, NobodyDies DEF Poll
<1>2. CASE Accept
  <2>1. events \in Seq(Event) /\ events # <<>> /\ Head(events).kind # "dead"
      BY <1>2, RunningHead DEF Accept
  <2>2. \A x \in Client : Deaths(x)' = Deaths(x)
      BY <1>2, <2>1, DeathsOfTail DEF Accept, Deaths
  <2>3. \A x \in Client : clients'[x] = "dead" <=> clients[x] = "dead"
      BY <1>2 DEF Accept, Typed, Registry, Shape
  <2> QED
      BY <2>2, <2>3, NobodyDies DEF Client
<1>3. CASE IoDone
  <2>1. events \in Seq(Event) /\ events # <<>> /\ Head(events).kind # "dead"
      BY <1>3, RunningHead DEF IoDone
  <2>2. \A x \in Client : Deaths(x)' = Deaths(x)
      BY <1>3, <2>1, DeathsOfTail DEF IoDone, Deaths
  <2> QED
      BY <1>3, <2>2, NobodyDies DEF IoDone
<1>4. CASE RunWatch
  <2> DEFINE e == Head(events)
             c == watches[e.cb].client
  <2>1. events \in Seq(Event) /\ events # <<>> /\ e.kind = "watch"
      BY <1>4, RunningHead DEF RunWatch
  <2>2. CASE clients' = clients /\ events' = Tail(events)
    <3>1. \A x \in Client : Deaths(x)' = Deaths(x)
        BY <2>1, <2>2, DeathsOfTail DEF Deaths
    <3> QED
        BY <2>2, <3>1, NobodyDies
  <2>3. CASE /\ Deliverable(e) /\ clients[c] = "alive" /\ Dies(c)
             /\ events' = Append(Tail(events), Dead(c))
    <3>1. e \in WatchEvent
        BY <1>4, RunningHead, EventForms DEF RunWatch
    <3>2. c \in Client
        BY <2>3, <3>1, WatchEventFields, RegisteredIsLive, LiveFields DEF Deliverable, Typed
    <3> HIDE DEF c
    <3> QED
        BY <2>1, <2>3, <3>2, SomebodyDies
  <2> QED
      BY <1>4, <2>2, <2>3 DEF RunWatch
<1>5. CASE RunDead
  <2> DEFINE c == Head(events).client
  <2>1. /\ events \in Seq(Event) /\ events # <<>>
        /\ c \in Client /\ Head(events) = Dead(c)
      BY <1>5, RunningHead, EventForms DEF RunDead, Dead
  <2>2. events' = Tail(Expire(c)) /\ clients' = [clients EXCEPT ![c] = "none"]
      BY <1>5 DEF RunDead, Destroyed
  <2> HIDE DEF c
  <2>3. \A x \in Client : clients'[x] = IF x = c THEN "none" ELSE clients[x]
      BY <2>1, <2>2 DEF Typed, Registry, Shape
  <2>4. ASSUME NEW x \in Client
        PROVE  Deaths(x) = Deaths(x)' + (IF x = c THEN 1 ELSE 0) /\ Deaths(x)' \in Nat
    <3> DEFINE u == Expire(c)
    <3>1. u \in Seq(Event) /\ u # <<>> /\ Head(u) = Dead(c)
      <4>1. 1 \in DOMAIN events /\ Head(events) = events[1]
          BY <2>1
      <4>2. Expire(c)[1] = events[1]
          BY <2>1, <4>1, ExpireEffect DEF Io, Dead
      <4>3. Expire(c) \in Seq(Event) /\ 1 \in DOMAIN Expire(c)
          BY <2>1, <4>1, ExpireEffect
      <4> HIDE DEF u
      <4> QED
          BY <2>1, <4>1, <4>2, <4>3 DEF u
    <3>2. Count(u, {Dead(x)}) = Deaths(x)
        BY <2>1, DeathsOfExpire
    <3>3. Deaths(x)' = Count(Tail(u), {Dead(x)})
        BY <2>2 DEF Deaths
    <3> HIDE DEF u
    <3>4. /\ Count(u, {Dead(x)}) =
                Count(Tail(u), {Dead(x)}) + (IF Head(u) \in {Dead(x)} THEN 1 ELSE 0)
          /\ Count(Tail(u), {Dead(x)}) \in Nat
        BY <3>1, CountTail
    <3>5. Head(u) \in {Dead(x)} <=> x = c
        BY <2>1, <3>1, DeadEvents
    <3> QED
        BY <3>2, <3>3, <3>4, <3>5
  <2>5. \A x \in Client : clients'[x] = "dead" => Deaths(x)' > 0
      BY <2>3, <2>4 DEF DeathQueued
  <2>6. ASSUME NEW x \in Socket
        PROVE  Deaths(x)' = IF clients'[x] = "dead" THEN 1 ELSE 0
    <3>1. x \in Client
        BY DEF Client
    <3> QED
        BY <2>3, <2>4, <3>1 DEF DeathQueued
  <2> QED
      BY <2>5, <2>6 DEF DeathQueued
<1> QED
    BY <1>1, <1>2, <1>3, <1>4, <1>5 DEF RunNext

LEMMA RequestDeaths ==
    ASSUME Typed, DeathQueued, NEW c \in Client, Request(c)
    PROVE  DeathQueued'
<1>1. events \in Seq(Event) /\ Registry
    BY DEF Typed, Queue
<1>2. ASSUME UNCHANGED <<events, clients>>
      PROVE  DeathQueued'
    BY <1>2 DEF DeathQueued, Deaths
<1>3. ASSUME NEW t \in Seq(WatchEvent), events' = events \o t,
             \A x \in Client : clients'[x] = "dead" <=> clients[x] = "dead"
      PROVE  DeathQueued'
  <2>1. \A x \in Client : Deaths(x)' = Deaths(x)
      BY <1>1, <1>3, DeathsOfFires DEF Deaths
  <2> QED
      BY <1>3, <2>1, NobodyDies DEF Client
<1>4. ASSUME NEW p \in Path, NEW relative \in BOOLEAN, OpWatch(c, p, relative)
      PROVE  DeathQueued'
  <2>1. PICK w \in Watch : events' = Append(events, [kind |-> "watch", key |-> p, cb |-> w, path |-> p])
      BY <1>4 DEF OpWatch
  <2> DEFINE e == [kind |-> "watch", key |-> p, cb |-> w, path |-> p]
  <2>2. e \in WatchEvent
      BY DEF WatchEvent
  <2>3. e \in Event /\ e.kind # "dead"
      BY <2>2, EventMembers, Kinds
  <2>4. events' = Append(events, e)
      BY <2>1
  <2> HIDE DEF e
  <2>5. ASSUME NEW x \in Client
        PROVE  Deaths(x)' = Deaths(x)
    <3>1. e \notin {Dead(x)}
        BY <2>3, DeadEvents
    <3>2. Count(Append(events, e), {Dead(x)}) = Count(events, {Dead(x)}) + 0
        BY <1>1, <2>3, <3>1, CountAppend
    <3>3. Count(events, {Dead(x)}) \in Nat
        BY <1>1, CountIsNat
    <3> QED
        BY <2>4, <3>2, <3>3 DEF Deaths
  <2> QED
      BY <1>4, <2>5, NobodyDies DEF OpWatch
<1>5. ASSUME NEW p \in Path, NEW rm \in BOOLEAN, OpChange(c, p, rm)
      PROVE  DeathQueued'
    BY <1>1, <1>3, <1>5, FiresType DEF OpChange
<1>6. ASSUME NEW d \in Domain, OpIntroduce(c, d)
      PROVE  DeathQueued'
  <2>1. Fires(db, Introduced, FALSE) \in Seq(WatchEvent)
      BY <1>1, FiresType, NamedPaths
  <2>2. \A x \in Client : clients'[x] = "dead" <=> clients[x] = "dead"
      BY <1>6 DEF OpIntroduce, Created, Typed, Registry, Shape
  <2> QED
      BY <1>3, <1>6, <2>1, <2>2 DEF OpIntroduce
<1>7. ASSUME NEW d \in Domain, OpRelease(c, d)
      PROVE  DeathQueued'
  <2> DEFINE ws == {w \in LiveWatches : watches[w].client = d}
             fired == Fires(Unregistered(ws), Released, FALSE)
             u == Expire(d)
  <2>1. events' = u \o fired
      BY <1>7 DEF OpRelease
  <2>2. fired \in Seq(WatchEvent)
      BY <1>1, ReleaseFires
  <2>3. u \in Seq(Event)
      BY <1>1, ExpireEffect
  <2>4. \A x \in Client : Count(u, {Dead(x)}) = Deaths(x)
      BY <1>1, DeathsOfExpire
  <2>5. \A x \in Client : Deaths(x)' = Deaths(x)
    <3> HIDE DEF u, fired
    <3> QED
        BY <2>1, <2>2, <2>3, <2>4, DeathsOfFires DEF Deaths
  <2>6. \A x \in Client : clients'[x] = IF x = d THEN "none" ELSE clients[x]
      BY <1>7 DEF OpRelease, Destroyed, Typed, Registry, Shape
  <2>7. \A x \in Socket : x # d /\ x \in Client
      BY OtherAssumption DEF Client
  <2> QED
      BY <2>5, <2>6, <2>7, NobodyDies
<1>8. ASSUME NEW t \in Tid, OpCommit(c, t)
      PROVE  DeathQueued'
  <2>1. tdb[t] \in Seq(WatchEvent)
      BY DEF Typed, Books
  <2> QED
      BY <1>3, <1>8, <2>1 DEF OpCommit
<1>9. CASE \/ \E p \in Named \cup Special : OpUnwatch(c, p)
           \/ \E t \in Tid, p \in Named, rm \in BOOLEAN : OpTransChange(c, t, p, rm)
           \/ \E t \in Tid : OpTransactionStart(c, t) \/ OpAbort(c, t)
    BY <1>2, <1>9 DEF OpUnwatch, OpTransChange, OpTransactionStart, OpAbort
<1> QED
    BY <1>4, <1>5, <1>6, <1>7, <1>8, <1>9, NamedPaths DEF Request

(* A connection that is lost is queued for deletion until it is deleted,   *)
(* and one of a socket is queued once: never leaked, never deleted twice   *)
(* (conn_dead, client_dead, domain_dead).                                  *)
THEOREM DeathsAreQueued == Spec => []DeathQueued
<1>1. Init => DeathQueued
  <2> SUFFICES ASSUME Init PROVE DeathQueued
      OBVIOUS
  <2>1. events = <<Again>> /\ \A x \in Client : clients[x] = "none"
      BY DEF Init, Again
  <2>2. ASSUME NEW x \in Client
        PROVE  Count(<<Again>>, {Dead(x)}) = 0
    <3>1. Again \notin {Dead(x)}
        BY DEF Again, Dead
    <3> QED
        BY <3>1, CountOne
  <2> QED
      BY <2>1, <2>2 DEF DeathQueued, Deaths, Client
<1>2. Typed /\ DeathQueued /\ [Next]_vars => DeathQueued'
  <2> SUFFICES ASSUME Typed, DeathQueued, [Next]_vars PROVE DeathQueued'
      OBVIOUS
  <2>1. CASE RunNext
      BY <2>1, RunDeaths
  <2>2. CASE IoFails
    <3> DEFINE c == Head(events).client
    <3>1. /\ events # <<>> /\ Head(events).kind # "dead"
          /\ c \in Client /\ clients[c] = "alive" /\ Dies(c)
          /\ events' = Append(Tail(events), Dead(c))
        BY <2>2, RunningHead, EventForms DEF IoFails
    <3> HIDE DEF c
    <3> QED
        BY <3>1, SomebodyDies
  <2>3. CASE Disable
      BY <2>3 DEF Disable, DeathQueued, Deaths
  <2>4. CASE \E c \in Client : Request(c)
      BY <2>4, RequestDeaths
  <2>5. CASE UNCHANGED vars
      BY <2>5 DEF vars, DeathQueued, Deaths
  <2> QED
      BY <2>1, <2>2, <2>3, <2>4, <2>5 DEF Next
<1> QED
    BY <1>1, <1>2, InitTyped, NextTyped, PTL DEF Spec

-----------------------------------------------------------------------------
(* What is owed to a watch, and what is on its way.                        *)

(* Watches that are gone are owed nothing and watched nothing.             *)
NothingOwedToTheGone ==
    /\ \A w \in Watch, q \in Path : ~Live(w) => owed[w, q] = 0
    /\ \A t \in Tid : \A i \in DOMAIN changes[t] : changes[t][i].watchers \subseteq LiveWatches

(* The list of a transaction tells what the transaction changed.           *)
Listed(t, w, q) == Count(tdb[t], News(w, q))
ListsTell == \A t \in Tid, w \in Watch, q \in Path :
                 Plain(w) => Listed(t, w, q) >= Noted(t, <<w, q>>)
ListsTellOnce == \A t \in Tid, w \in Watch, q \in Path :
                     Plain(w) => Listed(t, w, q) = Noted(t, <<w, q>>)

(* The news of a watch on path r, whatever else is registered.             *)
NewsOn(w, q, r) ==
    {e \in WatchEvent : /\ e.cb = w /\ Norm(e.path) = q
                        /\ e.key = r \/ IsStrictPrefix(e.key, r)}

LEMMA NewsOfLive ==
    ASSUME Registry, NEW w \in Watch, Live(w), NEW q
    PROVE  News(w, q) = NewsOn(w, q, watches[w].path)
<1>1. ASSUME NEW e \in WatchEvent, e.cb = w
      PROVE  Deliverable(e) <=> e.key = watches[w].path \/ IsStrictPrefix(e.key, watches[w].path)
    BY <1>1, WatchEventFields, LiveFields DEF Deliverable
<1> QED
    BY <1>1 DEF News, NewsOn

(* Events that are news to nobody.                                         *)
LEMMA NewsOfTail ==
    ASSUME events \in Seq(Event), events # <<>>, Head(events).kind # "watch",
           NEW S \in SUBSET WatchEvent
    PROVE  Count(Tail(events), S) = Count(events, S)
<1>1. Head(events) \notin S
    BY Kinds
<1>2. /\ Count(events, S) = Count(Tail(events), S) + (IF Head(events) \in S THEN 1 ELSE 0)
      /\ Count(Tail(events), S) \in Nat
    BY CountTail
<1> QED
    BY <1>1, <1>2

LEMMA NewsOfAppend ==
    ASSUME NEW s \in Seq(Event), NEW e \in Event, e.kind # "watch",
           NEW S \in SUBSET WatchEvent
    PROVE  Count(Append(s, e), S) = Count(s, S)
<1>1. e \notin S
    BY Kinds
<1>2. Count(Append(s, e), S) = Count(s, S) + 0
    BY <1>1, CountAppend
<1>3. Count(s, S) \in Nat
    BY CountIsNat
<1> QED
    BY <1>2, <1>3

LEMMA NewsOfExpire ==
    ASSUME events \in Seq(Event), NEW c, NEW S \in SUBSET WatchEvent
    PROVE  Count(Expire(c), S) = Count(events, S)
<1>1. Io(c) \notin S /\ [kind |-> "expired"] \notin S
  <2>1. Io(c).kind = "io" /\ [kind |-> "expired"].kind = "expired"
      BY DEF Io
  <2> QED
      BY <2>1, Kinds
<1> QED
    BY <1>1, ExpireCount

LEMMA NewsOfPoll ==
    ASSUME Typed, Poll, NEW S \in SUBSET WatchEvent
    PROVE  Count(events', S) = Count(events, S)
<1>1. PICK s \in SetToAllKPermutations(Ready) : events' = Append(Tail(events) \o s, Again)
    BY DEF Poll, Ready, Again
<1>2. events \in Seq(Event) /\ events # <<>> /\ Head(events).kind = "poll"
    BY RunningHead DEF Poll
<1>3. s \in Seq(Ready)
    BY ReadyOnes
<1>4. \A e \in Ready : e \in Event /\ e.kind # "watch"
  <2>1. \A c \in Alive : Io(c) \in Event /\ Io(c).kind # "watch"
      BY EventMembers, Kinds DEF Alive
  <2>2. [kind |-> "accept"] \in Event /\ [kind |-> "accept"].kind # "watch"
      BY EventMembers
  <2> QED
      BY <2>1, <2>2 DEF Ready
<1>5. s \in Seq(Event) /\ \A i \in DOMAIN s : s[i] \notin S
    BY <1>3, <1>4, Kinds, WiderSeq
<1>6. Count(s, S) = 0
    BY <1>5, CountNone
<1> DEFINE u == Tail(events)
<1>7. u \in Seq(Event) /\ Again \in Event /\ Again \notin S
    BY <1>2, EventMembers, Kinds
<1>8. Count(u, S) = Count(events, S) /\ Count(u, S) \in Nat
    BY <1>2, <1>7, NewsOfTail, CountIsNat
<1> HIDE DEF u
<1>9. Count(Append(u \o s, Again), S) = Count(u, S) + Count(s, S) + 0
    BY <1>5, <1>7, CountRound
<1>10. Count(Append(u \o s, Again), S) = Count(events, S)
    BY <1>6, <1>8, <1>9
<1> QED
    BY <1>1, <1>10 DEF u

LEMMA NewsOfConcat ==
    ASSUME NEW s \in Seq(Event), NEW t \in Seq(WatchEvent), NEW S
    PROVE  /\ Count(s \o t, S) = Count(s, S) + Count(t, S)
           /\ Count(s, S) \in Nat /\ Count(t, S) \in Nat
<1>1. t \in Seq(Event)
    BY EventMembers, WiderSeq
<1> QED
    BY <1>1, CountConcat, CountIsNat

-----------------------------------------------------------------------------
(* What a transaction noted for a plain watch, in terms of its path alone. *)
NotedOn(list, w, q, r) ==
    {i \in DOMAIN list : w \in list[i].watchers /\ Concerns(list[i].path, list[i].rm, r, q)}

LEMMA NotedSame ==
    ASSUME NEW w \in Watch, NEW q \in Path, NEW t \in Tid, Plain(w), Plain(w)',
           watches'[w] = watches[w],
           DOMAIN changes'[t] = DOMAIN changes[t],
           \A i \in DOMAIN changes[t] :
               /\ changes'[t][i].path = changes[t][i].path
               /\ changes'[t][i].rm = changes[t][i].rm
               /\ w \in changes'[t][i].watchers <=> w \in changes[t][i].watchers
    PROVE  Noted(t, <<w, q>>)' = Noted(t, <<w, q>>)
<1>1. Noted(t, <<w, q>>) = Cardinality(NotedOn(changes[t], w, q, watches[w].path))
    BY DEF Noted, NotedOn, Concerned
<1>2. Noted(t, <<w, q>>)' = Cardinality(NotedOn(changes'[t], w, q, watches'[w].path))
    BY DEF Noted, NotedOn, Concerned
<1>3. NotedOn(changes[t], w, q, watches[w].path) = NotedOn(changes'[t], w, q, watches'[w].path)
    BY DEF NotedOn
<1> QED
    BY <1>1, <1>2, <1>3

-----------------------------------------------------------------------------
(* How a step moves what is on its way to a watch, and what is owed to it. *)

(* As many events are queued as changes are owed; or one event is handled; *)
(* or a transaction commits.                                               *)
Balanced(w, q) ==
    \/ \E k \in Nat : Pending(w, q)' = Pending(w, q) + k /\ owed'[w, q] = owed[w, q] + k
    \/ /\ Pending(w, q) = Pending(w, q)' + 1
       /\ owed'[w, q] = IF owed[w, q] = 0 THEN 0 ELSE owed[w, q] - 1
    \/ \E t \in Tid : /\ Pending(w, q)' = Pending(w, q) + Listed(t, w, q)
                      /\ owed'[w, q] = owed[w, q] + Noted(t, <<w, q>>)

(* The same for the list of a transaction, which may also be dropped.      *)
ListBalanced(t, w, q) ==
    \/ \E k \in Nat : /\ Listed(t, w, q)' = Listed(t, w, q) + k
                      /\ Noted(t, <<w, q>>)' = Noted(t, <<w, q>>) + k
    \/ Listed(t, w, q)' = 0 /\ Noted(t, <<w, q>>)' = 0

(* Watch w exists before and after the step, as the same watch.            *)
Stays(w) == Plain(w) /\ Plain(w)' /\ watches'[w] = watches[w]

LEMMA NewsOfStaying ==
    ASSUME Typed, Typed', NEW w \in Watch, NEW q \in Path, Stays(w)
    PROVE  /\ News(w, q)' = News(w, q) /\ News(w, q) \in SUBSET WatchEvent
           /\ Pending(w, q)' = Count(events', News(w, q))
           /\ \A t \in Tid : Listed(t, w, q)' = Count(tdb'[t], News(w, q))
           /\ Pending(w, q) \in Nat /\ Pending(w, q)' \in Nat /\ owed[w, q] \in Nat
           /\ \A t \in Tid : /\ Listed(t, w, q) \in Nat /\ Listed(t, w, q)' \in Nat
                             /\ tdb[t] \in Seq(WatchEvent)
<1>1. News(w, q) = NewsOn(w, q, watches[w].path)
    BY NewsOfLive DEF Typed, Stays, Plain
<1>2. News(w, q)' = NewsOn(w, q, watches'[w].path)
  <2>1. Registry' /\ Live(w)'
      BY DEF Typed, Stays, Plain
  <2>2. /\ \A k \in Path : w \in db'[k].path <=> k = watches'[w].path
        /\ \A k \in Path : w \in db'[k].children <=> IsStrictPrefix(k, watches'[w].path)
      BY <2>1 DEF Registry, RegistrationsExact, LiveWatches
  <2>3. ASSUME NEW e \in WatchEvent, e.cb = w
        PROVE  Deliverable(e)' <=>
                   e.key = watches'[w].path \/ IsStrictPrefix(e.key, watches'[w].path)
      BY <2>2, <2>3, WatchEventFields DEF Deliverable
  <2> QED
      BY <2>3 DEF News, NewsOn
<1>3. News(w, q)' = News(w, q) /\ News(w, q) \in SUBSET WatchEvent
    BY <1>1, <1>2 DEF Stays, News
<1>4. events \in Seq(Event) /\ events' \in Seq(Event)
    BY DEF Typed, Queue
<1>5. \A t \in Tid : tdb[t] \in Seq(WatchEvent) /\ tdb'[t] \in Seq(WatchEvent)
    BY DEF Typed, Books
<1>6. owed[w, q] \in Nat
    BY DEF Typed, Books
<1>7. Pending(w, q)' = Count(events', News(w, q)) /\ Pending(w, q) = Count(events, News(w, q))
    BY <1>3 DEF Pending
<1>8. \A t \in Tid : /\ Listed(t, w, q)' = Count(tdb'[t], News(w, q))
                     /\ Listed(t, w, q) = Count(tdb[t], News(w, q))
    BY <1>3 DEF Listed
<1>9. Pending(w, q) \in Nat /\ Pending(w, q)' \in Nat
    BY <1>4, <1>7, CountIsNat
<1>10. \A t \in Tid : Listed(t, w, q) \in Nat /\ Listed(t, w, q)' \in Nat
    BY <1>5, <1>8, CountIsNat
<1> QED
    BY <1>3, <1>5, <1>6, <1>7, <1>8, <1>9, <1>10

(* A step that queues k events for w and owes it k changes.                *)
LEMMA BalancedBy ==
    ASSUME Typed, Typed', NEW w \in Watch, NEW q \in Path, Stays(w), NEW k \in Nat,
           Count(events', News(w, q)) = Count(events, News(w, q)) + k,
           owed'[w, q] = owed[w, q] + k
    PROVE  Balanced(w, q)
<1>1. Pending(w, q)' = Pending(w, q) + k
    BY NewsOfStaying DEF Pending
<1> QED
    BY <1>1 DEF Balanced

LEMMA AddNothing == ASSUME NEW a, NEW b \in Nat, a = b PROVE a = b + 0
OBVIOUS

LEMMA BalancedByNone ==
    ASSUME Typed, Typed', NEW w \in Watch, NEW q \in Path, Stays(w),
           Count(events', News(w, q)) = Count(events, News(w, q)),
           owed'[w, q] = owed[w, q]
    PROVE  Balanced(w, q)
<1>1. Count(events, News(w, q)) \in Nat /\ owed[w, q] \in Nat
    BY NewsOfStaying DEF Pending
<1>2. Count(events', News(w, q)) = Count(events, News(w, q)) + 0
    BY <1>1, AddNothing
<1>3. owed'[w, q] = owed[w, q] + 0
    BY <1>1, AddNothing
<1> QED
    BY <1>2, <1>3, BalancedBy

(* A step that leaves the lists alone, but for watches that go.            *)
LEMMA ListsKept ==
    ASSUME Typed, Typed', NEW w \in Watch, NEW q \in Path, Stays(w), NEW t \in Tid,
           tdb'[t] = tdb[t], DOMAIN changes'[t] = DOMAIN changes[t],
           \A i \in DOMAIN changes[t] :
               /\ changes'[t][i].path = changes[t][i].path
               /\ changes'[t][i].rm = changes[t][i].rm
               /\ w \in changes'[t][i].watchers <=> w \in changes[t][i].watchers
    PROVE  ListBalanced(t, w, q)
<1>1. Noted(t, <<w, q>>)' = Noted(t, <<w, q>>)
    BY NotedSame DEF Stays
<1>2. Listed(t, w, q)' = Listed(t, w, q) /\ Listed(t, w, q) \in Nat
    BY NewsOfStaying DEF Listed
<1>3. Noted(t, <<w, q>>) \in Nat
    BY NotedIsNat DEF Typed
<1>4. /\ Listed(t, w, q)' = Listed(t, w, q) + 0
      /\ Noted(t, <<w, q>>)' = Noted(t, <<w, q>>) + 0
    BY <1>1, <1>2, <1>3
<1> QED
    BY <1>4 DEF ListBalanced

LEMMA ListsUntouched ==
    ASSUME Typed, Typed', NEW w \in Watch, NEW q \in Path, Stays(w), NEW t \in Tid,
           tdb'[t] = tdb[t], changes'[t] = changes[t]
    PROVE  ListBalanced(t, w, q)
BY ListsKept

LEMMA Unwatched ==
    ASSUME NEW ch \in Change, NEW ws
    PROVE  /\ [ch EXCEPT !.watchers = @ \ ws].path = ch.path
           /\ [ch EXCEPT !.watchers = @ \ ws].rm = ch.rm
           /\ [ch EXCEPT !.watchers = @ \ ws].watchers = ch.watchers \ ws
BY DEF Change

LEMMA ListsAfterDrop ==
    ASSUME Typed, Typed', NEW w \in Watch, NEW q \in Path, Stays(w), NEW t \in Tid,
           UNCHANGED tdb, NEW ws, NEW told, DropWatches(ws, told), w \notin ws
    PROVE  ListBalanced(t, w, q)
<1>1. changes'[t] = [i \in DOMAIN changes[t] |-> [changes[t][i] EXCEPT !.watchers = @ \ ws]]
    BY DEF DropWatches
<1>2. changes[t] \in Seq(Change)
    BY DEF Typed, Books
<1>3. ASSUME NEW i \in DOMAIN changes[t]
      PROVE  /\ changes'[t][i].path = changes[t][i].path
             /\ changes'[t][i].rm = changes[t][i].rm
             /\ w \in changes'[t][i].watchers <=> w \in changes[t][i].watchers
  <2> DEFINE ch == changes[t][i]
  <2>1. ch \in Change
      BY <1>2
  <2>2. changes'[t][i] = [ch EXCEPT !.watchers = @ \ ws]
      BY <1>1
  <2> HIDE DEF ch
  <2>3. /\ changes'[t][i].path = ch.path
        /\ changes'[t][i].rm = ch.rm
        /\ changes'[t][i].watchers = ch.watchers \ ws
      BY <2>1, <2>2, Unwatched
  <2> QED
      BY <2>3 DEF ch
<1>4. DOMAIN changes'[t] = DOMAIN changes[t]
    BY <1>1
<1> QED
    BY <1>3, <1>4, ListsKept

-----------------------------------------------------------------------------
(* Watches come and go one by one, and what is gone is owed nothing.       *)
LEMMA DropGone ==
    ASSUME Typed, NothingOwedToTheGone, NEW ws, NEW told, DropWatches(ws, told),
           \A x \in told : Live(x[1])
    PROVE  NothingOwedToTheGone'
<1>1. ASSUME NEW w \in Watch, NEW q \in Path, ~Live(w)'
      PROVE  owed'[w, q] = 0
  <2>1. w \in ws \/ ~Live(w)
      BY <1>1 DEF DropWatches, Live
  <2>2. owed'[w, q] = IF w \in ws THEN 0 ELSE owed[w, q] + (IF <<w, q>> \in told THEN 1 ELSE 0)
      BY DEF DropWatches
  <2>3. ~Live(w) => <<w, q>> \notin told /\ owed[w, q] = 0
      BY DEF NothingOwedToTheGone
  <2> DEFINE a == owed[w, q]
             b == owed'[w, q]
             c == <<w, q>> \in told
  <2> HIDE DEF a, b, c
  <2>4. b = IF w \in ws THEN 0 ELSE a + (IF c THEN 1 ELSE 0)
      BY <2>2 DEF a, b, c
  <2>5. ~Live(w) => ~c /\ a = 0
      BY <2>3 DEF a, c
  <2>6. b = 0
      BY <2>1, <2>4, <2>5
  <2> QED
      BY <2>6 DEF b
<1>2. ASSUME NEW t \in Tid, NEW i \in DOMAIN changes'[t]
      PROVE  changes'[t][i].watchers \subseteq LiveWatches'
  <2>1. changes'[t] = [j \in DOMAIN changes[t] |-> [changes[t][j] EXCEPT !.watchers = @ \ ws]]
      BY DEF DropWatches
  <2>2. i \in DOMAIN changes[t] /\ changes[t] \in Seq(Change)
      BY <1>2, <2>1 DEF Typed, Books
  <2> DEFINE ch == changes[t][i]
  <2>3. ch \in Change /\ ch.watchers \subseteq LiveWatches
    <3>1. ch \in Change
        BY <2>2
    <3>2. ch.watchers \subseteq LiveWatches
        BY <2>2 DEF NothingOwedToTheGone
    <3> QED
        BY <3>1, <3>2
  <2>4. changes'[t][i] = [ch EXCEPT !.watchers = @ \ ws]
      BY <2>1, <2>2
  <2> HIDE DEF ch
  <2>5. changes'[t][i].watchers = ch.watchers \ ws
      BY <2>3, <2>4, Unwatched
  <2>6. \A w \in Watch : w \in LiveWatches \ ws => w \in LiveWatches'
      BY DEF DropWatches, LiveWatches, Live
  <2> QED
      BY <2>3, <2>5, <2>6 DEF LiveWatches
<1> QED
    BY <1>1, <1>2 DEF NothingOwedToTheGone

LEMMA SameGone ==
    ASSUME NothingOwedToTheGone, UNCHANGED <<watches, changes>>,
           \A w \in Watch, q \in Path : ~Live(w) => owed'[w, q] = owed[w, q]
    PROVE  NothingOwedToTheGone'
BY DEF NothingOwedToTheGone, Live, LiveWatches

LEMMA NothingAdded == ASSUME NEW a, NEW b \in Nat, a = b + 0 PROVE a = b
OBVIOUS

LEMMA OweGone ==
    ASSUME Typed, NEW xs, Owe(xs), \A x \in xs : Live(x[1])
    PROVE  \A w \in Watch, q \in Path : ~Live(w) => owed'[w, q] = owed[w, q]
<1> SUFFICES ASSUME NEW w \in Watch, NEW q \in Path, ~Live(w)
             PROVE  owed'[w, q] = owed[w, q]
    OBVIOUS
<1>1. <<w, q>> \notin xs
    BY Zenon
<1>2. owed'[w, q] = owed[w, q] + (IF <<w, q>> \in xs THEN 1 ELSE 0)
    BY DEF Owe
<1>3. owed'[w, q] = owed[w, q] + 0
    BY <1>1, <1>2
<1>4. owed[w, q] \in Nat
    BY DEF Typed, Books
<1> QED
    BY <1>3, <1>4, NothingAdded

LEMMA ConcernedLive ==
    ASSUME NEW p, NEW rm, NEW x \in Concerned(p, rm)
    PROVE  Live(x[1]) /\ x \in Watch \X Path
BY DEF Concerned, Plain

LEMMA NoIndex == ASSUME NEW i \in DOMAIN <<>> PROVE FALSE
OBVIOUS

LEMMA EndGone ==
    ASSUME Typed, NothingOwedToTheGone, NEW t \in Tid, EndTransaction(t), UNCHANGED watches,
           \A w \in Watch, q \in Path : ~Live(w) => owed'[w, q] = owed[w, q]
    PROVE  NothingOwedToTheGone'
<1>1. ASSUME NEW u \in Tid, NEW i \in DOMAIN changes'[u]
      PROVE  changes'[u][i].watchers \subseteq LiveWatches'
  <2>1. changes'[u] = IF u = t THEN <<>> ELSE changes[u]
      BY DEF EndTransaction, Typed, Books
  <2>2. u # t
      BY <1>1, <2>1, NoIndex
  <2> QED
      BY <1>1, <2>1, <2>2 DEF NothingOwedToTheGone, LiveWatches, Live
<1> QED
    BY <1>1 DEF NothingOwedToTheGone, Live

LEMMA CommitGone ==
    ASSUME Typed, NEW t \in Tid, owed' = [x \in Watch \X Path |-> owed[x] + Noted(t, x)]
    PROVE  \A w \in Watch, q \in Path : ~Live(w) => owed'[w, q] = owed[w, q]
<1> SUFFICES ASSUME NEW w \in Watch, NEW q \in Path, ~Live(w)
             PROVE  owed'[w, q] = owed[w, q]
    OBVIOUS
<1>1. \A p, rm : <<w, q>> \notin Concerned(p, rm)
    BY DEF Concerned, Plain
<1>2. Noted(t, <<w, q>>) = Cardinality({})
    BY <1>1 DEF Noted
<1>3. owed'[w, q] = owed[w, q] + 0
    BY <1>2, FS_EmptySet
<1>4. owed[w, q] \in Nat
    BY DEF Typed, Books
<1> QED
    BY <1>3, <1>4, NothingAdded

LEMMA WatchGone ==
    ASSUME Typed, NothingOwedToTheGone, NEW c \in Client, NEW p \in Path,
           NEW relative \in BOOLEAN, OpWatch(c, p, relative)
    PROVE  NothingOwedToTheGone'
<1>1. PICK v \in Watch \ LiveWatches :
          /\ watches' = [watches EXCEPT ![v] = [client |-> c, path |-> p, relative |-> relative]]
          /\ Owe({<<v, Norm(p)>>})
    BY DEF OpWatch
<1>2. /\ \A w \in Watch : w # v => (Live(w)' <=> Live(w))
      /\ Live(v)'
  <2>1. watches \in [Watch -> WatchCb \cup {NoWatch}]
      BY DEF Typed, Registry, Shape
  <2>2. [client |-> c, path |-> p, relative |-> relative] # NoWatch
      BY NoWatchIsNoCb, NamedPaths DEF WatchCb
  <2> QED
      BY <1>1, <2>1, <2>2 DEF Live
<1>3. ASSUME NEW w \in Watch, NEW q \in Path, ~Live(w)'
      PROVE  owed'[w, q] = 0
  <2>1. w # v /\ ~Live(w)
      BY <1>2, <1>3
  <2>2. <<w, q>> \notin {<<v, Norm(p)>>}
      BY <2>1
  <2>3. owed[w, q] = 0
      BY <2>1 DEF NothingOwedToTheGone
  <2>4. owed'[w, q] = owed[w, q] + (IF <<w, q>> \in {<<v, Norm(p)>>} THEN 1 ELSE 0)
      BY <1>1 DEF Owe
  <2>5. owed'[w, q] = owed[w, q] + 0
      BY <2>2, <2>4
  <2>6. owed[w, q] \in Nat
      BY DEF Typed, Books
  <2>7. owed'[w, q] = owed[w, q]
      BY <2>5, <2>6, NothingAdded
  <2> QED
      BY <2>3, <2>7
<1>4. LiveWatches \subseteq LiveWatches' /\ changes' = changes
    BY <1>2 DEF LiveWatches, OpWatch
<1> QED
    BY <1>3, <1>4 DEF NothingOwedToTheGone

LEMMA TransChangeGone ==
    ASSUME Typed, NothingOwedToTheGone, NEW c \in Client, NEW t \in Tid, NEW p \in Path,
           NEW rm \in BOOLEAN, OpTransChange(c, t, p, rm)
    PROVE  NothingOwedToTheGone'
<1> DEFINE ch == [path |-> p, rm |-> rm, watchers |-> LiveWatches]
<1>1. /\ changes' = [changes EXCEPT ![t] = Append(changes[t], ch)]
      /\ UNCHANGED <<watches, owed>>
    BY DEF OpTransChange
<1>2. ch.watchers = LiveWatches
    OBVIOUS
<1>3. ASSUME NEW u \in Tid, NEW i \in DOMAIN changes'[u]
      PROVE  changes'[u][i].watchers \subseteq LiveWatches
  <2> HIDE DEF ch
  <2> DEFINE s == changes[t]
  <2>1. changes'[u] = IF u = t THEN Append(s, ch) ELSE changes[u]
      BY <1>1 DEF Typed, Books
  <2>2. s \in Seq(Change) /\ \A j \in DOMAIN s : s[j].watchers \subseteq LiveWatches
      BY DEF NothingOwedToTheGone, Typed, Books
  <2> HIDE DEF s
  <2>3. ASSUME NEW j \in DOMAIN Append(s, ch)
        PROVE  Append(s, ch)[j].watchers \subseteq LiveWatches
      BY <1>2, <2>2
  <2> QED
      BY <1>3, <2>1, <2>3 DEF NothingOwedToTheGone
<1>4. LiveWatches' = LiveWatches /\ \A w \in Watch : Live(w)' <=> Live(w)
    BY <1>1 DEF LiveWatches, Live
<1> QED
    BY <1>1, <1>3, <1>4 DEF NothingOwedToTheGone

LEMMA RunWatchGone ==
    ASSUME Typed, NothingOwedToTheGone, RunWatch
    PROVE  NothingOwedToTheGone'
<1> DEFINE e == Head(events)
<1>1. UNCHANGED <<watches, changes>>
    BY DEF RunWatch
<1>2. e \in WatchEvent
    BY RunningHead, EventForms DEF RunWatch
<1>3. CASE ~Deliverable(e)
    BY <1>1, <1>3, SameGone DEF RunWatch
<1>4. CASE Deliverable(e)
  <2>1. e.cb \in Watch /\ Live(e.cb)
      BY <1>2, <1>4, WatchEventFields, RegisteredIsLive DEF Deliverable, Typed
  <2>2. Settle(e.cb, e.path)
      BY <1>4 DEF RunWatch
  <2>3. ASSUME NEW w \in Watch, NEW q \in Path, ~Live(w)
        PROVE  owed'[w, q] = owed[w, q]
    <3> HIDE DEF e
    <3>1. <<w, q>> # <<e.cb, Norm(e.path)>>
        BY <2>1, <2>3
    <3> QED
        BY <2>2, <3>1 DEF Settle, Typed, Books
  <2> QED
      BY <1>1, <2>3, SameGone
<1> QED
    BY <1>3, <1>4

LEMMA NextGone == Typed /\ NothingOwedToTheGone /\ [Next]_vars => NothingOwedToTheGone'
<1> SUFFICES ASSUME Typed, NothingOwedToTheGone, [Next]_vars PROVE NothingOwedToTheGone'
    OBVIOUS
<1>1. ASSUME UNCHANGED <<watches, changes, owed>>
      PROVE  NothingOwedToTheGone'
    BY <1>1, SameGone
<1>2. ASSUME UNCHANGED <<watches, changes>>, NEW p, NEW rm, Owe(Concerned(p, rm))
      PROVE  NothingOwedToTheGone'
    BY <1>2, SameGone, OweGone, ConcernedLive
<1>3. CASE RunNext
  <2>1. CASE RunDead
    <3>1. PICK ws : DropWatches(ws, {})
        BY <2>1 DEF RunDead
    <3> QED
        BY <3>1, DropGone
  <2> QED
      BY <1>1, <1>3, <2>1, RunWatchGone DEF RunNext, Poll, Accept, IoDone
<1>4. ASSUME NEW c \in Client, Request(c)
      PROVE  NothingOwedToTheGone'
  <2>1. ASSUME NEW p \in Path, OpUnwatch(c, p)
        PROVE  NothingOwedToTheGone'
    <3>1. PICK w : DropWatches({w}, {})
        BY <2>1 DEF OpUnwatch
    <3> QED
        BY <3>1, DropGone
  <2>2. ASSUME NEW d \in Domain, OpRelease(c, d)
        PROVE  NothingOwedToTheGone'
    <3>1. PICK ws : DropWatches(ws, {x \in Concerned(Released, FALSE) : x[1] \notin ws})
        BY <2>2 DEF OpRelease
    <3>2. \A x \in {x \in Concerned(Released, FALSE) : x[1] \notin ws} : Live(x[1])
        BY ConcernedLive
    <3> QED
        BY <3>1, <3>2, DropGone
  <2>3. ASSUME NEW t \in Tid, OpCommit(c, t)
        PROVE  NothingOwedToTheGone'
      BY <2>3, CommitGone, EndGone DEF OpCommit
  <2>4. ASSUME NEW t \in Tid, OpAbort(c, t)
        PROVE  NothingOwedToTheGone'
      BY <2>4, EndGone DEF OpAbort
  <2>5. ASSUME NEW p \in Path, NEW rm \in BOOLEAN, OpChange(c, p, rm)
        PROVE  NothingOwedToTheGone'
      BY <1>2, <2>5 DEF OpChange
  <2>6. ASSUME NEW d \in Domain, OpIntroduce(c, d)
        PROVE  NothingOwedToTheGone'
      BY <1>2, <2>6 DEF OpIntroduce
  <2>7. ASSUME NEW t \in Tid, OpTransactionStart(c, t)
        PROVE  NothingOwedToTheGone'
      BY <1>1, <2>7 DEF OpTransactionStart
  <2> QED
      BY <1>4, <2>1, <2>2, <2>3, <2>4, <2>5, <2>6, <2>7, WatchGone, TransChangeGone, NamedPaths
         DEF Request
<1> QED
    BY <1>1, <1>3, <1>4 DEF Next, IoFails, Disable, vars

-----------------------------------------------------------------------------
(* Every action tells a watch that stays as much as it owes it.            *)
Told(w, q) == Balanced(w, q) /\ \A t \in Tid : ListBalanced(t, w, q)

(* Events queued for a change.                                             *)
LEMMA QueuedBalanced ==
    ASSUME Typed, Typed', NEW w \in Watch, NEW q \in Path, Stays(w),
           NEW s \in Seq(Event), NEW t \in Seq(WatchEvent), NEW k \in Nat, events' = s \o t,
           Count(s, News(w, q)) = Count(events, News(w, q)),
           Count(t, News(w, q)) = k, owed'[w, q] = owed[w, q] + k
    PROVE  Balanced(w, q)
<1>1. Count(s \o t, News(w, q)) = Count(s, News(w, q)) + Count(t, News(w, q))
    BY NewsOfConcat
<1> QED
    BY <1>1, BalancedBy

LEMMA ChangeTold ==
    ASSUME Typed, Typed', NEW w \in Watch, NEW q \in Path, Stays(w),
           NEW p \in Path, NEW rm \in BOOLEAN, events' = events \o Fires(db, p, rm),
           Owe(Concerned(p, rm)), UNCHANGED <<tdb, changes>>
    PROVE  Told(w, q)
<1> DEFINE k == IF <<w, q>> \in Concerned(p, rm) THEN 1 ELSE 0
           fired == Fires(db, p, rm)
<1>1. Registry /\ Plain(w) /\ db \in DbType /\ Live(w)
    BY DEF Typed, Stays, Registry, Shape, DbType, Plain
<1>2. /\ \A r \in Path : w \in db[r].path <=> r = watches[w].path
      /\ \A r \in Path : w \in db[r].children <=> IsStrictPrefix(r, watches[w].path)
      /\ \A v \in db[p].children : watches[v].path \in Path
    BY <1>1, LiveFields, RegisteredIsLive
<1>3. Count(fired, News(w, q)) = k
    BY <1>1, <1>2, FiresNews
<1>4. fired \in Seq(WatchEvent) /\ events \in Seq(Event)
    BY <1>1, FiresType DEF Typed, Queue
<1>5. owed'[w, q] = owed[w, q] + k
    BY DEF Owe
<1>6. k \in Nat
    OBVIOUS
<1>7. Balanced(w, q)
  <2> HIDE DEF k, fired
  <2>1. events' = events \o fired
      BY DEF fired
  <2> QED
      BY <1>3, <1>4, <1>5, <1>6, <2>1, QueuedBalanced
<1> QED
    BY <1>7, ListsUntouched DEF Told

LEMMA QuietTold ==
    ASSUME Typed, Typed', NEW w \in Watch, NEW q \in Path, Stays(w),
           Count(events', News(w, q)) = Count(events, News(w, q)),
           UNCHANGED <<owed, tdb, changes>>
    PROVE  Told(w, q)
BY BalancedByNone, ListsUntouched DEF Told

(* A watch that stays was not dropped.                                     *)
LEMMA NotDropped ==
    ASSUME Typed, NEW w \in Watch, NEW q \in Path, Stays(w), NEW ws, NEW told,
           DropWatches(ws, told)
    PROVE  /\ w \notin ws
           /\ owed'[w, q] = owed[w, q] + (IF <<w, q>> \in told THEN 1 ELSE 0)
<1>1. Live(w)' /\ RegistrationsExact /\ Shape
    BY DEF Stays, Plain, Typed, Registry
<1>2. w \notin ws
    BY <1>1, DropKeepsRegistrations
<1>3. owed'[w, q] = IF w \in ws THEN 0 ELSE owed[w, q] + (IF <<w, q>> \in told THEN 1 ELSE 0)
    BY DEF DropWatches
<1> QED
    BY <1>2, <1>3

LEMMA NotDroppedQuietly ==
    ASSUME Typed, NEW w \in Watch, NEW q \in Path, Stays(w), NEW ws, DropWatches(ws, {})
    PROVE  w \notin ws /\ owed'[w, q] = owed[w, q]
<1> DEFINE none == {}
<1>0. DropWatches(ws, none) /\ <<w, q>> \notin none
    OBVIOUS
<1> HIDE DEF none
<1>1. w \notin ws /\ owed'[w, q] = owed[w, q] + (IF <<w, q>> \in none THEN 1 ELSE 0)
    BY <1>0, NotDropped
<1>2. owed'[w, q] = owed[w, q] + 0
    BY <1>0, <1>1
<1>3. owed[w, q] \in Nat
    BY DEF Typed, Books
<1> QED
    BY <1>1, <1>2, <1>3, NothingAdded

LEMMA ExpireHead ==
    ASSUME events \in Seq(Event), NEW c, Running("dead")
    PROVE  Expire(c) # <<>> /\ Head(Expire(c)) = Head(events) /\ Head(events).kind = "dead"
<1>1. events # <<>> /\ Head(events).kind = "dead"
    BY DEF Running
<1>2. 1 \in DOMAIN events /\ Head(events) = events[1]
    BY <1>1
<1>3. Expire(c)[1] = events[1]
    BY <1>1, <1>2, ExpireEffect, Kinds
<1>4. Expire(c) \in Seq(Event) /\ 1 \in DOMAIN Expire(c)
    BY <1>2, ExpireEffect
<1> DEFINE u == Expire(c)
<1>5. u \in Seq(Event) /\ 1 \in DOMAIN u
    BY <1>4
<1> HIDE DEF u
<1>6. u # <<>> /\ Head(u) = u[1]
    BY <1>5
<1> QED
    BY <1>1, <1>2, <1>3, <1>6 DEF u

LEMMA RunDeadTold ==
    ASSUME Typed, Typed', NEW w \in Watch, NEW q \in Path, Stays(w), RunDead
    PROVE  Told(w, q)
<1> DEFINE c == Head(events).client
           u == Expire(c)
           N == News(w, q)
<1>1. PICK ws : DropWatches(ws, {})
    BY DEF RunDead
<1>2. w \notin ws /\ owed'[w, q] = owed[w, q]
    BY <1>1, NotDroppedQuietly
<1>3. events \in Seq(Event) /\ Running("dead") /\ events' = Tail(u) /\ UNCHANGED tdb
    BY DEF RunDead, Typed, Queue
<1>4. N \in SUBSET WatchEvent
    BY DEF News
<1>5. Count(u, N) = Count(events, N)
    BY <1>3, <1>4, NewsOfExpire
<1>6. u # <<>> /\ u \in Seq(Event) /\ Head(u) \notin N
    BY <1>3, <1>4, ExpireHead, ExpireEffect, Kinds
<1>7. Count(Tail(u), N) = Count(u, N)
  <2> HIDE DEF u, N
  <2>1. /\ Count(u, N) = Count(Tail(u), N) + (IF Head(u) \in N THEN 1 ELSE 0)
        /\ Count(Tail(u), N) \in Nat
      BY <1>6, CountTail
  <2> QED
      BY <1>6, <2>1
<1>8. Balanced(w, q)
  <2>1. Count(events', N) = Count(events, N)
    <3> HIDE DEF u, N
    <3> QED
        BY <1>3, <1>5, <1>7
  <2> QED
      BY <1>2, <2>1, BalancedByNone
<1>9. \A t \in Tid : ListBalanced(t, w, q)
    BY <1>1, <1>2, <1>3, ListsAfterDrop
<1> QED
    BY <1>8, <1>9 DEF Told

LEMMA RunWatchTold ==
    ASSUME Typed, Typed', NEW w \in Watch, NEW q \in Path, Stays(w), RunWatch
    PROVE  Told(w, q)
<1> DEFINE e == Head(events)
           u == Tail(events)
           N == News(w, q)
<1>1. UNCHANGED <<tdb, changes>> /\ events \in Seq(Event) /\ events # <<>> /\ u \in Seq(Event)
    BY RunningHead DEF RunWatch
<1>2. e \in WatchEvent
    BY RunningHead, EventForms DEF RunWatch
<1>3. N \in SUBSET WatchEvent
    BY DEF News
<1>4. /\ Count(events, N) = Count(u, N) + (IF e \in N THEN 1 ELSE 0)
      /\ Count(u, N) \in Nat
    BY <1>1, CountTail
<1>5. Count(events', N) = Count(u, N)
  <2>1. CASE events' = u
      BY <2>1
  <2>2. CASE events' # u
    <3> DEFINE d == Dead(watches[e.cb].client)
    <3>1. Deliverable(e) /\ events' = Append(u, d)
        BY <2>2 DEF RunWatch
    <3>2. e.cb \in Watch /\ Live(e.cb)
        BY <1>2, <3>1, WatchEventFields, RegisteredIsLive DEF Deliverable, Typed
    <3>3. d \in Event /\ d.kind # "watch"
      <4>1. watches[e.cb].client \in Client
          BY <3>2, LiveFields DEF Typed
      <4>2. d.kind = "dead"
          BY Kinds
      <4> QED
          BY <4>1, <4>2, EventMembers
    <3> HIDE DEF d, u, N
    <3>4. Count(Append(u, d), N) = Count(u, N)
        BY <1>1, <1>3, <3>3, NewsOfAppend
    <3> QED
        BY <3>1, <3>4
  <2> QED
      BY <2>1, <2>2
<1>6. CASE e \in N
  <2>1. Deliverable(e) /\ e.cb = w /\ Norm(e.path) = q
      BY <1>6 DEF News
  <2>2. Settle(w, e.path)
      BY <2>1 DEF RunWatch
  <2>3. owed'[w, q] = IF owed[w, q] = 0 THEN 0 ELSE owed[w, q] - 1
      BY <2>1, <2>2 DEF Settle, Typed, Books
  <2>4. Pending(w, q) = Pending(w, q)' + 1
    <3>1. Pending(w, q)' = Count(events', N) /\ Pending(w, q) = Count(events, N)
        BY NewsOfStaying DEF Pending
    <3> HIDE DEF N, u, e
    <3> QED
        BY <1>4, <1>5, <1>6, <3>1
  <2> QED
      BY <1>1, <2>3, <2>4, ListsUntouched DEF Told, Balanced
<1>7. CASE e \notin N
  <2>1. Count(events', N) = Count(events, N)
    <3> HIDE DEF N, u, e
    <3> QED
        BY <1>4, <1>5, <1>7
  <2>2. owed'[w, q] = owed[w, q]
    <3>1. CASE ~Deliverable(e)
        BY <3>1 DEF RunWatch
    <3>2. CASE Deliverable(e)
      <4>1. Settle(e.cb, e.path)
          BY <3>2 DEF RunWatch
      <4>2. ~(e.cb = w /\ Norm(e.path) = q)
          BY <1>2, <1>7, <3>2 DEF News
      <4> HIDE DEF e
      <4>3. <<w, q>> # <<e.cb, Norm(e.path)>>
          BY <4>2
      <4> QED
          BY <4>1, <4>3 DEF Settle, Typed, Books
    <3> QED
        BY <3>1, <3>2
  <2> QED
      BY <1>1, <2>1, <2>2, BalancedByNone, ListsUntouched DEF Told
<1> QED
    BY <1>6, <1>7

LEMMA UnwatchTold ==
    ASSUME Typed, Typed', NEW w \in Watch, NEW q \in Path, Stays(w),
           NEW c, NEW p, OpUnwatch(c, p)
    PROVE  Told(w, q)
<1>1. PICK v : DropWatches({v}, {})
    BY DEF OpUnwatch
<1> DEFINE ws == {v}
<1>2. DropWatches(ws, {})
    BY <1>1
<1> HIDE DEF ws
<1>3. w \notin ws /\ owed'[w, q] = owed[w, q]
    BY <1>2, NotDroppedQuietly
<1>4. events' = events /\ UNCHANGED tdb
    BY DEF OpUnwatch
<1>5. Balanced(w, q)
    BY <1>3, <1>4, BalancedByNone
<1>6. \A t \in Tid : ListBalanced(t, w, q)
    BY <1>2, <1>3, <1>4, ListsAfterDrop
<1> QED
    BY <1>5, <1>6 DEF Told

LEMMA ReleaseTold ==
    ASSUME Typed, Typed', NEW w \in Watch, NEW q \in Path, Stays(w),
           NEW c, NEW d, OpRelease(c, d)
    PROVE  Told(w, q)
<1> DEFINE ws == {v \in LiveWatches : watches[v].client = d}
           told == {x \in Concerned(Released, FALSE) : x[1] \notin ws}
           fired == Fires(Unregistered(ws), Released, FALSE)
           u == Expire(d)
           k == IF <<w, q>> \in Concerned(Released, FALSE) THEN 1 ELSE 0
<1>1. DropWatches(ws, told) /\ events' = u \o fired /\ UNCHANGED tdb
    BY DEF OpRelease
<1>2. w \notin ws /\ owed'[w, q] = owed[w, q] + (IF <<w, q>> \in told THEN 1 ELSE 0)
  <2> HIDE DEF ws, told
  <2> QED
      BY <1>1, NotDropped
<1>3. <<w, q>> \in told <=> <<w, q>> \in Concerned(Released, FALSE)
    BY <1>2
<1>4. Registry /\ Plain(w) /\ Live(w) /\ Released \in Path /\ events \in Seq(Event)
    BY NamedPaths DEF Typed, Stays, Plain, Queue
<1>5. /\ \A r \in Path : w \in Unregistered(ws)[r].path <=> r = watches[w].path
      /\ \A r \in Path : w \in Unregistered(ws)[r].children <=> IsStrictPrefix(r, watches[w].path)
  <2>1. /\ \A r \in Path : w \in db[r].path <=> r = watches[w].path
        /\ \A r \in Path : w \in db[r].children <=> IsStrictPrefix(r, watches[w].path)
      BY <1>4, LiveFields
  <2>2. \A r \in Path : /\ Unregistered(ws)[r].path = db[r].path \ ws
                        /\ Unregistered(ws)[r].children = db[r].children \ ws
      BY DEF Unregistered
  <2> HIDE DEF ws
  <2> QED
      BY <1>2, <2>1, <2>2
<1>6. /\ Unregistered(ws) \in DbType
      /\ \A v \in Unregistered(ws)[Released].children : watches[v].path \in Path
  <2> HIDE DEF ws
  <2> QED
      BY <1>4, UnregisteredDb
<1>7. Count(fired, News(w, q)) = k
  <2> HIDE DEF ws
  <2> QED
      BY <1>4, <1>5, <1>6, FiresNews
<1>8. fired \in Seq(WatchEvent)
  <2> HIDE DEF ws
  <2> QED
      BY <1>4, ReleaseFires
<1>9. u \in Seq(Event) /\ Count(u, News(w, q)) = Count(events, News(w, q))
    BY <1>4, ExpireEffect, NewsOfExpire DEF News
<1>10. owed'[w, q] = owed[w, q] + k /\ k \in Nat
    BY <1>2, <1>3
<1>11. Balanced(w, q)
  <2> HIDE DEF u, fired, k
  <2> QED
      BY <1>1, <1>7, <1>8, <1>9, <1>10, QueuedBalanced
<1>12. \A t \in Tid : ListBalanced(t, w, q)
  <2> HIDE DEF ws, told
  <2> QED
      BY <1>1, <1>2, ListsAfterDrop
<1> QED
    BY <1>11, <1>12 DEF Told

LEMMA WatchTold ==
    ASSUME Typed, Typed', NEW w \in Watch, NEW q \in Path, Stays(w),
           NEW c \in Client, NEW p \in Path, NEW relative \in BOOLEAN, OpWatch(c, p, relative)
    PROVE  Told(w, q)
<1>1. PICK v \in Watch \ LiveWatches :
          /\ events' = Append(events, [kind |-> "watch", key |-> p, cb |-> v, path |-> p])
          /\ Owe({<<v, Norm(p)>>})
    BY DEF OpWatch
<1> DEFINE e == [kind |-> "watch", key |-> p, cb |-> v, path |-> p]
           N == News(w, q)
<1>2. v # w
    BY DEF Stays, Plain, LiveWatches
<1>3. e \in Event /\ e.cb = v
    BY EventMembers DEF WatchEvent
<1>4. e \notin N
    BY <1>2, <1>3 DEF News
<1>5. events \in Seq(Event) /\ events' = Append(events, e) /\ Count(events, N) \in Nat
    BY <1>1, CountIsNat DEF Typed, Queue
<1>6. Count(events', N) = Count(events, N)
  <2> HIDE DEF e, N
  <2>1. Count(Append(events, e), N) = Count(events, N) + (IF e \in N THEN 1 ELSE 0)
      BY <1>3, <1>5, CountAppend
  <2> QED
      BY <1>4, <1>5, <2>1
<1>7. owed'[w, q] = owed[w, q]
  <2>1. <<w, q>> \notin {<<v, Norm(p)>>}
      BY <1>2
  <2>2. owed'[w, q] = owed[w, q] + (IF <<w, q>> \in {<<v, Norm(p)>>} THEN 1 ELSE 0)
      BY <1>1 DEF Owe
  <2>3. owed'[w, q] = owed[w, q] + 0
      BY <2>1, <2>2
  <2>4. owed[w, q] \in Nat
      BY DEF Typed, Books
  <2> QED
      BY <2>3, <2>4, NothingAdded
<1>8. Balanced(w, q)
    BY <1>6, <1>7, BalancedByNone
<1> QED
    BY <1>8, ListsUntouched DEF Told, OpWatch

(* The end of a transaction empties its list.                              *)
LEMMA ListsAfterEnd ==
    ASSUME Typed, Typed', NEW w \in Watch, NEW q \in Path, Stays(w), NEW u \in Tid,
           NEW t \in Tid, EndTransaction(u), tdb' = [tdb EXCEPT ![u] = <<>>]
    PROVE  ListBalanced(t, w, q)
<1>1. /\ tdb'[t] = IF t = u THEN <<>> ELSE tdb[t]
      /\ changes'[t] = IF t = u THEN <<>> ELSE changes[t]
    BY DEF EndTransaction, Typed, Books
<1>2. CASE t = u
  <2>1. Listed(t, w, q)' = Count(<<>>, News(w, q))
      BY <1>1, <1>2, NewsOfStaying
  <2>2. Noted(t, <<w, q>>)' = Cardinality({})
    <3>1. {i \in DOMAIN changes'[t] :
              /\ <<w, q>>[1] \in changes'[t][i].watchers
              /\ <<w, q>> \in Concerned(changes[t][i].path, changes[t][i].rm)'} = {}
        BY <1>1, <1>2, NoIndex
    <3> QED
        BY <3>1 DEF Noted
  <2> QED
      BY <2>1, <2>2, CountEmpty, FS_EmptySet DEF ListBalanced
<1>3. CASE t # u
    BY <1>1, <1>3, ListsUntouched
<1> QED
    BY <1>2, <1>3

LEMMA CommitTold ==
    ASSUME Typed, Typed', NEW w \in Watch, NEW q \in Path, Stays(w),
           NEW c, NEW t \in Tid, OpCommit(c, t)
    PROVE  Told(w, q)
<1>1. /\ events' = events \o tdb[t] /\ EndTransaction(t) /\ tdb' = [tdb EXCEPT ![t] = <<>>]
      /\ owed' = [x \in Watch \X Path |-> owed[x] + Noted(t, x)]
    BY DEF OpCommit
<1>2. owed'[w, q] = owed[w, q] + Noted(t, <<w, q>>)
    BY <1>1
<1> DEFINE s == tdb[t]
<1>3. events \in Seq(Event) /\ s \in Seq(WatchEvent)
    BY DEF Typed, Queue, Books
<1>4. Count(events \o s, News(w, q)) = Count(events, News(w, q)) + Count(s, News(w, q))
  <2> HIDE DEF s
  <2> QED
      BY <1>3, NewsOfConcat
<1>5. Pending(w, q)' = Pending(w, q) + Listed(t, w, q)
  <2>1. Pending(w, q)' = Count(events', News(w, q))
      BY NewsOfStaying
  <2> QED
      BY <1>1, <1>4, <2>1 DEF Pending, Listed
<1> QED
    BY <1>1, <1>2, <1>5, ListsAfterEnd DEF Told, Balanced

LEMMA AbortTold ==
    ASSUME Typed, Typed', NEW w \in Watch, NEW q \in Path, Stays(w),
           NEW c, NEW t \in Tid, OpAbort(c, t)
    PROVE  Told(w, q)
BY BalancedByNone, ListsAfterEnd DEF Told, OpAbort

LEMMA NotedAppend ==
    ASSUME NEW list \in Seq(Change), NEW ch \in Change, NEW w, NEW q, NEW r,
           w \in ch.watchers
    PROVE  Cardinality(NotedOn(Append(list, ch), w, q, r)) =
               Cardinality(NotedOn(list, w, q, r)) +
                   (IF Concerns(ch.path, ch.rm, r, q) THEN 1 ELSE 0)
<1> DEFINE n == Len(list) + 1
           old == NotedOn(list, w, q, r)
           new == NotedOn(Append(list, ch), w, q, r)
           told == Concerns(ch.path, ch.rm, r, q)
<1>1. /\ Len(list) \in Nat /\ DOMAIN list = 1 .. Len(list)
      /\ DOMAIN Append(list, ch) = 1 .. n
      /\ Append(list, ch)[n] = ch
      /\ \A i \in DOMAIN list : Append(list, ch)[i] = list[i]
    OBVIOUS
<1>2. new = IF told THEN old \cup {n} ELSE old
  <2>1. \A i \in DOMAIN list : i \in new <=> i \in old
      BY <1>1 DEF NotedOn
  <2>2. n \in new <=> told
      BY <1>1 DEF NotedOn
  <2>3. \A i : i \in 1 .. n <=> i \in DOMAIN list \/ i = n
      BY <1>1
  <2>4. new \subseteq 1 .. n /\ old \subseteq DOMAIN list
      BY <1>1 DEF NotedOn
  <2> HIDE DEF new, old, told, n
  <2>5. CASE told
      BY <2>1, <2>2, <2>3, <2>4, <2>5
  <2>6. CASE ~told
    <3>1. ASSUME NEW i
          PROVE  i \in new <=> i \in old
        BY <2>1, <2>2, <2>3, <2>4, <2>6
    <3>2. new = old
        BY <3>1
    <3> QED
        BY <2>6, <3>2, Zenon
  <2> QED
      BY <2>5, <2>6
<1>3. n \notin old /\ IsFiniteSet(old)
  <2>1. old \subseteq 1 .. Len(list) /\ IsFiniteSet(1 .. Len(list))
      BY <1>1, FS_Interval DEF NotedOn
  <2>2. n \notin 1 .. Len(list)
      BY <1>1
  <2> HIDE DEF old, n
  <2> QED
      BY <2>1, <2>2, FS_Subset
<1>4. Cardinality(old \cup {n}) = Cardinality(old) + 1 /\ Cardinality(old) \in Nat
  <2> HIDE DEF old, n
  <2> QED
      BY <1>3, FS_AddElement, FS_CardinalityType
<1> HIDE DEF new, old, told, n
<1>5. Cardinality(new) = Cardinality(old) + (IF told THEN 1 ELSE 0)
    BY <1>2, <1>4
<1> QED
    BY <1>5 DEF new, old, told

LEMMA TransChangeTold ==
    ASSUME Typed, Typed', NEW w \in Watch, NEW q \in Path, Stays(w), NEW c,
           NEW u \in Tid, NEW p \in Path, NEW rm \in BOOLEAN, OpTransChange(c, u, p, rm)
    PROVE  Told(w, q)
<1> DEFINE ch == [path |-> p, rm |-> rm, watchers |-> LiveWatches]
           fired == Fires(db, p, rm)
           N == News(w, q)
           r == watches[w].path
           k == IF Concerns(p, rm, r, q) THEN 1 ELSE 0
<1>1. /\ tdb' = [tdb EXCEPT ![u] = tdb[u] \o fired]
      /\ changes' = [changes EXCEPT ![u] = Append(changes[u], ch)]
      /\ UNCHANGED <<events, owed, watches, db>>
    BY DEF OpTransChange
<1>2. Balanced(w, q)
    BY <1>1, BalancedByNone
<1>3. Registry /\ Plain(w) /\ db \in DbType /\ Live(w)
    BY DEF Typed, Stays, Registry, Shape, DbType, Plain
<1>4. Count(fired, N) = k
  <2>1. /\ \A s \in Path : w \in db[s].path <=> s = watches[w].path
        /\ \A s \in Path : w \in db[s].children <=> IsStrictPrefix(s, watches[w].path)
        /\ \A v \in db[p].children : watches[v].path \in Path
      BY <1>3, LiveFields, RegisteredIsLive
  <2>2. Count(fired, N) = IF <<w, q>> \in Concerned(p, rm) THEN 1 ELSE 0
      BY <1>3, <2>1, FiresNews
  <2>3. <<w, q>> \in Concerned(p, rm) <=> Concerns(p, rm, r, q)
      BY <1>3 DEF Concerned
  <2> QED
      BY <2>2, <2>3
<1>5. fired \in Seq(WatchEvent)
    BY <1>3, FiresType
<1>6. ch \in Change /\ w \in ch.watchers /\ ch.path = p /\ ch.rm = rm
    BY <1>3 DEF Change, LiveWatches
<1>7. ListBalanced(u, w, q)
  <2>1. tdb[u] \in Seq(WatchEvent) /\ changes[u] \in Seq(Change)
      BY DEF Typed, Books
  <2>2. Listed(u, w, q)' = Count(tdb'[u], N) /\ Listed(u, w, q) = Count(tdb[u], N)
      BY NewsOfStaying DEF Listed
  <2>3. tdb'[u] = tdb[u] \o fired /\ changes'[u] = Append(changes[u], ch)
      BY <1>1 DEF Typed, Books
  <2>4. Listed(u, w, q)' = Listed(u, w, q) + k
    <3>1. Count(tdb[u] \o fired, N) = Count(tdb[u], N) + Count(fired, N)
      <4> DEFINE s == tdb[u]
      <4>1. s \in Seq(WatchEvent)
          BY <2>1
      <4> HIDE DEF s, fired, N
      <4>2. Count(s \o fired, N) = Count(s, N) + Count(fired, N)
          BY <1>5, <4>1, CountConcat
      <4> QED
          BY <4>2 DEF s
    <3> QED
        BY <1>4, <2>2, <2>3, <3>1
  <2>5. /\ Noted(u, <<w, q>>) = Cardinality(NotedOn(changes[u], w, q, r))
        /\ Noted(u, <<w, q>>)' = Cardinality(NotedOn(changes'[u], w, q, r))
    <3>1. Plain(w)' /\ watches'[w].path = r
        BY <1>1 DEF Stays
    <3> QED
        BY <1>3, <3>1 DEF Noted, NotedOn, Concerned
  <2>6. Noted(u, <<w, q>>)' = Noted(u, <<w, q>>) + k
    <3> DEFINE list == changes[u]
    <3>1. list \in Seq(Change)
        BY <2>1
    <3> HIDE DEF list, ch, r
    <3>2. Cardinality(NotedOn(Append(list, ch), w, q, r)) =
              Cardinality(NotedOn(list, w, q, r)) +
                  (IF Concerns(ch.path, ch.rm, r, q) THEN 1 ELSE 0)
        BY <1>6, <3>1, NotedAppend
    <3> QED
        BY <1>6, <2>3, <2>5, <3>2 DEF list
  <2>7. k \in Nat
      OBVIOUS
  <2> QED
      BY <2>4, <2>6, <2>7 DEF ListBalanced
<1>8. ASSUME NEW t \in Tid, t # u
      PROVE  ListBalanced(t, w, q)
  <2>1. tdb'[t] = tdb[t] /\ changes'[t] = changes[t]
      BY <1>1, <1>8 DEF Typed, Books
  <2> QED
      BY <2>1, ListsUntouched
<1> QED
    BY <1>2, <1>7, <1>8 DEF Told

LEMMA IoFailsTold ==
    ASSUME Typed, Typed', NEW w \in Watch, NEW q \in Path, Stays(w), IoFails
    PROVE  Told(w, q)
<1> DEFINE d == Dead(Head(events).client)
           u == Tail(events)
           N == News(w, q)
<1>1. /\ events \in Seq(Event) /\ events # <<>> /\ u \in Seq(Event)
      /\ Head(events) \in Event /\ Head(events).kind = "io"
    BY RunningHead DEF IoFails
<1>2. d \in Event /\ d.kind # "watch"
    BY <1>1, EventForms, EventMembers, Kinds
<1>3. N \in SUBSET WatchEvent /\ events' = Append(u, d) /\ UNCHANGED <<owed, tdb, changes>>
    BY DEF News, IoFails
<1>4. Count(u, N) = Count(events, N)
    BY <1>1, <1>3, NewsOfTail
<1>5. Count(Append(u, d), N) = Count(u, N)
  <2> HIDE DEF d, u, N
  <2> QED
      BY <1>1, <1>2, <1>3, NewsOfAppend
<1>6. Count(events', N) = Count(events, N)
    BY <1>3, <1>4, <1>5
<1> QED
    BY <1>3, <1>6, QuietTold

LEMMA TurnTold ==
    ASSUME Typed, Typed', NEW w \in Watch, NEW q \in Path, Stays(w), Accept \/ IoDone
    PROVE  Told(w, q)
<1>1. events \in Seq(Event) /\ events # <<>> /\ Head(events).kind # "watch"
  <2>1. PICK kind \in {"accept", "io", "expired"} : Running(kind)
      BY DEF Accept, IoDone
  <2> QED
      BY <2>1, RunningHead
<1>2. events' = Tail(events) /\ UNCHANGED <<owed, tdb, changes>>
    BY DEF Accept, IoDone
<1>3. Count(Tail(events), News(w, q)) = Count(events, News(w, q))
    BY <1>1, NewsOfTail DEF News
<1> QED
    BY <1>2, <1>3, QuietTold

(* Every step tells a watch that stays what it owes it.                    *)
LEMMA NextTold ==
    ASSUME Typed, Typed', NEW w \in Watch, NEW q \in Path, Stays(w), [Next]_vars
    PROVE  Told(w, q)
<1>1. ASSUME UNCHANGED <<events, owed, tdb, changes>>
      PROVE  Told(w, q)
    BY <1>1, QuietTold
<1>2. CASE RunNext
  <2>1. CASE Poll
    <3>1. Count(events', News(w, q)) = Count(events, News(w, q))
        BY <2>1, NewsOfPoll DEF News
    <3> QED
        BY <2>1, <3>1, QuietTold DEF Poll
  <2> QED
      BY <1>2, <2>1, TurnTold, RunWatchTold, RunDeadTold DEF RunNext
<1>3. ASSUME NEW c \in Client, Request(c)
      PROVE  Told(w, q)
  <2>1. ASSUME NEW p \in Path, NEW rm \in BOOLEAN, OpChange(c, p, rm)
        PROVE  Told(w, q)
      BY <2>1, ChangeTold DEF OpChange
  <2>2. ASSUME NEW d \in Domain, OpIntroduce(c, d)
        PROVE  Told(w, q)
    <3>1. /\ events' = events \o Fires(db, Introduced, FALSE)
          /\ Owe(Concerned(Introduced, FALSE)) /\ UNCHANGED <<tdb, changes>>
        BY <2>2 DEF OpIntroduce
    <3>2. Introduced \in Path /\ FALSE \in BOOLEAN
        BY NamedPaths
    <3> QED
        BY <3>1, <3>2, ChangeTold
  <2>3. ASSUME NEW t \in Tid, OpTransactionStart(c, t)
        PROVE  Told(w, q)
      BY <1>1, <2>3 DEF OpTransactionStart
  <2> QED
      BY <1>3, <2>1, <2>2, <2>3, WatchTold, UnwatchTold, ReleaseTold, TransChangeTold,
         CommitTold, AbortTold, NamedPaths DEF Request
<1> QED
    BY <1>1, <1>2, <1>3, IoFailsTold DEF Next, Disable, vars

(* A watch that is there after a step was there before, or was just made.  *)
LEMMA Fate ==
    ASSUME Typed, NEW w \in Watch, Live(w)', [Next]_vars
    PROVE  \/ watches'[w] = watches[w]
           \/ /\ ~Live(w)
              /\ \E c \in Client, p \in Path, relative \in BOOLEAN : OpWatch(c, p, relative)
<1>1. ASSUME NEW ws, NEW told, DropWatches(ws, told)
      PROVE  watches'[w] = watches[w]
    BY <1>1, DropKeepsRegistrations DEF Typed, Registry
<1>2. ASSUME NEW c \in Client, NEW p \in Path, NEW relative \in BOOLEAN, OpWatch(c, p, relative),
             Live(w)
      PROVE  watches'[w] = watches[w]
  <2>1. PICK v \in Watch \ LiveWatches :
            watches' = [watches EXCEPT ![v] = [client |-> c, path |-> p, relative |-> relative]]
      BY <1>2 DEF OpWatch
  <2>2. v # w /\ watches \in [Watch -> WatchCb \cup {NoWatch}]
      BY <1>2 DEF LiveWatches, Typed, Registry, Shape
  <2> QED
      BY <2>1, <2>2
<1>3. ASSUME NEW c \in Client, Request(c)
      PROVE  \/ watches'[w] = watches[w]
             \/ /\ ~Live(w)
                /\ \E p \in Path, relative \in BOOLEAN : OpWatch(c, p, relative)
  <2>1. ASSUME NEW p \in Path, OpUnwatch(c, p)
        PROVE  watches'[w] = watches[w]
      BY <1>1, <2>1 DEF OpUnwatch
  <2>2. ASSUME NEW d \in Domain, OpRelease(c, d)
        PROVE  watches'[w] = watches[w]
      BY <1>1, <2>2 DEF OpRelease
  <2>3. CASE \/ \E p \in Named, rm \in BOOLEAN : OpChange(c, p, rm)
             \/ \E d \in Domain : OpIntroduce(c, d)
             \/ \E t \in Tid, p \in Named, rm \in BOOLEAN : OpTransChange(c, t, p, rm)
             \/ \E t \in Tid : OpTransactionStart(c, t) \/ OpCommit(c, t) \/ OpAbort(c, t)
      BY <2>3 DEF OpChange, OpIntroduce, OpTransChange, OpTransactionStart, OpCommit, OpAbort
  <2> QED
      BY <1>2, <1>3, <2>1, <2>2, <2>3, NamedPaths DEF Request
<1>4. CASE RunNext
    BY <1>1, <1>4 DEF RunNext, Poll, Accept, IoDone, RunWatch, RunDead
<1> QED
    BY <1>3, <1>4 DEF Next, IoFails, Disable, vars

(* What a watch that was just made is owed, and what is on its way: its    *)
(* own path, and whatever refers to an earlier watch at its address.       *)
LEMMA NewTold ==
    ASSUME Typed, Typed', NothingOwedToTheGone, NEW w \in Watch, NEW q \in Path,
           ~Live(w), Plain(w)', NEW c \in Client, NEW p \in Path, NEW relative \in BOOLEAN,
           OpWatch(c, p, relative)
    PROVE  /\ \E k \in Nat : /\ Pending(w, q)' = Count(events, NewsOn(w, q, p)) + k
                             /\ owed'[w, q] = k
           /\ Count(events, NewsOn(w, q, p)) \in Nat
           /\ \A t \in Tid : /\ Listed(t, w, q)' = Count(tdb[t], NewsOn(w, q, p))
                             /\ Noted(t, <<w, q>>)' = 0
                             /\ Count(tdb[t], NewsOn(w, q, p)) \in Nat
<1> DEFINE N == NewsOn(w, q, p)
           e == [kind |-> "watch", key |-> p, cb |-> w, path |-> p]
           k == IF Norm(p) = q THEN 1 ELSE 0
<1>1. PICK v \in Watch \ LiveWatches :
          /\ watches' = [watches EXCEPT ![v] = [client |-> c, path |-> p, relative |-> relative]]
          /\ events' = Append(events, [kind |-> "watch", key |-> p, cb |-> v, path |-> p])
          /\ Owe({<<v, Norm(p)>>})
    BY DEF OpWatch
<1>2. v = w
  <2>1. watches \in [Watch -> WatchCb \cup {NoWatch}] /\ Live(w)'
      BY DEF Typed, Registry, Shape, Plain
  <2> QED
      BY <1>1, <2>1 DEF Live
<1>3. watches'[w].path = p
    BY <1>1, <1>2 DEF Typed, Registry, Shape
<1>4. News(w, q)' = N
  <2>1. Registry' /\ Live(w)'
      BY DEF Typed, Plain
  <2>2. /\ \A r \in Path : w \in db'[r].path <=> r = p
        /\ \A r \in Path : w \in db'[r].children <=> IsStrictPrefix(r, p)
      BY <1>3, <2>1 DEF Registry, RegistrationsExact, LiveWatches
  <2>3. ASSUME NEW f \in WatchEvent, f.cb = w
        PROVE  Deliverable(f)' <=> f.key = p \/ IsStrictPrefix(f.key, p)
      BY <2>2, <2>3, WatchEventFields DEF Deliverable
  <2> QED
      BY <2>3 DEF News, NewsOn
<1>5. e \in Event /\ (e \in N <=> Norm(p) = q)
  <2>1. e \in WatchEvent
      BY DEF WatchEvent
  <2> QED
      BY <2>1, EventMembers DEF NewsOn
<1>6. events \in Seq(Event) /\ events' = Append(events, e) /\ Count(events, N) \in Nat
    BY <1>1, <1>2, CountIsNat DEF Typed, Queue
<1>7. Count(Append(events, e), N) = Count(events, N) + k
  <2> HIDE DEF e, N
  <2> QED
      BY <1>5, <1>6, CountAppend
<1>8. owed'[w, q] = k
  <2>1. owed'[w, q] = owed[w, q] + (IF <<w, q>> \in {<<w, Norm(p)>>} THEN 1 ELSE 0)
      BY <1>1, <1>2 DEF Owe
  <2>2. owed[w, q] = 0
      BY DEF NothingOwedToTheGone
  <2>3. CASE Norm(p) = q
    <3>1. <<w, q>> \in {<<w, Norm(p)>>}
        BY <2>3
    <3>2. owed'[w, q] = 0 + 1
        BY <2>1, <2>2, <3>1
    <3>3. 0 + 1 = 1 /\ k = 1
        BY <2>3
    <3> QED
        BY <3>2, <3>3, Zenon
  <2>4. CASE Norm(p) # q
    <3>1. <<w, q>> \notin {<<w, Norm(p)>>}
        BY <2>4
    <3>2. owed'[w, q] = 0 + 0
        BY <2>1, <2>2, <3>1
    <3>3. 0 + 0 = 0 /\ k = 0
        BY <2>4
    <3> QED
        BY <3>2, <3>3, Zenon
  <2> QED
      BY <2>3, <2>4
<1>9. Pending(w, q)' = Count(events, N) + k
    BY <1>4, <1>6, <1>7 DEF Pending
<1>10. ASSUME NEW t \in Tid
       PROVE  /\ Listed(t, w, q)' = Count(tdb[t], N)
              /\ Noted(t, <<w, q>>)' = 0
              /\ Count(tdb[t], N) \in Nat
  <2>1. tdb' = tdb /\ changes' = changes /\ tdb[t] \in Seq(WatchEvent)
      BY DEF OpWatch, Typed, Books
  <2>2. \A i \in DOMAIN changes[t] : w \notin changes[t][i].watchers
      BY DEF NothingOwedToTheGone, LiveWatches
  <2>3. Noted(t, <<w, q>>)' = Cardinality({})
      BY <2>1, <2>2 DEF Noted
  <2>4. Count(tdb[t], N) \in Nat
      BY <2>1, CountIsNat
  <2> QED
      BY <1>4, <2>1, <2>3, <2>4, FS_EmptySet DEF Listed
<1>11. k \in Nat
    OBVIOUS
<1> QED
    BY <1>6, <1>8, <1>9, <1>10, <1>11

(* The whole of what the queue and the lists hold for the watches.         *)
Accounts == Typed /\ NothingOwedToTheGone /\ ToldOfChanges /\ ListsTell

LEMMA InitAccounts == Init => NothingOwedToTheGone /\ ToldExactlyOnce /\ ListsTellOnce
<1> SUFFICES ASSUME Init PROVE NothingOwedToTheGone /\ ToldExactlyOnce /\ ListsTellOnce
    OBVIOUS
<1>1. \A w \in Watch : ~Live(w)
    BY DEF Init, Live
<1>2. \A t \in Tid : \A i \in DOMAIN changes[t] : FALSE
    BY NoIndex DEF Init
<1> QED
    BY <1>1, <1>2 DEF Init, NothingOwedToTheGone, ToldExactlyOnce, ListsTellOnce, Plain

LEMMA AccountsNext ==
    ASSUME Accounts, [Next]_vars
    PROVE  ToldOfChanges' /\ ListsTell'
<1>1. Typed /\ Typed' /\ NothingOwedToTheGone
    BY NextTyped DEF Accounts
<1>2. ASSUME NEW w \in Watch, NEW q \in Path, Stays(w)
      PROVE  Pending(w, q)' >= owed'[w, q]
  <2> DEFINE a == Pending(w, q)
             b == owed[w, q]
             c == Pending(w, q)'
             d == owed'[w, q]
             l(t) == Listed(t, w, q)
             n(t) == Noted(t, <<w, q>>)
  <2>1. /\ a \in Nat /\ b \in Nat /\ c \in Nat
        /\ \A t \in Tid : l(t) \in Nat /\ n(t) \in Nat /\ l(t) >= n(t)
    <3>1. \A t \in Tid : n(t) \in Nat
        BY <1>1, NotedIsNat DEF Typed
    <3>2. \A t \in Tid : l(t) >= n(t)
        BY <1>2 DEF Accounts, ListsTell, Stays
    <3> QED
        BY <1>1, <1>2, <3>1, <3>2, NewsOfStaying
  <2>2. a >= b
      BY <1>2 DEF Accounts, ToldOfChanges, Stays
  <2>3. \/ \E k \in Nat : c = a + k /\ d = b + k
        \/ a = c + 1 /\ d = IF b = 0 THEN 0 ELSE b - 1
        \/ \E t \in Tid : c = a + l(t) /\ d = b + n(t)
      BY <1>1, <1>2, NextTold DEF Told, Balanced
  <2> HIDE DEF a, b, c, d, l, n
  <2>4. c >= d
    <3>1. CASE \E t \in Tid : c = a + l(t) /\ d = b + n(t)
      <4>1. PICK t \in Tid : c = a + l(t) /\ d = b + n(t)
          BY <3>1
      <4>2. l(t) \in Nat /\ n(t) \in Nat /\ l(t) >= n(t)
          BY <2>1
      <4> QED
          BY <2>1, <2>2, <4>1, <4>2
    <3> QED
        BY <2>1, <2>2, <2>3, <3>1
  <2> QED
      BY <2>4 DEF c, d
<1>3. ASSUME NEW w \in Watch, NEW q \in Path, NEW t \in Tid, Stays(w)
      PROVE  Listed(t, w, q)' >= Noted(t, <<w, q>>)'
  <2> DEFINE a == Listed(t, w, q)
             b == Noted(t, <<w, q>>)
             c == Listed(t, w, q)'
             d == Noted(t, <<w, q>>)'
  <2>1. a \in Nat /\ b \in Nat /\ c \in Nat
    <3>1. b \in Nat
        BY <1>1, NotedIsNat DEF Typed
    <3> QED
        BY <1>1, <1>3, <3>1, NewsOfStaying
  <2>2. a >= b
      BY <1>3 DEF Accounts, ListsTell, Stays
  <2>3. \/ \E k \in Nat : c = a + k /\ d = b + k
        \/ c = 0 /\ d = 0
      BY <1>1, <1>3, NextTold DEF Told, ListBalanced
  <2> HIDE DEF a, b, c, d
  <2>4. c >= d
      BY <2>1, <2>2, <2>3
  <2> QED
      BY <2>4 DEF c, d
<1>4. ASSUME NEW w \in Watch, NEW q \in Path, Plain(w)', ~Stays(w)
      PROVE  /\ Pending(w, q)' >= owed'[w, q]
             /\ \A t \in Tid : Listed(t, w, q)' >= Noted(t, <<w, q>>)'
  <2>1. ~Live(w) /\ \E c \in Client, p \in Path, relative \in BOOLEAN : OpWatch(c, p, relative)
    <3>1. watches'[w] # watches[w]
        BY <1>4 DEF Stays, Plain, Live
    <3> QED
        BY <1>1, <1>4, <3>1, Fate DEF Plain
  <2>2. PICK c \in Client, p \in Path, relative \in BOOLEAN : OpWatch(c, p, relative)
      BY <2>1
  <2> DEFINE N == NewsOn(w, q, p)
  <2>3. /\ \E k \in Nat : Pending(w, q)' = Count(events, N) + k /\ owed'[w, q] = k
        /\ Count(events, N) \in Nat
        /\ \A t \in Tid : /\ Listed(t, w, q)' = Count(tdb[t], N) /\ Noted(t, <<w, q>>)' = 0
                          /\ Count(tdb[t], N) \in Nat
      BY <1>1, <1>4, <2>1, <2>2, NewTold
  <2>4. Pending(w, q)' >= owed'[w, q]
    <3> DEFINE a == Pending(w, q)'
               b == owed'[w, q]
               m == Count(events, N)
    <3>1. m \in Nat /\ \E k \in Nat : a = m + k /\ b = k
        BY <2>3
    <3> HIDE DEF a, b, m
    <3>2. a >= b
        BY <3>1
    <3> QED
        BY <3>2 DEF a, b
  <2>5. ASSUME NEW t \in Tid
        PROVE  Listed(t, w, q)' >= Noted(t, <<w, q>>)'
    <3> DEFINE a == Listed(t, w, q)'
               b == Noted(t, <<w, q>>)'
    <3>1. a \in Nat /\ b = 0
        BY <2>3
    <3> HIDE DEF a, b
    <3>2. a >= b
        BY <3>1
    <3> QED
        BY <3>2 DEF a, b
  <2> QED
      BY <2>4, <2>5
<1>5. ToldOfChanges'
    BY <1>2, <1>4 DEF ToldOfChanges
<1>6. ListsTell'
    BY <1>3, <1>4 DEF ListsTell
<1> QED
    BY <1>5, <1>6

LEMMA ExactIsEnough ==
    ASSUME Typed, ToldExactlyOnce, ListsTellOnce
    PROVE  ToldOfChanges /\ ListsTell
<1>1. ToldOfChanges
  <2> SUFFICES ASSUME NEW w \in Watch, NEW q \in Path, Plain(w)
               PROVE  Pending(w, q) >= owed[w, q]
      BY DEF ToldOfChanges
  <2> DEFINE a == Pending(w, q)
             b == owed[w, q]
  <2>1. a = b /\ b \in Nat
      BY DEF ToldExactlyOnce, Typed, Books
  <2> HIDE DEF a, b
  <2>2. a >= b
      BY <2>1
  <2> QED
      BY <2>2 DEF a, b
<1>2. ListsTell
  <2> SUFFICES ASSUME NEW t \in Tid, NEW w \in Watch, NEW q \in Path, Plain(w)
               PROVE  Listed(t, w, q) >= Noted(t, <<w, q>>)
      BY DEF ListsTell
  <2> DEFINE a == Listed(t, w, q)
             b == Noted(t, <<w, q>>)
  <2>1. a = b /\ b \in Nat
      BY NotedIsNat DEF ListsTellOnce, Typed
  <2> HIDE DEF a, b
  <2>2. a >= b
      BY <2>1
  <2> QED
      BY <2>2 DEF a, b
<1> QED
    BY <1>1, <1>2

(* No watch is left with an outdated view of the store: of every change    *)
(* that took effect and that it was not told of, news is on its way        *)
(* (watch_mgr::fire, fire_parents and fire_children, and the lists that    *)
(* transactions fire when they commit).                                    *)
THEOREM ChangesAreAnnounced == Spec => []ToldOfChanges
<1>1. Init => Accounts
    BY InitTyped, InitAccounts, ExactIsEnough DEF Accounts
<1>2. Accounts /\ [Next]_vars => Accounts'
    BY AccountsNext, NextTyped, NextGone DEF Accounts
<1>3. Accounts => ToldOfChanges
    BY DEF Accounts
<1> QED
    BY <1>1, <1>2, <1>3, PTL DEF Spec

LEMMA FreshNews ==
    ASSUME Typed, FreshAddresses, NEW w \in Watch, NEW q, NEW r, ~Live(w), Live(w)'
    PROVE  /\ Count(events, NewsOn(w, q, r)) = 0
           /\ \A t \in Tid : Count(tdb[t], NewsOn(w, q, r)) = 0
<1>1. ~RefersTo(events, w) /\ \A t \in Tid : ~RefersTo(tdb[t], w)
    BY DEF FreshAddresses, Live
<1>2. ASSUME NEW s, ~RefersTo(s, w)
      PROVE  Count(s, NewsOn(w, q, r)) = 0
  <2>1. \A i \in DOMAIN s : s[i] \notin NewsOn(w, q, r)
      BY <1>2 DEF RefersTo, NewsOn, WatchEvent
  <2> QED
      BY <2>1, CountNone
<1> QED
    BY <1>1, <1>2

LEMMA ExactNext ==
    ASSUME Typed, NothingOwedToTheGone, ToldExactlyOnce, ListsTellOnce, [FreshNext]_vars
    PROVE  ToldExactlyOnce' /\ ListsTellOnce'
<1>1. Typed' /\ [Next]_vars
    BY NextTyped DEF FreshNext
<1>2. ASSUME NEW w \in Watch, NEW q \in Path, Stays(w)
      PROVE  Pending(w, q)' = owed'[w, q]
  <2> DEFINE a == Pending(w, q)
             b == owed[w, q]
             c == Pending(w, q)'
             d == owed'[w, q]
             l(t) == Listed(t, w, q)
             n(t) == Noted(t, <<w, q>>)
  <2>1. a \in Nat /\ b \in Nat /\ c \in Nat /\ \A t \in Tid : l(t) = n(t)
    <3>1. \A t \in Tid : l(t) = n(t)
        BY <1>2 DEF ListsTellOnce, Stays
    <3> QED
        BY <1>1, <1>2, <3>1, NewsOfStaying
  <2>2. a = b
      BY <1>2 DEF ToldExactlyOnce, Stays
  <2>3. \/ \E k \in Nat : c = a + k /\ d = b + k
        \/ a = c + 1 /\ d = IF b = 0 THEN 0 ELSE b - 1
        \/ \E t \in Tid : c = a + l(t) /\ d = b + n(t)
      BY <1>1, <1>2, NextTold DEF Told, Balanced
  <2> HIDE DEF a, b, c, d, l, n
  <2>4. c = d
      BY <2>1, <2>2, <2>3
  <2> QED
      BY <2>4 DEF c, d
<1>3. ASSUME NEW w \in Watch, NEW q \in Path, NEW t \in Tid, Stays(w)
      PROVE  Listed(t, w, q)' = Noted(t, <<w, q>>)'
  <2> DEFINE a == Listed(t, w, q)
             b == Noted(t, <<w, q>>)
             c == Listed(t, w, q)'
             d == Noted(t, <<w, q>>)'
  <2>1. a = b
      BY <1>3 DEF ListsTellOnce, Stays
  <2>2. \/ \E k \in Nat : c = a + k /\ d = b + k
        \/ c = 0 /\ d = 0
      BY <1>1, <1>3, NextTold DEF Told, ListBalanced
  <2> HIDE DEF a, b, c, d
  <2>3. c = d
      BY <2>1, <2>2
  <2> QED
      BY <2>3 DEF c, d
<1>4. ASSUME NEW w \in Watch, NEW q \in Path, Plain(w)', ~Stays(w)
      PROVE  /\ Pending(w, q)' = owed'[w, q]
             /\ \A t \in Tid : Listed(t, w, q)' = Noted(t, <<w, q>>)'
  <2>1. watches'[w] # watches[w]
      BY <1>4 DEF Stays, Plain, Live
  <2>2. ~Live(w) /\ \E c \in Client, p \in Path, relative \in BOOLEAN : OpWatch(c, p, relative)
      BY <1>1, <1>4, <2>1, Fate DEF Plain
  <2>3. PICK c \in Client, p \in Path, relative \in BOOLEAN : OpWatch(c, p, relative)
      BY <2>2
  <2>4. FreshAddresses
      BY <2>1 DEF FreshNext, vars
  <2> DEFINE N == NewsOn(w, q, p)
  <2>5. Count(events, N) = 0 /\ \A t \in Tid : Count(tdb[t], N) = 0
      BY <1>4, <2>2, <2>4, FreshNews DEF Plain
  <2>6. /\ \E k \in Nat : Pending(w, q)' = Count(events, N) + k /\ owed'[w, q] = k
        /\ \A t \in Tid : Listed(t, w, q)' = Count(tdb[t], N) /\ Noted(t, <<w, q>>)' = 0
      BY <1>1, <1>4, <2>2, <2>3, NewTold
  <2>7. Pending(w, q)' = owed'[w, q]
    <3> DEFINE a == Pending(w, q)'
               b == owed'[w, q]
               m == Count(events, N)
    <3>1. m = 0 /\ \E k \in Nat : a = m + k /\ b = k
        BY <2>5, <2>6
    <3> HIDE DEF a, b, m
    <3>2. a = b
        BY <3>1
    <3> QED
        BY <3>2 DEF a, b
  <2>8. \A t \in Tid : Listed(t, w, q)' = Noted(t, <<w, q>>)'
      BY <2>5, <2>6
  <2> QED
      BY <2>7, <2>8
<1>5. ToldExactlyOnce'
    BY <1>2, <1>4 DEF ToldExactlyOnce
<1>6. ListsTellOnce'
    BY <1>3, <1>4 DEF ListsTellOnce
<1> QED
    BY <1>5, <1>6

(* As long as no watch takes the address of one that a queued event still  *)
(* refers to, every change is told exactly once to each watch it concerns: *)
(* no news is lost, repeated or sent before its transaction commits.       *)
THEOREM ChangesAreToldOnce == FreshSpec => []ToldExactlyOnce
<1> DEFINE Exact == Typed /\ NothingOwedToTheGone /\ ToldExactlyOnce /\ ListsTellOnce
<1>1. Init => Exact
    BY InitTyped, InitAccounts
<1>2. Exact /\ [FreshNext]_vars => Exact'
  <2> SUFFICES ASSUME Exact, [FreshNext]_vars PROVE Exact'
      OBVIOUS
  <2>1. [Next]_vars
      BY DEF FreshNext
  <2> QED
      BY <2>1, ExactNext, NextTyped, NextGone
<1>3. Exact => ToldExactlyOnce
    OBVIOUS
<1> HIDE DEF Exact
<1> QED
    BY <1>1, <1>2, <1>3, PTL DEF FreshSpec
=============================================================================
