--------------------------- MODULE MCMStoreSerial ---------------------------
(* Small instances of MStoreSerial for TLC.                                *)
EXTENDS MStoreSerial, MCMStore

(* Every tree over Path whose root exists, plausible or not.               *)
Listable(p) == {n \in Name : Append(p, n) \in Path}
Nodes(p) ==
    [exists : {TRUE}, value : Value, perms : {DefaultPerms} \cup PermLists,
     children : SUBSET Listable(p)]
      \cup IF p = <<>> THEN {} ELSE {Absent}
MCWorld == {c \in [Path -> UNION {Nodes(p) : p \in Path}] : \A p \in Path : c[p] \in Nodes(p)}

(* Every id is used once: reuse is the subject of other runs.              *)
IdsOnce == 0 \notin trans'

BoundedSerialSpec ==
    SerialInit /\ [][SerialNext /\ RootStays /\ Bounded /\ IdsOnce]_serialVars

SerialView == <<View, worlds>>

=============================================================================
