---------------------------- MODULE MCMStoreTree ----------------------------
(* The instance of MStoreTree that checks the shape of the tree.           *)
EXTENDS MCMStore, MStoreTree

BoundedTreeSpec ==
    /\ Init /\ undead = {}
    /\ [][TreeNext /\ RootStays /\ Bounded]_<<vars, undead>>

TreeView == <<View, undead>>

=============================================================================
