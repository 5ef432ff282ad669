---------------------------- MODULE SerialStore ----------------------------
(***************************************************************************)
(* What the store promises: one tree that clients change directly, and     *)
(* transactions that, if they commit, behave as if they had run alone at   *)
(* the moment of the commit.  There are no copies, no sequence numbers and *)
(* no validation.  All that is known of an open transaction is in which    *)
(* worlds it could be running: which tree it may have started from, given  *)
(* the answers it got, and what that tree would have become.               *)
(***************************************************************************)
EXTENDS SerialTree

CONSTANT Tid \* transaction ids

VARIABLES
    contents, \* the tree
    open,     \* the open transactions
    worlds    \* of each transaction: pairs of a tree and what became of it

vars == <<contents, open, worlds>>

-----------------------------------------------------------------------------
(* What a commit makes of the tree: all that the transaction did, except   *)
(* that an entry it leaves deleted keeps its node, whatever happens to the *)
(* list it was in (transaction.cc:371).                                    *)
Committed(w) ==
    [p \in Path |-> IF w[1][p].exists /\ ~w[2][p].exists THEN w[1][p] ELSE w[2][p]]

Init ==
    /\ contents = [p \in Path |-> IF p = <<>> THEN Made(EmptyValue, DefaultPerms)
                                              ELSE Absent]
    /\ open = {}
    /\ worlds = [t \in Tid |-> {}]

Outside ==
    /\ UNCHANGED <<open, worlds>>
    /\ \E r \in Request : contents' = After(contents, r)

Begin(t) ==
    /\ t \notin open
    /\ open' = open \cup {t}
    /\ worlds' = [worlds EXCEPT ![t] = Fresh]
    /\ UNCHANGED contents

(* Inside t: nothing else changes.  A transaction that could not commit    *)
(* any more may get an answer that fits no world.                          *)
Inside(t) ==
    /\ t \in open
    /\ UNCHANGED <<contents, open>>
    /\ \E r \in Request :
          LET fitting == {Answer(w[2][r.path], r) : w \in worlds[t]}
          IN  \E W \in {{}} \cup {Answered(worlds[t], r, a) : a \in fitting} :
                 worlds' = [worlds EXCEPT ![t] = W]

Ends(t) ==
    /\ t \in open
    /\ open' = open \ {t}
    /\ worlds' = [worlds EXCEPT ![t] = {}]

Commit(t) ==
    /\ Ends(t)
    /\ \E w \in worlds[t] : w[1] = contents /\ contents' = Committed(w)

Abort(t) == Ends(t) /\ UNCHANGED contents

Next == Outside \/ \E t \in Tid : Begin(t) \/ Inside(t) \/ Commit(t) \/ Abort(t)

Spec == Init /\ [][Next]_vars

=============================================================================
