------------------------------ MODULE MCMStore ------------------------------
(* Small instances of MStore for TLC.  Sequence numbers grow without       *)
(* bound, but the store only ever compares two numbers of the same record: *)
(* View keeps the outcomes of those comparisons and forgets the numbers,   *)
(* so that the runs are exhaustive with no bound on the number of steps.   *)
EXTENDS MStore, FiniteSetsExt

CONSTANT MaxStamps \* bound of the specifications over trees: sum of next_seq

MCName == {"a", "b"}
MCPath == {<<>>, <<"a">>, <<"a", "b">>}
ShortPath == {<<>>, <<"a">>}
RootPath == {<<>>}
NoPerms == {}
GuestPerms == {<<[cid |-> 1, read |-> FALSE, write |-> FALSE]>>}

(* The root is there to stay, for clients and inside transactions.         *)
RootStays ==
    LET r == db'[<<>>]
    IN  IsValid(r.e) /\ \A t \in Tid : Touched(r, t) => IsValid(r.te[t])

Bounded == MapThenSumSet(LAMBDA p : db'[p].next_seq, Path) <= MaxStamps

(* Everything the operations can tell of entry e: its data, and whether it *)
(* is valid, deleted or was never written.                                 *)
EntryView(e) ==
    <<e.value, e.perms, e.children, IsValid(e), e.delete_seq > e.write_seq>>

(* And of a transaction's copy te of it.                                   *)
TentryView(te, e) ==
    IF te.init_seq = 0 THEN <<>>
    ELSE <<te.value, te.perms, te.children, te.children_add, te.children_rem,
           te.init_valid, te.read_seq # 0, te.read_children_seq # 0,
           IsValid(te), te.write_seq > te.init_seq, te.delete_seq > te.init_seq,
           e.write_seq > te.init_seq, e.delete_seq > te.init_seq,
           te.read_seq # 0 /\ e.write_seq > te.read_seq,
           te.read_children_seq # 0 /\ e.write_children_seq > te.read_children_seq>>

View ==
    <<[p \in Path |-> <<Present(db[p]), EntryView(db[p].e),
                        [t \in Tid |-> TentryView(db[p].te[t], db[p].e)]>>],
      trans, next_tid>>

=============================================================================
