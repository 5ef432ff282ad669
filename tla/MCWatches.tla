----------------------------- MODULE MCWatches -----------------------------
(* Small instances of Watches for TLC.                                     *)
EXTENDS Watches

Root == <<"">>
Slash == <<"", "">>
A == <<"", "a">>
AB == <<"", "a", "b">>
L == <<"", "l">>
LD == <<"", "l", "d">>
LDX == <<"", "l", "d", "x">>
LF == <<"", "l", "f">>

(* "/a" and "/a/b", with the root's own name "" above them; "/"; and for   *)
(* the relative watches of a domain at "/l/d" (/local/domain/1) a second   *)
(* branch below "/l".                                                      *)
TreePath == {Root, A, AB} \cup Special
EdgePath == {Root, Slash, A, AB} \cup Special
LocalPath == {Root, L, LD, LDX, LF} \cup Special
Elsewhere == [c \in Client |-> AB]
Local == [c \in Client |-> LD]

(* Nothing follows SIGINT: the loop stops.                                 *)
RunningSpec == Init /\ [][Next /\ active']_vars

=============================================================================
