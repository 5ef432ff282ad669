--------------------------------- MODULE Wire ---------------------------------
(***************************************************************************)
(* Messages as a connection transfers them: a header of fixed length, then *)
(* a body whose length the header gives, both in pieces of any size.  A    *)
(* position says of which part of which message how many bytes are still   *)
(* to come; the two state machines of xs_proto, and their peers, are       *)
(* positions.                                                              *)
(***************************************************************************)
EXTENDS Integers

CONSTANT HdrLen     \* bytes of a message header, sizeof(xsd_sockmsg)

ASSUME HdrAssumption == HdrLen \in Nat \ {0}

(* A byte is known by its place in its message.                            *)
ByteOf(part, n, m) == [part |-> part, n |-> n, msg |-> m]

PartLen(part, m) == IF part = "hdr" THEN HdrLen ELSE m.len

(* At the start of a part, and between two messages.                       *)
Position(part, m) == [part |-> part, bytes |-> PartLen(part, m), msg |-> m]
NoMessage == [len |-> 0]
Idle == [part |-> "idle", bytes |-> 0, msg |-> NoMessage]

(* The next n bytes from a position on.                                    *)
NextByte(s) == PartLen(s.part, s.msg) - s.bytes + 1
Upcoming(s, n) == [i \in 1 .. n |-> ByteOf(s.part, NextByte(s) + i - 1, s.msg)]

(* The position after n more bytes of the part.                            *)
Advance(s, n) ==
    IF s.bytes > n THEN [s EXCEPT !.bytes = @ - n]
    ELSE IF s.part = "hdr" /\ s.msg.len > 0 THEN Position("body", s.msg)
    ELSE Idle
After(b) == Advance([Position(b.part, b.msg) EXCEPT !.bytes = @ - b.n + 1], 1)

(* A byte that comes next at a position.                                   *)
Continues(b, s) ==
    IF s.part = "idle" \/ (s.part = "hdr" /\ s.bytes = HdrLen)
    THEN b.part = "hdr" /\ b.n = 1
    ELSE b = ByteOf(s.part, NextByte(s), s.msg)

=============================================================================
