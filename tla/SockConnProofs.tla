--------------------------- MODULE SockConnProofs ---------------------------
(***************************************************************************)
(* Theorems about a client's socket, for every length of headers, bodies   *)
(* and buffers.  The first invariant (Shapes) strengthens TypeOK: a part   *)
(* that is being sent is within its message.  Control follows the daemon's *)
(* control, for DiesOnce and InterestExact.  Aligned says what the socket  *)
(* holds between a reader and its writer, for BytesInOrder.  Accounted     *)
(* says where the requests are that the client awaits an answer to, for    *)
(* RequestsAccounted, and rests on the other three.                        *)
(***************************************************************************)
EXTENDS SockConn, SequenceTheorems, WireProofs

(***************************************************************************)
(* Types.  A position in a message that is being sent, and one of its      *)
(* reader.                                                                 *)
(***************************************************************************)
Sending ==
    {s \in [part : {"hdr", "body"}, bytes : Nat \ {0}, msg : Message] :
        s.bytes <= PartLen(s.part, s.msg)}
Receiving ==
    {s \in [part : {"hdr", "body"}, bytes : Nat, msg : Message \cup {NoMessage}] :
        s.part = "body" => s.msg \in Message}
Queued == [kind : Kind, id : Id \cup {NoId}, len : Nat]

LEMMA Lengths ==
    /\ HdrLen \in Nat \ {0}
    /\ \A m \in Message : m.len \in Nat /\ m.len <= PayloadMax
    /\ \A m \in Message, part \in {"hdr", "body"} : PartLen(part, m) \in Nat
    /\ PayloadMax \in Nat
    /\ NoMessage \notin Message
  BY HdrAssumption, ConnAssumption DEF Message, PartLen, NoMessage

LEMMA HdrSends == \A m \in Message : Position("hdr", m) \in Sending
  BY Lengths DEF Position, PartLen, Sending

LEMMA SendingIsAt == Sending \cup {Idle} \subseteq At /\ Receiving \subseteq At
  BY DEF Sending, Receiving, Idle, At, NoMessage

(* A message that is being sent stays one, until it is complete.           *)
LEMMA AdvanceType ==
    ASSUME NEW s \in Sending, NEW n \in 1 .. s.bytes
    PROVE  Advance(s, n) \in Sending \cup {Idle}
<1>1. /\ s \in [part : {"hdr", "body"}, bytes : Nat \ {0}, msg : Message]
      /\ s.part \in {"hdr", "body"} /\ s.bytes \in Nat \ {0} /\ s.msg \in Message
      /\ s.bytes <= PartLen(s.part, s.msg) /\ PartLen(s.part, s.msg) \in Nat
  BY Lengths DEF Sending
<1>2. CASE s.bytes > n
  <2>1. Advance(s, n) = [s EXCEPT !.bytes = s.bytes - n]
    BY <1>2 DEF Advance
  <2>2. s.bytes - n \in Nat \ {0} /\ s.bytes - n <= PartLen(s.part, s.msg)
    BY <1>1, <1>2
  <2>3. Advance(s, n) \in [part : {"hdr", "body"}, bytes : Nat \ {0}, msg : Message]
    BY <1>1, <2>1, <2>2
  <2>4. /\ Advance(s, n).part = s.part /\ Advance(s, n).msg = s.msg
        /\ Advance(s, n).bytes = s.bytes - n
    BY <1>1, <2>1
  <2> QED
    BY <2>2, <2>3, <2>4 DEF Sending
<1>3. CASE ~(s.bytes > n)
  <2>1. CASE s.part = "hdr" /\ s.msg.len > 0
    BY <1>1, <1>3, <2>1, Lengths DEF Advance, Position, PartLen, Sending
  <2>2. CASE ~(s.part = "hdr" /\ s.msg.len > 0)
    BY <1>3, <2>2 DEF Advance
  <2> QED
    BY <2>1, <2>2
<1> QED
  BY <1>2, <1>3

LEMMA UpcomingType ==
    ASSUME NEW s \in Sending, NEW n \in 1 .. s.bytes
    PROVE  Upcoming(s, n) \in Seq(Byte) /\ Len(Upcoming(s, n)) = n
<1>1. /\ s.part \in {"hdr", "body"} /\ s.bytes \in Nat \ {0} /\ s.msg \in Message
      /\ s.bytes <= PartLen(s.part, s.msg) /\ PartLen(s.part, s.msg) \in Nat
  BY Lengths DEF Sending
<1>2. NextByte(s) \in Nat \ {0}
  BY <1>1 DEF NextByte
<1>3. \A i \in 1 .. n : ByteOf(s.part, NextByte(s) + i - 1, s.msg) \in Byte
  BY <1>1, <1>2 DEF ByteOf, Byte
<1> QED
  BY <1>3 DEF Upcoming

(* What a reader leaves in a pipe, and what a writer adds to it.           *)
LEMMA PipeShrinks ==
    ASSUME NEW pipe \in Seq(Byte), NEW n \in 1 .. Len(pipe)
    PROVE  /\ SubSeq(pipe, n + 1, Len(pipe)) \in Seq(Byte)
           /\ Len(SubSeq(pipe, n + 1, Len(pipe))) = Len(pipe) - n
           /\ Head(pipe) \in Byte /\ Head(pipe) = pipe[1]
  OBVIOUS

LEMMA PipeGrows ==
    ASSUME NEW pipe \in Seq(Byte), NEW s \in Sending,
           NEW n \in 1 .. AtMost(Room(pipe), s.bytes)
    PROVE  /\ n \in 1 .. s.bytes
           /\ pipe \o Upcoming(s, n) \in Seq(Byte)
           /\ Len(pipe \o Upcoming(s, n)) <= SockBuf
<1>1. SockBuf \in Nat /\ s.bytes \in Nat /\ Len(pipe) \in Nat
  BY ConnAssumption DEF Sending
<1>2. n \in 1 .. s.bytes /\ n <= SockBuf - Len(pipe)
  BY <1>1 DEF AtMost, Room
<1>3. Upcoming(s, n) \in Seq(Byte) /\ Len(Upcoming(s, n)) = n
  BY <1>2, UpcomingType
<1> QED
  BY <1>1, <1>2, <1>3

LEMMA BuiltType == \A m \in Queued : Built(m) \in Message
<1> TAKE m \in Queued
<1>1. CASE m.len <= PayloadMax
  BY <1>1, Lengths DEF Built, Queued, Message
<1>2. CASE ~(m.len <= PayloadMax)
  <2>1. Built(m) = [m EXCEPT !.kind = "error", !.len = ErrorLen]
    BY <1>2 DEF Built
  <2>2. ErrorLen \in 0 .. PayloadMax
    BY ConnAssumption
  <2>3. m = [kind |-> m.kind, id |-> m.id, len |-> m.len] /\ m.id \in Id \cup {NoId}
    BY DEF Queued
  <2>4. Built(m) = [kind |-> "error", id |-> m.id, len |-> ErrorLen]
    BY <2>1, <2>3
  <2> QED
    BY <2>2, <2>3, <2>4 DEF Message, Kind
<1> QED
  BY <1>1, <1>2

LEMMA RxAdvanceType ==
    ASSUME rx \in Receiving, to_daemon \in Seq(Byte),
           NEW n \in 1 .. AtMost(Len(to_daemon), rx.bytes)
    PROVE  RxAdvance(n) \in Receiving
<1>1. /\ rx.part \in {"hdr", "body"} /\ rx.bytes \in Nat
      /\ rx.msg \in Message \cup {NoMessage}
      /\ rx.part = "body" => rx.msg \in Message
      /\ rx = [part |-> rx.part, bytes |-> rx.bytes, msg |-> rx.msg]
  BY DEF Receiving
<1>2. n \in 1 .. Len(to_daemon) /\ n <= rx.bytes
  BY <1>1 DEF AtMost
<1>3. Head(to_daemon) \in Byte
  BY <1>2, PipeShrinks
<1>0. Head(to_daemon).msg \in Message
  BY <1>3 DEF Byte
<1> DEFINE m == IF rx.part = "hdr" THEN Head(to_daemon).msg ELSE rx.msg
<1>4. m \in Message
  <2>1. CASE rx.part = "hdr"
    <3>1. m = Head(to_daemon).msg
      BY <2>1
    <3> QED
      BY <3>1, <1>0
  <2>2. CASE rx.part # "hdr"
    <3>1. m = rx.msg /\ rx.part = "body"
      BY <1>1, <2>2
    <3>2. rx.msg \in Message
      BY <1>1, <3>1
    <3> QED
      BY <3>1, <3>2
  <2> QED
    BY <2>1, <2>2
<1>7. RxAdvance(n) = IF rx.part = "hdr" /\ n = rx.bytes THEN Position("body", m)
                     ELSE [rx EXCEPT !.bytes = rx.bytes - n, !.msg = m]
  BY DEF RxAdvance
<1> HIDE DEF m
<1>5. CASE rx.part = "hdr" /\ n = rx.bytes
  <2>1. RxAdvance(n) = Position("body", m)
    BY <1>5, <1>7
  <2> QED
    <3>1. m.len \in Nat
      BY <1>4, Lengths
    <3>2. RxAdvance(n) = [part |-> "body", bytes |-> m.len, msg |-> m]
      BY <2>1 DEF Position, PartLen
    <3> QED
      BY <1>4, <3>1, <3>2 DEF Receiving
<1>6. CASE ~(rx.part = "hdr" /\ n = rx.bytes)
  <2>1. RxAdvance(n) = [rx EXCEPT !.bytes = rx.bytes - n, !.msg = m]
    BY <1>6, <1>7
  <2>2. RxAdvance(n) = [part |-> rx.part, bytes |-> rx.bytes - n, msg |-> m]
    BY <1>1, <2>1
  <2>3. rx.bytes - n \in Nat
    BY <1>1, <1>2
  <2> QED
    BY <1>1, <1>4, <2>2, <2>3 DEF Receiving
<1> QED
  BY <1>5, <1>6

LEMMA WithoutType ==
    ASSUME NEW ids \in Seq(Id), NEW id
    PROVE  Without(ids, id) \in Seq(Id)
<1>1. CASE \E i \in DOMAIN ids : ids[i] = id
  <2> DEFINE i == CHOOSE i \in DOMAIN ids : ids[i] = id
  <2>1. i \in 1 .. Len(ids)
    BY <1>1
  <2>2. Without(ids, id) = RemoveAt(ids, i)
    BY <1>1 DEF Without
  <2> HIDE DEF i
  <2>3. SubSeq(ids, 1, i - 1) \in Seq(Id) /\ SubSeq(ids, i + 1, Len(ids)) \in Seq(Id)
    BY <2>1
  <2> QED
    BY <2>2, <2>3 DEF RemoveAt
<1>2. CASE ~\E i \in DOMAIN ids : ids[i] = id
  BY <1>2 DEF Without
<1> QED
  BY <1>1, <1>2

(* The parts of TypeOK.                                                    *)
SocketOK ==
    /\ to_daemon \in Seq(Byte) /\ to_client \in Seq(Byte) /\ closed \in BOOLEAN
    /\ Len(to_daemon) <= SockBuf /\ Len(to_client) <= SockBuf
ControlOK ==
    /\ pc \in {"idle", "called", "rx", "tx"} /\ back \in {"idle", "called", "rx"}
    /\ ready \in [read : BOOLEAN, write : BOOLEAN, error : BOOLEAN]
    /\ ev_read \in BOOLEAN /\ ev_write \in BOOLEAN
    /\ alive \in BOOLEAN /\ deaths \in Nat
QueueOK == tx_queue \in Seq(Queued)
ClientOK ==
    /\ client = [out |-> client.out, in |-> client.in, awaiting |-> client.awaiting]
    /\ client.out \in Sending \cup {Idle} /\ client.in \in Sending \cup {Idle}
    /\ client.awaiting \in Seq(Id)
Shapes ==
    /\ SocketOK /\ ControlOK /\ QueueOK /\ ClientOK
    /\ tx \in Sending \cup {Idle} /\ rx \in Receiving

LEMMA ShapesGiveTypes == Shapes => TypeOK
<1> SUFFICES ASSUME Shapes PROVE TypeOK
  OBVIOUS
<1>1. rx \in At /\ tx \in At /\ client.out \in At /\ client.in \in At
  BY SendingIsAt DEF Shapes, ClientOK
<1>2. client \in [out : At, in : At, awaiting : Seq(Id)]
  BY <1>1 DEF Shapes, ClientOK
<1> QED
  BY <1>1, <1>2 DEF Shapes, SocketOK, ControlOK, QueueOK, Queued, TypeOK

LEMMA ShapesInit == Init => Shapes
<1> SUFFICES ASSUME Init PROVE Shapes
  OBVIOUS
<1>1. SocketOK
  <2>1. Len(<<>>) <= SockBuf
    BY ConnAssumption
  <2>2. <<>> \in Seq(Byte)
    OBVIOUS
  <2> QED
    BY <2>1, <2>2 DEF Init, SocketOK
<1>2. ControlOK
  BY DEF Init, ControlOK
<1>3. QueueOK
  BY DEF Init, QueueOK
<1>4. ClientOK
  BY DEF Init, ClientOK
<1>5. rx \in Receiving
  BY HdrAssumption DEF Init, Start, Position, PartLen, Receiving
<1> QED
  BY <1>1, <1>2, <1>3, <1>4, <1>5 DEF Init, Shapes

LEMMA DeathType ==
    ASSUME alive \in BOOLEAN, deaths \in Nat, Lives \/ Dies
    PROVE  deaths' \in Nat /\ alive' \in BOOLEAN
<1>1. deaths' = deaths \/ deaths' = deaths + 1
  BY DEF Lives, Dies
<1>2. alive' \in BOOLEAN
  BY Zenon DEF Lives, Dies
<1> QED
  BY <1>1, <1>2

LEMMA ShapesStep == Shapes /\ [Next]_vars => Shapes'
<1> SUFFICES ASSUME Shapes, [Next]_vars PROVE Shapes'
  OBVIOUS
<1>p. /\ to_daemon \in Seq(Byte) /\ to_client \in Seq(Byte)
      /\ tx \in Sending \cup {Idle} /\ rx \in Receiving
      /\ tx_queue \in Seq(Queued) /\ alive \in BOOLEAN /\ deaths \in Nat
      /\ Len(to_daemon) <= SockBuf /\ Len(to_client) <= SockBuf
  BY DEF Shapes, SocketOK, ControlOK, QueueOK
<1>1. CASE UNCHANGED vars
  BY <1>1 DEF vars, socket, conn, Shapes, SocketOK, ControlOK, QueueOK, ClientOK
<1>2. CASE Poll
  <2>1. ControlOK'
    BY <1>2 DEF Poll, Shapes, SocketOK, ControlOK, conn
  <2> QED
    BY <1>2, <2>1 DEF Poll, socket, Shapes, SocketOK, QueueOK, ClientOK
<1>3. CASE Callback
  <2>1. ControlOK'
    <3>1. /\ pc' \in {"idle", "called", "rx", "tx"} /\ back' \in {"idle", "called", "rx"}
          /\ UNCHANGED <<ready, ev_read, ev_write>>
      BY <1>3 DEF Callback, Dies, conn, Shapes, ControlOK
    <3>2. Lives \/ Dies
      BY <1>3 DEF Callback, conn, Lives
    <3>3. deaths' \in Nat /\ alive' \in BOOLEAN
      BY <1>p, <3>2, DeathType
    <3> QED
      BY <3>1, <3>3 DEF Shapes, ControlOK
  <2> QED
    BY <1>3, <2>1 DEF Callback, socket, Shapes, SocketOK, QueueOK, ClientOK
<1>4. CASE Recv
  <2>1. ControlOK'
    <3>1. /\ pc' \in {"idle", "called", "rx", "tx"} /\ back' \in {"idle", "called", "rx"}
          /\ UNCHANGED <<ready, ev_write>>
      BY <1>4 DEF Recv, RxReturns, Shapes, ControlOK
    <3>2. Lives \/ Dies
      BY <1>4 DEF Recv
    <3>3. deaths' \in Nat /\ alive' \in BOOLEAN
      BY <1>p, <3>2, DeathType
    <3>4. ev_read' \in BOOLEAN
      <4>1. \/ \E n \in 1 .. AtMost(Len(to_daemon), rx.bytes) : ev_read' = (n < rx.bytes)
            \/ ev_read' = TRUE
            \/ ev_read' = ev_read
        BY <1>4 DEF Recv, Dies
      <4>2. \A n : (n < rx.bytes) \in BOOLEAN
        OBVIOUS
      <4> QED
        BY <4>1, <4>2, Zenon DEF Shapes, ControlOK
    <3> QED
      BY <3>1, <3>3, <3>4 DEF Shapes, ControlOK
  <2>2. SocketOK' /\ rx' \in Receiving
    <3>1. CASE \E n \in 1 .. AtMost(Len(to_daemon), rx.bytes) :
                  /\ to_daemon' = SubSeq(to_daemon, n + 1, Len(to_daemon))
                  /\ rx' = RxAdvance(n)
      <4>1. PICK n \in 1 .. AtMost(Len(to_daemon), rx.bytes) :
                  /\ to_daemon' = SubSeq(to_daemon, n + 1, Len(to_daemon))
                  /\ rx' = RxAdvance(n)
        BY <3>1
      <4>2. n \in 1 .. Len(to_daemon)
        BY <1>p DEF AtMost, Receiving
      <4>3. to_daemon' \in Seq(Byte) /\ Len(to_daemon') <= Len(to_daemon)
        BY <1>p, <4>1, <4>2, PipeShrinks
      <4>4. rx' \in Receiving
        BY <1>p, <4>1, RxAdvanceType
      <4>5. Len(to_daemon') <= SockBuf
        BY <1>p, <4>3, ConnAssumption
      <4> QED
        BY <1>4, <4>3, <4>4, <4>5 DEF Recv, Shapes, SocketOK
    <3>2. CASE UNCHANGED <<to_daemon, rx>>
      BY <1>4, <3>2 DEF Recv, Shapes, SocketOK
    <3> QED
      BY <1>4, <3>1, <3>2 DEF Recv
  <2> QED
    BY <1>4, <2>1, <2>2 DEF Recv, Shapes, QueueOK, ClientOK
<1>5. CASE Handle
  <2>1. PICK len \in AnswerLens :
            tx_queue' = Append(tx_queue, [kind |-> "reply", id |-> rx.msg.id, len |-> len])
    BY <1>5 DEF Handle
  <2>2. [kind |-> "reply", id |-> rx.msg.id, len |-> len] \in Queued
    BY <1>5, <1>p, ConnAssumption DEF Handle, Receiving, Message, Queued, Kind
  <2>3. QueueOK'
    BY <1>p, <2>1, <2>2 DEF QueueOK
  <2>4. rx' \in Receiving
    BY <1>5, HdrAssumption DEF Handle, Start, Position, PartLen, Receiving
  <2>5. ControlOK'
    BY <1>5 DEF Handle, conn, Shapes, ControlOK
  <2> QED
    BY <1>5, <2>3, <2>4, <2>5 DEF Handle, socket, Shapes, SocketOK, ClientOK
<1>6. CASE TxNext
  <2>1. ControlOK'
    BY <1>6 DEF TxNext, conn, Shapes, ControlOK
  <2>2. QueueOK' /\ tx' \in Sending \cup {Idle}
    <3>1. CASE tx_queue = <<>>
      BY <1>6, <3>1 DEF TxNext, Shapes, QueueOK
    <3>2. CASE tx_queue # <<>>
      <4>1. /\ tx' = Position("hdr", Built(Head(tx_queue)))
            /\ tx_queue' = Tail(tx_queue)
        BY <1>6, <3>2 DEF TxNext
      <4>2. Head(tx_queue) \in Queued /\ Tail(tx_queue) \in Seq(Queued)
        BY <1>p, <3>2
      <4> QED
        BY <4>1, <4>2, BuiltType, HdrSends DEF QueueOK
    <3> QED
      BY <3>1, <3>2
  <2> QED
    BY <1>6, <2>1, <2>2 DEF TxNext, socket, Shapes, SocketOK, ClientOK
<1>7. CASE Send
  <2>0. tx \in Sending /\ tx.bytes \in Nat
    BY <1>7, <1>p DEF Send, Sending
  <2>1. ControlOK'
    <3>1. /\ pc' \in {"idle", "called", "rx", "tx"} /\ UNCHANGED <<back, ready, ev_read>>
      BY <1>7 DEF Send, Shapes, ControlOK
    <3>2. Lives \/ Dies
      BY <1>7 DEF Send
    <3>3. deaths' \in Nat /\ alive' \in BOOLEAN
      BY <1>p, <3>2, DeathType
    <3>4. ev_write' \in BOOLEAN
      <4>1. (\E n : ev_write' = WantsWrite(n)) \/ ev_write' = ev_write
        BY <1>7, Zenon DEF Send, Dies
      <4>2. \A n : WantsWrite(n) \in BOOLEAN
        BY DEF WantsWrite
      <4> QED
        BY <4>1, <4>2, Zenon DEF Shapes, ControlOK
    <3> QED
      BY <3>1, <3>3, <3>4 DEF Shapes, ControlOK
  <2>2. SocketOK' /\ tx' \in Sending \cup {Idle}
    <3>1. CASE \E n \in 1 .. AtMost(Room(to_client), tx.bytes) :
                  to_client' = to_client \o Upcoming(tx, n) /\ tx' = TxAdvance(n)
      <4>1. PICK n \in 1 .. AtMost(Room(to_client), tx.bytes) :
                  to_client' = to_client \o Upcoming(tx, n) /\ tx' = TxAdvance(n)
        BY <3>1
      <4>2. /\ n \in 1 .. tx.bytes
            /\ to_client' \in Seq(Byte) /\ Len(to_client') <= SockBuf
        BY <1>p, <2>0, <4>1, PipeGrows
      <4>3. tx' \in Sending \cup {Idle}
        BY <2>0, <4>1, <4>2, AdvanceType DEF TxAdvance
      <4> QED
        BY <1>7, <4>2, <4>3 DEF Send, Shapes, SocketOK
    <3>2. CASE UNCHANGED <<to_client, tx>>
      BY <1>7, <3>2 DEF Send, Shapes, SocketOK
    <3> QED
      BY <1>7, <3>1, <3>2 DEF Send
  <2> QED
    BY <1>7, <2>1, <2>2 DEF Send, Shapes, QueueOK, ClientOK
<1>8. CASE WatchEvent
  <2>1. PICK len \in AnswerLens :
            tx_queue' = Append(tx_queue, [kind |-> "event", id |-> NoId, len |-> len])
    BY <1>8 DEF WatchEvent
  <2>2. [kind |-> "event", id |-> NoId, len |-> len] \in Queued
    BY ConnAssumption DEF Queued, Kind
  <2>3. QueueOK'
    BY <1>p, <2>1, <2>2 DEF QueueOK
  <2>4. ControlOK'
    BY <1>8 DEF WatchEvent, conn, Shapes, ControlOK
  <2> QED
    BY <1>8, <2>3, <2>4 DEF WatchEvent, socket, Shapes, SocketOK, ClientOK
<1>9. CASE Request
  <2>1. PICK id \in Id, len \in RequestLens :
            client' = [out |-> Position("hdr", [kind |-> "request", id |-> id, len |-> len]),
                       in |-> client.in,
                       awaiting |-> Append(client.awaiting, id)]
    BY <1>9 DEF Request
  <2>2. [kind |-> "request", id |-> id, len |-> len] \in Message
    BY ConnAssumption DEF Message, Kind
  <2>3. ClientOK'
    <3>1. Append(client.awaiting, id) \in Seq(Id)
      BY DEF Shapes, ClientOK
    <3>2. client = [out |-> client.out, in |-> client.in, awaiting |-> client.awaiting]
      BY DEF Shapes, ClientOK
    <3>3. client' = [out |-> Position("hdr", [kind |-> "request", id |-> id, len |-> len]),
                     in |-> client.in, awaiting |-> Append(client.awaiting, id)]
      BY <2>1, <3>2
    <3>4. /\ client'.out = Position("hdr", [kind |-> "request", id |-> id, len |-> len])
          /\ client'.in = client.in /\ client'.awaiting = Append(client.awaiting, id)
      BY <3>3
    <3>5. client'.out \in Sending
      BY <2>2, <3>4, HdrSends
    <3>6. client.in \in Sending \cup {Idle}
      BY DEF Shapes, ClientOK
    <3>7. client' = [out |-> client'.out, in |-> client'.in, awaiting |-> client'.awaiting]
      BY <3>3
    <3> QED
      BY <3>1, <3>4, <3>5, <3>6, <3>7 DEF ClientOK
  <2> QED
    BY <1>9, <2>3 DEF Request, socket, conn, Shapes, SocketOK, ControlOK, QueueOK
<1>10. CASE ClientWrite
  <2>1. PICK n \in 1 .. AtMost(Room(to_daemon), client.out.bytes) :
          /\ to_daemon' = to_daemon \o Upcoming(client.out, n)
          /\ client' = [client EXCEPT !.out = Advance(client.out, n)]
    BY <1>10 DEF ClientWrite
  <2>2. client.out \in Sending
    BY <1>10 DEF ClientWrite, Shapes, ClientOK
  <2>3. /\ n \in 1 .. client.out.bytes
        /\ to_daemon' \in Seq(Byte) /\ Len(to_daemon') <= SockBuf
    BY <1>p, <2>1, <2>2, PipeGrows
  <2>4. ClientOK'
    BY <2>1, <2>2, <2>3, AdvanceType DEF Shapes, ClientOK
  <2>5. SocketOK'
    BY <1>10, <2>3 DEF ClientWrite, Shapes, SocketOK
  <2> QED
    BY <1>10, <2>4, <2>5 DEF ClientWrite, conn, Shapes, ControlOK, QueueOK
<1>11. CASE ClientRead
  <2> DEFINE m == Head(to_client).msg
             at == IF client.in = Idle THEN Position("hdr", m) ELSE client.in
  <2>1. PICK n \in 1 .. AtMost(Len(to_client), at.bytes) :
          /\ to_client' = SubSeq(to_client, n + 1, Len(to_client))
          /\ client' = [out |-> client.out,
                         in |-> Advance(at, n),
                         awaiting |-> IF Advance(at, n) = Idle
                                      THEN Without(client.awaiting, at.msg.id)
                                      ELSE client.awaiting]
    BY <1>11 DEF ClientRead
  <2>2. to_client # <<>>
    BY <1>11 DEF ClientRead
  <2>3. Head(to_client) \in Byte /\ m \in Message
    <3>1. Head(to_client) \in Byte
      BY <1>p, <2>2
    <3> QED
      BY <3>1 DEF Byte
  <2>4. at \in Sending /\ at.bytes \in Nat
    BY <2>3, HdrSends DEF Shapes, ClientOK, Sending
  <2>5. n \in 1 .. Len(to_client) /\ n \in 1 .. at.bytes
    BY <2>4, <1>p DEF AtMost
  <2>6. Without(client.awaiting, at.msg.id) \in Seq(Id)
    BY WithoutType DEF Shapes, ClientOK
  <2> HIDE DEF m, at
  <2>7. ClientOK'
    <3>1. Advance(at, n) \in Sending \cup {Idle}
      BY <2>4, <2>5, AdvanceType
    <3> QED
      BY <2>1, <2>6, <3>1 DEF Shapes, ClientOK
  <2>8. SocketOK'
    <3>1. to_client' \in Seq(Byte) /\ Len(to_client') <= Len(to_client)
      BY <1>p, <2>1, <2>5, PipeShrinks
    <3>2. Len(to_client') <= SockBuf
      BY <1>p, <3>1, ConnAssumption
    <3> QED
      BY <1>11, <3>1, <3>2 DEF ClientRead, Shapes, SocketOK
  <2> QED
    BY <1>11, <2>7, <2>8 DEF ClientRead, conn, Shapes, ControlOK, QueueOK
<1>12. CASE Close
  BY <1>12 DEF Close, conn, Shapes, SocketOK, ControlOK, QueueOK, ClientOK
<1> QED
  BY <1>1, <1>2, <1>3, <1>4, <1>5, <1>6, <1>7, <1>8, <1>9, <1>10, <1>11, <1>12
     DEF Next, Daemon, Working, Client

LEMMA ShapesHold == Spec => []Shapes
<1>1. Init => Shapes
  BY ShapesInit
<1>2. Shapes /\ [Next]_vars => Shapes'
  BY ShapesStep
<1> QED
  BY <1>1, <1>2, PTL DEF Spec

(* TypeOK: whatever is asked and answered, no message on the wire is longer *)
(* than the protocol allows, a part never has less than no byte left, and  *)
(* the socket is never filled beyond its size.                             *)
THEOREM TypeCorrect == Spec => []TypeOK
<1>1. Shapes => TypeOK
  BY ShapesGiveTypes
<1> QED
  BY <1>1, ShapesHold, PTL

-----------------------------------------------------------------------------
(***************************************************************************)
(* The daemon's control.                                                   *)
(***************************************************************************)
(* A connection that is dead is only found by a callback still queued.     *)
Deaths ==
    /\ pc \in {"idle", "called", "rx", "tx"} /\ back \in {"idle", "called", "rx"}
    /\ alive => deaths = 0
    /\ ~alive => deaths = 1
    /\ alive \/ pc \in {"idle", "called"}

(* Outside of process_tx, write interest says whether work is left; inside *)
(* it is never set between two messages.                                   *)
WriteInterest ==
    alive =>
        /\ tx = Idle => ~ev_write
        /\ pc # "tx" => /\ tx # Idle => ev_write
                        /\ tx_queue # <<>> => ev_write

(* Read interest is only off while requests are being processed.           *)
ReadInterest ==
    alive /\ pc # "rx" /\ ~(pc = "tx" /\ back = "rx") => ev_read

Control == Deaths /\ WriteInterest /\ ReadInterest

(* A step leaves the connection as it is, or breaks it.                    *)
Survives == (alive' <=> alive) /\ deaths' = deaths
Perishes == alive /\ ~alive' /\ deaths' = deaths + 1

LEMMA DeathsCounted ==
    ASSUME Deaths, Survives \/ Perishes
    PROVE  (alive' => deaths' = 0) /\ (~alive' => deaths' = 1)
  BY DEF Deaths, Survives, Perishes

LEMMA ControlInit == Init => Control
<1> SUFFICES ASSUME Init PROVE Control
  OBVIOUS
<1>1. /\ pc = "idle" /\ back = "idle" /\ ev_read = TRUE /\ ev_write = FALSE
      /\ alive = TRUE /\ deaths = 0 /\ tx = Idle /\ tx_queue = <<>>
  BY DEF Init
<1> QED
  BY <1>1 DEF Control, Deaths, WriteInterest, ReadInterest, Idle, NoMessage

LEMMA ControlStep == Shapes /\ Control /\ [Next]_vars => Control'
<1> SUFFICES ASSUME Shapes, Control, [Next]_vars PROVE Control'
  OBVIOUS
<1>1. CASE UNCHANGED vars
  <2>1. Survives /\ UNCHANGED <<pc, back, ev_read, ev_write, tx, tx_queue>>
    BY <1>1 DEF vars, conn, Survives, Perishes
  <2> QED
    BY <2>1, DeathsCounted DEF Control, Deaths, Survives, Perishes, WriteInterest, ReadInterest
<1>2. CASE Poll
  <2>1. pc = "idle" /\ pc' = "called" /\ Survives /\ UNCHANGED <<back, ev_read, ev_write, tx, tx_queue>>
    BY <1>2 DEF Poll, conn, Survives, Perishes
  <2> QED
    BY <2>1, DeathsCounted DEF Control, Deaths, Survives, Perishes, WriteInterest, ReadInterest
<1>3. CASE Callback
  <2>1. /\ pc = "called" /\ UNCHANGED <<ev_read, ev_write, tx, tx_queue>>
        /\ \/ ~alive /\ pc' = "idle" /\ Survives /\ UNCHANGED back
           \/ alive /\ pc' = "idle" /\ Perishes /\ UNCHANGED back
           \/ alive /\ pc' = "rx" /\ Survives /\ UNCHANGED back
           \/ alive /\ pc' = "tx" /\ back' = "idle" /\ Survives
    BY <1>3 DEF Callback, Dies, conn, Survives, Perishes
  <2> QED
    BY <2>1, DeathsCounted DEF Control, Deaths, Survives, Perishes, WriteInterest, ReadInterest
<1>4. CASE Recv
  <2>0. alive
    BY <1>4 DEF Recv, Control, Deaths
  <2>1. /\ pc = "rx" /\ UNCHANGED <<ev_write, tx, tx_queue>>
        /\ \/ Survives /\ pc' = "rx" /\ UNCHANGED back
           \/ Survives /\ ev_read' /\ pc' = "tx" /\ back' = "idle"
           \/ Survives /\ ev_read' /\ pc' = "idle" /\ UNCHANGED back
           \/ Perishes /\ pc' = "idle" /\ UNCHANGED back
    BY <2>0, <1>4 DEF Recv, Dies, Lives, RxReturns, Survives, Perishes
  <2> QED
    BY <2>1, DeathsCounted DEF Control, Deaths, Survives, Perishes, WriteInterest, ReadInterest
<1>5. CASE Handle
  <2>1. /\ pc = "rx" /\ pc' = "tx" /\ back' = "rx"
        /\ Survives /\ UNCHANGED <<ev_read, ev_write, tx>>
    BY <1>5 DEF Handle, conn, Survives, Perishes
  <2> QED
    BY <2>1, DeathsCounted DEF Control, Deaths, Survives, Perishes, WriteInterest, ReadInterest
<1>6. CASE TxNext
  <2>1. /\ pc = "tx" /\ tx = Idle
        /\ Survives /\ UNCHANGED <<back, ev_read, ev_write>>
        /\ \/ pc' = back /\ tx_queue = <<>> /\ UNCHANGED <<tx, tx_queue>>
           \/ pc' = "tx" /\ tx' # Idle
    BY <1>6, HdrAssumption DEF TxNext, conn, Survives, Position, Idle
  <2> QED
    BY <2>1, DeathsCounted DEF Control, Deaths, Survives, WriteInterest, ReadInterest
<1>7. CASE Send
  <2>0. alive /\ pc = "tx" /\ tx \in Sending /\ tx.bytes \in Nat /\ 0 < tx.bytes
    <3>1. alive /\ pc = "tx" /\ tx \in Sending
      BY <1>7 DEF Send, Control, Deaths, Shapes
    <3> QED
      BY <3>1 DEF Sending
  <2>1. UNCHANGED <<back, ev_read, tx_queue>>
    BY <1>7 DEF Send
  <2>2. CASE \E n \in 1 .. AtMost(Room(to_client), tx.bytes) :
                /\ Lives
                /\ tx' = TxAdvance(n)
                /\ ev_write' = WantsWrite(n)
                /\ pc' = IF n < tx.bytes THEN back ELSE pc
    <3>1. PICK n \in 1 .. AtMost(Room(to_client), tx.bytes) :
                /\ Lives
                /\ tx' = TxAdvance(n)
                /\ ev_write' = WantsWrite(n)
                /\ pc' = IF n < tx.bytes THEN back ELSE pc
      BY <2>2
    <3>2. Survives
      BY <3>1 DEF Lives, Survives
    <3>3. CASE n < tx.bytes
      <4>1. tx' = [tx EXCEPT !.bytes = tx.bytes - n]
        BY <2>0, <3>1, <3>3 DEF TxAdvance, Advance
      <4>2. tx'.part # Idle.part
        BY <2>0, <4>1 DEF Sending, Idle
      <4>3. ev_write' /\ pc' = back
        BY <3>1, <3>3 DEF WantsWrite
      <4> QED
        BY <2>0, <2>1, <3>2, <4>2, <4>3, DeathsCounted
           DEF Control, Deaths, Survives, WriteInterest, ReadInterest
    <3>4. CASE ~(n < tx.bytes)
      <4>1. pc' = "tx" /\ ~ev_write'
        BY <2>0, <3>1, <3>4 DEF WantsWrite
      <4> QED
        BY <2>0, <2>1, <3>2, <4>1, DeathsCounted
           DEF Control, Deaths, Survives, WriteInterest, ReadInterest
    <3> QED
      BY <3>3, <3>4
  <2>3. CASE Lives /\ ev_write' = WantsWrite(0) /\ pc' = back /\ UNCHANGED tx
    <3>1. ev_write' /\ Survives
      BY <2>0, <2>3 DEF WantsWrite, Lives, Survives
    <3>2. tx' # Idle
      BY <2>0, <2>3 DEF Idle
    <3> QED
      BY <2>0, <2>1, <2>3, <3>1, <3>2, DeathsCounted
         DEF Control, Deaths, Survives, WriteInterest, ReadInterest
  <2>4. CASE Dies /\ pc' = IF back = "called" THEN "called" ELSE "idle"
    <3>1. Perishes
      BY <2>0, <2>4 DEF Dies, Perishes
    <3> QED
      BY <2>0, <2>1, <2>4, <3>1, DeathsCounted
         DEF Control, Deaths, Perishes, WriteInterest, ReadInterest
  <2> QED
    BY <1>7, <2>2, <2>3, <2>4 DEF Send
<1>8. CASE WatchEvent
  <2>1. /\ pc \in {"idle", "called"} /\ alive /\ pc' = "tx" /\ back' = pc
        /\ Survives /\ UNCHANGED <<ev_read, ev_write, tx>>
    BY <1>8 DEF WatchEvent, conn, Survives, Perishes
  <2> QED
    BY <2>1, DeathsCounted DEF Control, Deaths, Survives, Perishes, WriteInterest, ReadInterest
<1>9. CASE Client
  <2>1. Survives /\ UNCHANGED <<pc, back, ev_read, ev_write, tx, tx_queue>>
    <3>1. CASE Request
      BY <3>1 DEF Request, conn, Survives
    <3>2. CASE ClientWrite
      BY <3>2 DEF ClientWrite, conn, Survives
    <3>3. CASE ClientRead
      BY <3>3 DEF ClientRead, conn, Survives
    <3>4. CASE Close
      BY <3>4 DEF Close, conn, Survives
    <3> QED
      BY <1>9, <3>1, <3>2, <3>3, <3>4 DEF Client
  <2> QED
    BY <2>1, DeathsCounted DEF Control, Deaths, Survives, Perishes, WriteInterest, ReadInterest
<1> QED
  BY <1>1, <1>2, <1>3, <1>4, <1>5, <1>6, <1>7, <1>8, <1>9
     DEF Next, Daemon, Working

LEMMA ControlHolds == Spec => []Control
<1>1. Init => Control
  BY ControlInit
<1>2. Shapes /\ Control /\ [Next]_vars => Control'
  BY ControlStep
<1> QED
  BY <1>1, <1>2, ShapesHold, PTL DEF Spec

(* DiesOnce: whichever of recv, send, the callback and a watch event finds *)
(* the socket broken, conn_dead is called once.                            *)
THEOREM DeathsReportedOnce == Spec => []DiesOnce
<1>1. Control => DiesOnce
  BY DEF Control, Deaths, DiesOnce
<1> QED
  BY <1>1, ControlHolds, PTL

(* InterestExact: between events the daemon listens, and asks to be called *)
(* for writing exactly as long as a message is unfinished.                 *)
THEOREM InterestIsExact == Spec => []InterestExact
<1>1. Control => InterestExact
  BY DEF Control, WriteInterest, ReadInterest, InterestExact
<1> QED
  BY <1>1, ControlHolds, PTL


-----------------------------------------------------------------------------
(***************************************************************************)
(* The bytes in the socket: either pipe is lined up between its reader and *)
(* its writer, and the client's reader is between messages or in the       *)
(* middle of one.                                                          *)
(***************************************************************************)
Aligned ==
    /\ Lined(to_daemon, rx, client.out)
    /\ Lined(to_client, client.in, tx)
    /\ Amid(client.in)

LEMMA PipeReads ==
    ASSUME NEW pipe \in Seq(Byte), NEW s, NEW w, NEW q, NEW n \in 1 .. Len(pipe),
           Lined(pipe, s, w), s.part # "idle" => s.bytes > 0,
           q = Meeting(s, pipe[1]), n <= q.bytes
    PROVE  /\ Lined(SubSeq(pipe, n + 1, Len(pipe)), Moved(q, n), w)
           /\ Lined(SubSeq(pipe, n + 1, Len(pipe)), Advance(q, n), w)
<1> DEFINE rest == SubSeq(pipe, n + 1, Len(pipe))
<1>1. Len(pipe) \in Nat /\ n \in Nat /\ n > 0 /\ n <= Len(pipe)
  OBVIOUS
<1>2. Len(rest) = Len(pipe) - n
  BY PipeShrinks
<1>3. \A i \in 1 .. Len(rest) : rest[i] = pipe[n + i]
  <2> SUFFICES ASSUME NEW i \in 1 .. Len(rest) PROVE rest[i] = pipe[n + i]
    OBVIOUS
  <2>1. i \in 1 .. Len(pipe) - n
    BY <1>2
  <2>2. rest[i] = pipe[(n + 1) + i - 1]
    <3> DEFINE l == Len(pipe)
               k == n + 1
    <3>1. k \in 1 .. l + 1 /\ l \in k - 1 .. l /\ i \in 1 .. l - k + 1
      BY <2>1
    <3>2. \A j \in 1 .. l - k + 1 : SubSeq(pipe, k, l)[j] = pipe[k + j - 1]
      BY <3>1, SubSeqProperties
    <3> QED
      BY <3>1, <3>2
  <2>3. (n + 1) + i - 1 = n + i
    BY <2>1
  <2> QED
    BY <2>2, <2>3
<1> HIDE DEF rest
<1> QED
  BY <1>1, <1>2, <1>3, ReadOn DEF rest

LEMMA PipeWrites ==
    ASSUME NEW pipe \in Seq(Byte), NEW s, NEW w \in Sending, NEW n \in 1 .. w.bytes,
           Lined(pipe, s, w)
    PROVE  Lined(pipe \o Upcoming(w, n), s, Advance(w, n))
<1> DEFINE bytes == Upcoming(w, n)
           more == pipe \o bytes
<1>1. /\ w.part \in {"hdr", "body"} /\ w.bytes \in Nat \ {0} /\ w.msg \in Message
      /\ w.bytes <= PartLen(w.part, w.msg) /\ PartLen(w.part, w.msg) \in Nat
  BY Lengths DEF Sending
<1>2. bytes \in Seq(Byte) /\ Len(bytes) = n /\ n \in Nat /\ n <= w.bytes
  BY <1>1, UpcomingType
<1>3. ASSUME NEW i \in 1 .. n PROVE bytes[i] = Ahead(w, i)
  <2>1. bytes[i] = ByteOf(w.part, NextByte(w) + i - 1, w.msg)
    BY DEF Upcoming
  <2>2. NextByte(w) + i - 1 = PartLen(w.part, w.msg) - w.bytes + i
    BY <1>1 DEF NextByte
  <2> QED
    BY <2>1, <2>2 DEF Ahead
<1> HIDE DEF bytes
<1>4. /\ Len(pipe) \in Nat /\ Len(more) = Len(pipe) + n
      /\ \A i \in 1 .. Len(pipe) : more[i] = pipe[i]
      /\ \A i \in 1 .. n : more[Len(pipe) + i] = bytes[i]
  BY <1>2
<1> HIDE DEF more
<1>5. \A i \in 1 .. n : more[Len(pipe) + i] = Ahead(w, i)
  BY <1>3, <1>4
<1>6. Lined(more, s, Advance(w, n))
  BY <1>1, <1>2, <1>4, <1>5, WriteOn
<1> QED
  BY <1>6 DEF more, bytes

LEMMA AlignedInit == Init => Aligned
<1> SUFFICES ASSUME Init PROVE Aligned
  OBVIOUS
<1>1. Len(<<>>) = 0
  OBVIOUS
<1>2. /\ to_daemon = <<>> /\ to_client = <<>> /\ rx = Position("hdr", NoMessage)
      /\ tx = Idle /\ client.in = Idle /\ client.out = Idle
  BY DEF Init, Start
<1>3. NoMessage.len \in Nat
  BY DEF NoMessage
<1>4. Within(rx) /\ Settled(rx) = rx /\ Agree(Idle, rx)
  BY <1>2, <1>3, StartsAgree, IdleStarts
<1>5. Agree(Settled(rx), Settled(client.out)) /\ Agree(Settled(client.in), Settled(tx))
  BY <1>2, <1>4, IdleStarts, Agreement
<1>6. Lined(to_daemon, rx, client.out) /\ Lined(to_client, client.in, tx)
  BY <1>1, <1>2, <1>4, <1>5, IdleStarts, EmptyLined
<1>7. Amid(client.in)
  BY <1>2 DEF Amid, Idle
<1> QED
  BY <1>6, <1>7 DEF Aligned

(* Recv: the reader gets n bytes of its part, and goes on to the body when *)
(* the header is complete.                                                 *)
LEMMA ReceivingAligned ==
    ASSUME Shapes, Aligned, NEW n \in 1 .. AtMost(Len(to_daemon), rx.bytes)
    PROVE  Lined(SubSeq(to_daemon, n + 1, Len(to_daemon)), RxAdvance(n), client.out)
<1> DEFINE pipe == to_daemon
           first == Head(to_daemon)
           q == Meeting(rx, pipe[1])
           m == IF rx.part = "hdr" THEN first.msg ELSE rx.msg
           rest == SubSeq(pipe, n + 1, Len(pipe))
<1>1. pipe \in Seq(Byte) /\ rx \in Receiving
  BY DEF Shapes, SocketOK
<1>2. rx = [part |-> rx.part, bytes |-> rx.bytes, msg |-> rx.msg] /\ rx.part \in {"hdr", "body"}
      /\ rx.bytes \in Nat
  BY <1>1 DEF Receiving
<1>3. n \in 1 .. Len(pipe) /\ n <= rx.bytes /\ rx.bytes > 0
  BY <1>1, <1>2 DEF AtMost
<1>4. first = pipe[1] /\ Settled(rx) = rx
  BY <1>1, <1>3, PipeShrinks DEF Settled
<1>5. Lined(pipe, rx, client.out)
  BY DEF Aligned
<1> HIDE DEF first
<1>6. Continues(first, rx)
  <2>1. Len(pipe) > 0
    BY <1>3
  <2> HIDE DEF pipe
  <2>2. Continues(pipe[1], Settled(rx))
    BY <1>5, <2>1 DEF Lined
  <2> QED
    BY <1>4, <2>2
<1>7. q = [part |-> rx.part, bytes |-> rx.bytes, msg |-> m]
  <2>1. CASE AtStart(rx)
    <3>1. rx.part = "hdr" /\ rx.bytes = HdrLen
      BY <1>2, <2>1 DEF AtStart
    <3> QED
      BY <1>4, <2>1, <3>1 DEF Meeting, Position, PartLen
  <2>2. CASE ~AtStart(rx)
    <3>1. first = ByteOf(rx.part, NextByte(rx), rx.msg)
      BY <1>6, <2>2, Continuing
    <3>2. first.msg = rx.msg
      BY <3>1 DEF ByteOf
    <3>3. m = rx.msg
      BY <3>2
    <3> QED
      BY <1>2, <2>2, <3>3 DEF Meeting
  <2> QED
    BY <2>1, <2>2
<1>8. RxAdvance(n) = IF rx.part = "hdr" /\ n = rx.bytes THEN Position("body", m)
                     ELSE [rx EXCEPT !.bytes = rx.bytes - n, !.msg = m]
  BY DEF RxAdvance, first
<1> HIDE DEF m, q
<1>9. q.part = rx.part /\ q.bytes = rx.bytes /\ q.msg = m
  BY <1>7
<1>10. Lined(rest, Moved(q, n), client.out)
  <2>1. q = Meeting(rx, pipe[1]) /\ n <= q.bytes
    BY <1>3, <1>9 DEF q
  <2> HIDE DEF pipe
  <2>2. Lined(SubSeq(pipe, n + 1, Len(pipe)), Moved(q, n), client.out)
    BY <1>1, <1>3, <1>5, <2>1, PipeReads
  <2> QED
    BY <2>2
<1>11. Moved(q, n) = [part |-> rx.part, bytes |-> rx.bytes - n, msg |-> m]
  BY <1>7, <1>9 DEF Moved
<1> HIDE DEF rest
<1>12. Lined(rest, RxAdvance(n), client.out)
  <2>1. CASE rx.part = "hdr" /\ n = rx.bytes
    <3> DEFINE s == Moved(q, n)
    <3>1. s.part = "hdr" /\ s.bytes = 0 /\ s.msg = m
      BY <1>2, <1>11, <2>1
    <3> HIDE DEF s
    <3>2. Within(s) /\ Lined(rest, s, client.out)
      BY <1>10 DEF Lined, s
    <3>3. NoMessage.len \in Nat
      BY DEF NoMessage
    <3>4. Within(Position("body", s.msg)) /\ Agree(Settled(s), Settled(Position("body", s.msg)))
      BY <3>1, <3>2, <3>3, NextPart
    <3>5. Lined(rest, Position("body", s.msg), client.out)
      BY <3>2, <3>4, ReaderAgrees
    <3> QED
      BY <1>8, <2>1, <3>1, <3>5
  <2>2. CASE ~(rx.part = "hdr" /\ n = rx.bytes)
    <3>1. RxAdvance(n) = [part |-> rx.part, bytes |-> rx.bytes - n, msg |-> m]
      BY <1>2, <1>8, <2>2
    <3> QED
      BY <1>10, <1>11, <3>1
  <2> QED
    BY <2>1, <2>2
<1> QED
  BY <1>12 DEF rest

LEMMA AlignedStep == Shapes /\ Aligned /\ [Next]_vars => Aligned'
<1> SUFFICES ASSUME Shapes, Aligned, [Next]_vars PROVE Aligned'
  OBVIOUS
<1>p. /\ to_daemon \in Seq(Byte) /\ to_client \in Seq(Byte)
      /\ tx \in Sending \cup {Idle} /\ rx \in Receiving /\ tx_queue \in Seq(Queued)
      /\ client = [out |-> client.out, in |-> client.in, awaiting |-> client.awaiting]
      /\ client.out \in Sending \cup {Idle} /\ client.in \in Sending \cup {Idle}
  BY DEF Shapes, SocketOK, QueueOK, ClientOK
<1>a. /\ Lined(to_daemon, rx, client.out)
      /\ Lined(to_client, client.in, tx)
      /\ Amid(client.in)
  BY DEF Aligned
<1>w. Within(rx) /\ Within(client.out) /\ Within(client.in) /\ Within(tx)
  BY <1>a DEF Lined
<1>1. CASE UNCHANGED <<to_daemon, to_client, rx, tx, client>>
  BY <1>a, <1>1 DEF Aligned
<1>2. CASE Recv
  <2>1. UNCHANGED <<to_client, tx, client>>
    BY <1>2 DEF Recv
  <2>2. CASE \E n \in 1 .. AtMost(Len(to_daemon), rx.bytes) :
                /\ to_daemon' = SubSeq(to_daemon, n + 1, Len(to_daemon))
                /\ rx' = RxAdvance(n)
    <3>1. Lined(to_daemon', rx', client.out)
      BY <2>2, ReceivingAligned
    <3> QED
      BY <1>a, <2>1, <3>1 DEF Aligned
  <2>3. CASE UNCHANGED <<to_daemon, rx>>
    BY <1>a, <2>1, <2>3 DEF Aligned
  <2> QED
    BY <1>2, <2>2, <2>3 DEF Recv
<1>3. CASE Handle
  <2>1. /\ UNCHANGED <<to_daemon, to_client, tx, client>>
        /\ rx.part = "body" /\ rx.bytes = 0 /\ rx' = Position("hdr", NoMessage)
    BY <1>3 DEF Handle, socket, Start
  <2>2. NoMessage.len \in Nat
    BY DEF NoMessage
  <2>3. Within(rx') /\ Agree(Settled(rx), Settled(rx'))
    BY <1>w, <2>1, <2>2, NextPart
  <2>4. Lined(to_daemon, rx', client.out)
    BY <1>a, <2>3, ReaderAgrees
  <2> QED
    BY <1>a, <2>1, <2>4 DEF Aligned
<1>4. CASE TxNext
  <2>1. UNCHANGED <<to_daemon, to_client, rx, client>> /\ tx = Idle
    BY <1>4 DEF TxNext, socket
  <2>2. CASE tx_queue = <<>>
    BY <1>a, <1>4, <2>1, <2>2 DEF TxNext, Aligned
  <2>3. CASE tx_queue # <<>>
    <3> DEFINE m == Built(Head(tx_queue))
    <3>1. tx' = Position("hdr", m)
      BY <1>4, <2>3 DEF TxNext
    <3>2. m \in Message
      BY <1>p, <2>3, BuiltType
    <3> HIDE DEF m
    <3>3. m.len \in Nat
      BY <3>2, Lengths
    <3>4. Within(tx') /\ Settled(tx') = tx' /\ Agree(Idle, tx')
      BY <3>1, <3>3, StartsAgree, IdleStarts
    <3>5. Lined(to_client, client.in, tx')
      BY <1>a, <2>1, <3>4, IdleStarts, WriterAgrees
    <3> QED
      BY <1>a, <2>1, <3>5 DEF Aligned
  <2> QED
    BY <2>2, <2>3
<1>5. CASE Send
  <2>1. UNCHANGED <<to_daemon, rx, client>> /\ tx # Idle
    BY <1>5 DEF Send
  <2>2. CASE \E n \in 1 .. AtMost(Room(to_client), tx.bytes) :
                to_client' = to_client \o Upcoming(tx, n) /\ tx' = TxAdvance(n)
    <3>1. PICK n \in 1 .. AtMost(Room(to_client), tx.bytes) :
                to_client' = to_client \o Upcoming(tx, n) /\ tx' = Advance(tx, n)
      BY <2>2 DEF TxAdvance
    <3>2. tx \in Sending
      BY <1>p, <2>1
    <3>3. n \in 1 .. tx.bytes
      BY <1>p, <3>1, <3>2, PipeGrows
    <3>4. Lined(to_client', client.in, tx')
      BY <1>a, <1>p, <3>1, <3>2, <3>3, PipeWrites
    <3> QED
      BY <1>a, <2>1, <3>4 DEF Aligned
  <2>3. CASE UNCHANGED <<to_client, tx>>
    BY <1>a, <2>1, <2>3 DEF Aligned
  <2> QED
    BY <1>5, <2>2, <2>3 DEF Send
<1>6. CASE Request
  <2>1. PICK id \in Id \ ToSet(client.awaiting), len \in RequestLens :
          client' = [out |-> Position("hdr", [kind |-> "request", id |-> id, len |-> len]),
                     in |-> client.in,
                     awaiting |-> Append(client.awaiting, id)]
    BY <1>6 DEF Request
  <2> DEFINE m == [kind |-> "request", id |-> id, len |-> len]
             s == Position("hdr", m)
  <2>2. m.len \in Nat
    BY ConnAssumption
  <2>3. client'.out = s /\ client'.in = client.in
    BY <2>1
  <2>4. Within(s) /\ Settled(s) = s /\ Agree(Idle, s)
    BY <2>2, StartsAgree, IdleStarts
  <2> HIDE DEF s, m
  <2>5. client.out = Idle /\ UNCHANGED <<to_daemon, to_client, rx, tx>>
    BY <1>6 DEF Request, socket
  <2>6. Lined(to_daemon, rx, s)
    BY <1>a, <2>4, <2>5, IdleStarts, WriterAgrees
  <2> QED
    BY <1>a, <2>3, <2>5, <2>6 DEF Aligned
<1>7. CASE ClientWrite
  <2>1. PICK n \in 1 .. AtMost(Room(to_daemon), client.out.bytes) :
          /\ to_daemon' = to_daemon \o Upcoming(client.out, n)
          /\ client' = [client EXCEPT !.out = Advance(client.out, n)]
    BY <1>7 DEF ClientWrite
  <2>2. client.out \in Sending
    BY <1>7, <1>p DEF ClientWrite
  <2>3. n \in 1 .. client.out.bytes
    BY <1>p, <2>1, <2>2, PipeGrows
  <2>4. client'.out = Advance(client.out, n) /\ client'.in = client.in
        /\ UNCHANGED <<to_client, rx, tx>>
    BY <1>7, <1>p, <2>1 DEF ClientWrite
  <2>5. Lined(to_daemon', rx, client'.out)
    BY <1>a, <1>p, <2>1, <2>2, <2>3, <2>4, PipeWrites
  <2> QED
    BY <1>a, <2>4, <2>5 DEF Aligned
<1>8. CASE ClientRead
  <2> DEFINE m == Head(to_client).msg
             at == IF client.in = Idle THEN Position("hdr", m) ELSE client.in
  <2>1. PICK n \in 1 .. AtMost(Len(to_client), at.bytes) :
          /\ to_client' = SubSeq(to_client, n + 1, Len(to_client))
          /\ client' = [out |-> client.out,
                         in |-> Advance(at, n),
                         awaiting |-> IF Advance(at, n) = Idle
                                      THEN Without(client.awaiting, at.msg.id)
                                      ELSE client.awaiting]
    BY <1>8 DEF ClientRead
  <2>2. to_client # <<>> /\ UNCHANGED <<to_daemon, rx, tx>>
    BY <1>8 DEF ClientRead
  <2>3. m \in Message /\ Head(to_client) = to_client[1]
    <3>1. Head(to_client) \in Byte /\ Head(to_client) = to_client[1]
      BY <1>p, <2>2
    <3> QED
      BY <3>1 DEF Byte
  <2>4. at = Meeting(client.in, to_client[1])
    <3>1. AtStart(client.in) <=> client.in = Idle
      <4>1. client.in # Idle => client.in.part # "idle"
        BY <1>p DEF Sending
      <4> QED
        BY <1>a, <4>1, IdleStarts DEF Amid
    <3> QED
      BY <2>3, <3>1 DEF Meeting
  <2>5. at \in Sending /\ Within(at)
    <3>1. m.len \in Nat
      BY <2>3, Lengths
    <3> QED
      BY <1>p, <1>w, <2>3, <3>1, HdrSends, StartsAgree
  <2>6. client'.in = Advance(at, n) /\ client'.out = client.out
    BY <2>1
  <2> HIDE DEF at, m
  <2>7. at.part # "idle" /\ at.bytes \in Nat
    BY <2>5 DEF Sending
  <2>8. n \in 1 .. Len(to_client) /\ n \in Nat /\ n > 0 /\ n <= at.bytes
    BY <1>p, <2>1, <2>7 DEF AtMost
  <2>9. client.in.part # "idle" => client.in.bytes > 0
    BY <1>a DEF Amid
  <2>10. Lined(to_client', Advance(at, n), tx)
    BY <1>a, <1>p, <2>1, <2>4, <2>8, <2>9, PipeReads
  <2>11. Amid(Advance(at, n))
    BY <2>5, <2>7, <2>8, AdvanceAmid
  <2> QED
    BY <1>a, <2>2, <2>6, <2>10, <2>11 DEF Aligned
<1>9. CASE UNCHANGED vars \/ Poll \/ Callback \/ WatchEvent \/ Close
  BY <1>1, <1>9 DEF vars, socket, Poll, Callback, WatchEvent, Close
<1> QED
  BY <1>2, <1>3, <1>4, <1>5, <1>6, <1>7, <1>8, <1>9 DEF Next, Daemon, Working, Client

(* What is lined up is read in order.                                      *)
LEMMA LinedReads ==
    ASSUME NEW pipe \in Seq(Byte), NEW s, NEW t, NEW w, Lined(pipe, s, w),
           t.bytes > 0 => Agree(Settled(s), t)
    PROVE  InOrder(pipe, t)
<1>1. Len(pipe) \in Nat /\ (pipe # <<>> => Len(pipe) > 0)
  OBVIOUS
<1>2. ASSUME pipe # <<>>, t.bytes > 0 PROVE Continues(pipe[1], t)
  <2>1. Continues(pipe[1], Settled(s))
    BY <1>1, <1>2 DEF Lined
  <2> QED
    BY <1>2, <2>1, AgreeingContinue
<1> QED
  BY <1>2 DEF InOrder, Lined

(* BytesInOrder: however recv and send break off, at a full socket and an  *)
(* empty one, either side reads byte by byte what the other one wrote, and *)
(* stays aligned with its messages (read, write, process_rx, process_tx).  *)
THEOREM BytesKeepOrder == Spec => []BytesInOrder
<1>1. Init => Shapes /\ Aligned
  BY ShapesInit, AlignedInit
<1>2. Shapes /\ Aligned /\ [Next]_vars => Shapes' /\ Aligned'
  BY ShapesStep, AlignedStep
<1>3. Shapes /\ Aligned => BytesInOrder
  <2> SUFFICES ASSUME Shapes, Aligned PROVE BytesInOrder
    OBVIOUS
  <2> DEFINE at == IF client.in = Idle THEN Start ELSE client.in
  <2>1. to_daemon \in Seq(Byte) /\ to_client \in Seq(Byte)
        /\ client.in \in Sending \cup {Idle}
    BY DEF Shapes, SocketOK, ClientOK
  <2>2. /\ Lined(to_daemon, rx, client.out) /\ Lined(to_client, client.in, tx)
        /\ Amid(client.in)
    BY DEF Aligned
  <2>3. rx.bytes > 0 => Agree(Settled(rx), rx)
    BY DEF Settled, Agree
  <2>4. Agree(Settled(client.in), at)
    <3>1. CASE client.in = Idle
      <4>1. AtStart(Start)
        BY DEF Start, Position, PartLen, AtStart
      <4> QED
        BY <3>1, <4>1, IdleStarts DEF Agree
    <3>2. CASE client.in # Idle
      <4>1. client.in.part # "idle"
        BY <2>1, <3>2 DEF Sending
      <4>2. Settled(client.in) = client.in /\ at = client.in
        BY <2>2, <3>2, <4>1 DEF Amid, Settled
      <4> QED
        BY <4>2 DEF Agree
    <3> QED
      BY <3>1, <3>2
  <2>5. InOrder(to_daemon, rx)
    BY <2>1, <2>2, <2>3, LinedReads
  <2> HIDE DEF at
  <2>6. InOrder(to_client, at)
    BY <2>1, <2>2, <2>4, LinedReads
  <2> QED
    BY <2>5, <2>6 DEF BytesInOrder, at
<1> QED
  BY <1>1, <1>2, <1>3, PTL DEF Spec

-----------------------------------------------------------------------------
(***************************************************************************)
(* The requests in a list: the recursive function of Requests exists, its  *)
(* values are known step by step, and it takes concatenations apart.       *)
(***************************************************************************)
Picking(ids, g, l) ==
    g = [n \in 0 .. l |->
            IF n = 0 THEN <<>>
            ELSE IF ids[n] \in Id THEN Append(g[n - 1], ids[n]) ELSE g[n - 1]]

LEMMA PickingSteps ==
    ASSUME NEW ids, NEW l \in Nat, NEW g, Picking(ids, g, l)
    PROVE  /\ g[0] = <<>>
           /\ \A n \in 1 .. l :
                g[n] = IF ids[n] \in Id THEN Append(g[n - 1], ids[n]) ELSE g[n - 1]
<1> DEFINE val(n) == IF n = 0 THEN <<>>
                     ELSE IF ids[n] \in Id THEN Append(g[n - 1], ids[n]) ELSE g[n - 1]
<1>1. g = [n \in 0 .. l |-> val(n)]
  BY DEF Picking
<1>2. \A n \in 0 .. l : g[n] = val(n)
  <2> HIDE DEF val
  <2> QED
    BY <1>1
<1>3. 0 \in 0 .. l
  OBVIOUS
<1>4. g[0] = <<>>
  BY <1>2, <1>3
<1>5. ASSUME NEW n \in 1 .. l
      PROVE  g[n] = IF ids[n] \in Id THEN Append(g[n - 1], ids[n]) ELSE g[n - 1]
  <2>1. n \in 0 .. l /\ n # 0
    OBVIOUS
  <2> QED
    BY <1>2, <2>1
<1> QED
  BY <1>4, <1>5

LEMMA PickingExists ==
    ASSUME NEW ids, NEW l \in Nat
    PROVE  \E g : Picking(ids, g, l)
<1> DEFINE S == {k \in Nat : \E g : Picking(ids, g, k)}
<1>1. 0 \in S
  <2> DEFINE g == [n \in 0 .. 0 |-> <<>>]
  <2>1. g = [n \in 0 .. 0 |->
               IF n = 0 THEN <<>>
               ELSE IF ids[n] \in Id THEN Append(g[n - 1], ids[n]) ELSE g[n - 1]]
    <3> DEFINE val(n) == IF n = 0 THEN <<>>
                         ELSE IF ids[n] \in Id THEN Append(g[n - 1], ids[n]) ELSE g[n - 1]
    <3>1. \A n \in 0 .. 0 : val(n) = <<>>
      OBVIOUS
    <3> HIDE DEF val
    <3>2. [n \in 0 .. 0 |-> val(n)] = [n \in 0 .. 0 |-> <<>>]
      BY <3>1
    <3> QED
      BY <3>2 DEF val
  <2> HIDE DEF g
  <2>2. Picking(ids, g, 0)
    BY <2>1 DEF Picking
  <2> QED
    BY <2>2
<1>2. ASSUME NEW k \in Nat, k \in S PROVE k + 1 \in S
  <2>1. PICK g : Picking(ids, g, k)
    BY <1>2
  <2> DEFINE e == IF ids[k + 1] \in Id THEN Append(g[k], ids[k + 1]) ELSE g[k]
             h == [n \in 0 .. k + 1 |-> IF n = k + 1 THEN e ELSE g[n]]
             val(n) == IF n = 0 THEN <<>>
                       ELSE IF ids[n] \in Id THEN Append(h[n - 1], ids[n]) ELSE h[n - 1]
  <2>2. g[0] = <<>> /\ \A n \in 1 .. k :
            g[n] = IF ids[n] \in Id THEN Append(g[n - 1], ids[n]) ELSE g[n - 1]
    BY <2>1, PickingSteps
  <2>3. h[k + 1] = e /\ \A n \in 0 .. k : h[n] = g[n]
    <3> HIDE DEF e
    <3> QED
      OBVIOUS
  <2> HIDE DEF h
  <2>4. ASSUME NEW n \in 0 .. k + 1 PROVE h[n] = val(n)
    <3>1. CASE n = 0
      <4>1. 0 \in 0 .. k
        OBVIOUS
      <4> QED
        BY <2>2, <2>3, <3>1, <4>1
    <3>2. CASE n \in 1 .. k
      <4>1. n \in 0 .. k /\ n - 1 \in 0 .. k /\ n # 0
        BY <3>2
      <4> QED
        BY <2>2, <2>3, <3>2, <4>1
    <3>3. CASE n = k + 1
      <4>1. n - 1 = k /\ k \in 0 .. k /\ n # 0
        BY <3>3
      <4> QED
        BY <2>3, <3>3, <4>1
    <3> QED
      BY <3>1, <3>2, <3>3
  <2> HIDE DEF val
  <2>5. h = [n \in 0 .. k + 1 |-> h[n]]
    BY DEF h
  <2>6. h = [n \in 0 .. k + 1 |-> val(n)]
    BY <2>4, <2>5
  <2>7. Picking(ids, h, k + 1)
    BY <2>6 DEF Picking, val
  <2> QED
    BY <2>7
<1> HIDE DEF S
<1>3. l \in S
  BY <1>1, <1>2, Inductive
<1> QED
  BY <1>3 DEF S

LEMMA RequestsPicking ==
    ASSUME NEW ids, Len(ids) \in Nat
    PROVE  \E g : Picking(ids, g, Len(ids)) /\ Requests(ids) = g[Len(ids)]
<1> DEFINE g == CHOOSE f : Picking(ids, f, Len(ids))
<1>1. Picking(ids, g, Len(ids))
  BY PickingExists
<1>2. Requests(ids) = g[Len(ids)]
  BY DEF Requests, Picking
<1> QED
  BY <1>1, <1>2

LEMMA PickingType ==
    ASSUME NEW ids, NEW l \in Nat, NEW g, Picking(ids, g, l)
    PROVE  \A n \in 0 .. l : g[n] \in Seq(Id)
<1> DEFINE S == {k \in Nat : k <= l => g[k] \in Seq(Id)}
<1>0. g[0] = <<>> /\ \A n \in 1 .. l :
            g[n] = IF ids[n] \in Id THEN Append(g[n - 1], ids[n]) ELSE g[n - 1]
  BY PickingSteps
<1>1. 0 \in S
  <2>1. <<>> \in Seq(Id)
    OBVIOUS
  <2>2. g[0] \in Seq(Id)
    BY <1>0, <2>1
  <2> QED
    BY <2>2
<1>2. ASSUME NEW k \in Nat, k \in S PROVE k + 1 \in S
  <2>1. SUFFICES ASSUME k + 1 <= l PROVE g[k + 1] \in Seq(Id)
    OBVIOUS
  <2>2. g[k] \in Seq(Id) /\ k + 1 \in 1 .. l /\ (k + 1) - 1 = k
    BY <1>2, <2>1
  <2>3. g[k + 1] = IF ids[k + 1] \in Id THEN Append(g[k], ids[k + 1]) ELSE g[k]
    BY <1>0, <2>2
  <2> QED
    BY <2>2, <2>3
<1> HIDE DEF S
<1>3. Nat \subseteq S
  BY <1>1, <1>2, Inductive
<1> QED
  BY <1>3 DEF S

(* What is picked depends on the items up to there only.                   *)
LEMMA PickingSame ==
    ASSUME NEW ids, NEW jds, NEW l \in Nat, NEW m \in Nat, l <= m,
           NEW g, NEW h, Picking(ids, g, l), Picking(jds, h, m),
           \A n \in 1 .. l : jds[n] = ids[n]
    PROVE  \A n \in 0 .. l : h[n] = g[n]
<1> DEFINE S == {k \in Nat : k <= l => h[k] = g[k]}
<1>0. /\ g[0] = <<>> /\ \A n \in 1 .. l :
            g[n] = IF ids[n] \in Id THEN Append(g[n - 1], ids[n]) ELSE g[n - 1]
      /\ h[0] = <<>> /\ \A n \in 1 .. m :
            h[n] = IF jds[n] \in Id THEN Append(h[n - 1], jds[n]) ELSE h[n - 1]
  BY PickingSteps
<1>1. 0 \in S
  BY <1>0
<1>2. ASSUME NEW k \in Nat, k \in S PROVE k + 1 \in S
  <2>1. SUFFICES ASSUME k + 1 <= l PROVE h[k + 1] = g[k + 1]
    OBVIOUS
  <2>2. h[k] = g[k] /\ k + 1 \in 1 .. l /\ k + 1 \in 1 .. m /\ (k + 1) - 1 = k
    BY <1>2, <2>1
  <2>3. g[k + 1] = IF ids[k + 1] \in Id THEN Append(g[k], ids[k + 1]) ELSE g[k]
    BY <1>0, <2>2
  <2>4. h[k + 1] = IF jds[k + 1] \in Id THEN Append(h[k], jds[k + 1]) ELSE h[k]
    BY <1>0, <2>2
  <2> QED
    BY <2>2, <2>3, <2>4
<1> HIDE DEF S
<1>3. Nat \subseteq S
  BY <1>1, <1>2, Inductive
<1> QED
  BY <1>3 DEF S

Joint(a, b) == a \o b

LEMMA JointLaws ==
    /\ \A a \in Seq(Id), b \in Seq(Id) : Joint(a, b) \in Seq(Id)
    /\ \A a \in Seq(Id), b \in Seq(Id), c \in Seq(Id) :
          Joint(Joint(a, b), c) = Joint(a, Joint(b, c))
    /\ \A a \in Seq(Id) : Joint(<<>>, a) = a /\ Joint(a, <<>>) = a
<1>1. ASSUME NEW a \in Seq(Id), NEW b \in Seq(Id) PROVE Joint(a, b) \in Seq(Id)
  BY DEF Joint
<1>2. ASSUME NEW a \in Seq(Id), NEW b \in Seq(Id), NEW c \in Seq(Id)
      PROVE  Joint(Joint(a, b), c) = Joint(a, Joint(b, c))
  BY DEF Joint
<1>3. ASSUME NEW a \in Seq(Id) PROVE Joint(<<>>, a) = a /\ Joint(a, <<>>) = a
  BY DEF Joint
<1> QED
  BY <1>1, <1>2, <1>3

LEMMA AppendConcat ==
    ASSUME NEW a \in Seq(Id), NEW b \in Seq(Id), NEW e \in Id
    PROVE  Append(a \o b, e) = a \o Append(b, e)
  OBVIOUS

(* kds, of length o, is ids followed by jds.                               *)
Joined(ids, l, jds, m, kds, o) ==
    /\ l \in Nat /\ m \in Nat /\ o = l + m
    /\ \A n \in 1 .. l : kds[n] = ids[n]
    /\ \A n \in 1 .. m : kds[l + n] = jds[n]

LEMMA PickingOn ==
    ASSUME NEW ids, NEW jds, NEW kds, NEW l, NEW m, NEW o, NEW f, NEW g, NEW h,
           Joined(ids, l, jds, m, kds, o),
           Picking(ids, f, l), Picking(jds, g, m), Picking(kds, h, o)
    PROVE  h[o] = Joint(f[l], g[m])
<1> DEFINE a == f[l]
           at(k) == h[l + k]
           b(k) == a \o g[k]
           S == {k \in Nat : k <= m => at(k) = b(k)}
<1>o. /\ l \in Nat /\ m \in Nat /\ o \in Nat /\ o = l + m
      /\ \A n \in 1 .. l : kds[n] = ids[n]
      /\ \A n \in 1 .. m : kds[l + n] = jds[n]
  BY DEF Joined
<1>0. /\ g[0] = <<>> /\ \A n \in 1 .. m :
            g[n] = IF jds[n] \in Id THEN Append(g[n - 1], jds[n]) ELSE g[n - 1]
      /\ \A n \in 1 .. o :
            h[n] = IF kds[n] \in Id THEN Append(h[n - 1], kds[n]) ELSE h[n - 1]
  BY <1>o, PickingSteps
<1>a. h[l] = a
  <2>1. l <= o /\ o \in Nat /\ l \in 0 .. l
    BY <1>o
  <2> QED
    BY <1>o, <2>1, PickingSame
<1>b. a \in Seq(Id)
  <2>1. l \in 0 .. l
    BY <1>o
  <2> QED
    BY <1>o, <2>1, PickingType
<1>c. \A n \in 0 .. m : g[n] \in Seq(Id)
  BY <1>o, PickingType
<1> HIDE DEF a
<1>1. at(0) = b(0)
  <2>1. l + 0 = l
    BY <1>o
  <2>2. a \o <<>> = a
    BY <1>b
  <2> QED
    BY <1>0, <1>a, <2>1, <2>2
<1>2. ASSUME NEW k \in Nat, k + 1 <= m, at(k) = b(k) PROVE at(k + 1) = b(k + 1)
  <2> DEFINE j == k + 1
             i == l + j
             c == g[k]
             e == jds[j]
  <2>1. j \in 1 .. m /\ k \in 0 .. m /\ j - 1 = k /\ i \in 1 .. o /\ i - 1 = l + k
    BY <1>2, <1>o
  <2>2. kds[i] = e
    BY <1>o, <2>1
  <2>3. g[j] = IF e \in Id THEN Append(c, e) ELSE c
    BY <1>0, <2>1
  <2>4. h[i] = IF e \in Id THEN Append(at(k), e) ELSE at(k)
    <3>1. h[i] = IF kds[i] \in Id THEN Append(h[i - 1], kds[i]) ELSE h[i - 1]
      <4> HIDE DEF i
      <4> QED
        BY <1>0, <2>1
    <3>2. h[i - 1] = at(k)
      BY <2>1
    <3> HIDE DEF i, e, at
    <3> QED
      BY <2>2, <3>1, <3>2
  <2>5. at(k) = a \o c /\ c \in Seq(Id)
    BY <1>2, <1>c, <2>1
  <2>6. at(k + 1) = h[i] /\ b(k + 1) = a \o g[j]
    OBVIOUS
  <2> HIDE DEF e, i, j, c, at, b
  <2>7. CASE e \in Id
    <3>1. Append(a \o c, e) = a \o Append(c, e)
      BY <1>b, <2>5, <2>7, AppendConcat
    <3> QED
      BY <2>3, <2>4, <2>5, <2>6, <2>7, <3>1
  <2>8. CASE e \notin Id
    BY <2>3, <2>4, <2>5, <2>6, <2>8
  <2> QED
    BY <2>7, <2>8
<1> HIDE DEF at, b
<1>3. 0 \in S
  BY <1>1
<1>4. ASSUME NEW k \in Nat, k \in S PROVE k + 1 \in S
  <2>1. CASE k + 1 <= m
    <3>1. at(k) = b(k)
      BY <1>4, <2>1, <1>o
    <3>2. at(k + 1) = b(k + 1)
      BY <1>2, <2>1, <3>1
    <3> QED
      BY <3>2
  <2>2. CASE ~(k + 1 <= m)
    BY <2>2
  <2> QED
    BY <2>1, <2>2
<1> HIDE DEF S
<1>5. m \in S
  BY <1>o, <1>3, <1>4, Inductive
<1>6. at(m) = b(m)
  BY <1>5 DEF S
<1> QED
  BY <1>o, <1>6 DEF at, b, a, Joint

(* Concatenation, lists without requests, and lists of one.                *)
Marks == Id \cup {NoId}

LEMMA RequestsJoint ==
    ASSUME NEW ids \in Seq(Marks), NEW jds \in Seq(Marks)
    PROVE  /\ Requests(Joint(ids, jds)) = Joint(Requests(ids), Requests(jds))
           /\ Requests(ids) \in Seq(Id) /\ Joint(ids, jds) \in Seq(Marks)
<1> DEFINE kds == ids \o jds
           l == Len(ids)
           m == Len(jds)
<1>1. l \in Nat /\ m \in Nat /\ Len(kds) = l + m /\ l + m \in Nat
  OBVIOUS
<1>2. /\ \A n \in 1 .. l : kds[n] = ids[n]
      /\ \A n \in 1 .. m : kds[l + n] = jds[n]
  OBVIOUS
<1>3. PICK f : Picking(ids, f, l) /\ Requests(ids) = f[l]
  BY <1>1, RequestsPicking
<1>4. PICK g : Picking(jds, g, m) /\ Requests(jds) = g[m]
  BY <1>1, RequestsPicking
<1> HIDE DEF kds
<1>5. PICK h : Picking(kds, h, l + m) /\ Requests(kds) = h[l + m]
  <2>1. PICK h : Picking(kds, h, Len(kds)) /\ Requests(kds) = h[Len(kds)]
    BY <1>1, RequestsPicking
  <2> QED
    BY <1>1, <2>1
<1> DEFINE o == l + m
<1> HIDE DEF l, m
<1>6. h[o] = Joint(f[l], g[m])
  <2>1. Joined(ids, l, jds, m, kds, o)
    BY <1>1, <1>2 DEF Joined, o
  <2>2. Picking(ids, f, l) /\ Picking(jds, g, m) /\ Picking(kds, h, o)
    BY <1>3, <1>4, <1>5 DEF o
  <2> HIDE DEF o
  <2> QED
    BY <2>1, <2>2, PickingOn
<1>7. f[l] \in Seq(Id)
  <2>1. l \in 0 .. l
    BY <1>1
  <2> QED
    BY <1>1, <1>3, <2>1, PickingType
<1>8. Joint(ids, jds) = kds /\ Joint(ids, jds) \in Seq(Marks)
  BY DEF Joint, kds
<1>9. Requests(kds) = Joint(f[l], g[m])
  BY <1>5, <1>6 DEF o
<1> QED
  BY <1>3, <1>4, <1>7, <1>8, <1>9

LEMMA RequestsLast ==
    ASSUME NEW ids \in Seq(Marks), NEW l \in Nat, Len(ids) = l + 1,
           \A n \in 1 .. l : ids[n] \notin Id
    PROVE  Requests(ids) = IF ids[l + 1] \in Id THEN <<ids[l + 1]>> ELSE <<>>
<1> DEFINE j == l + 1
<1>1. Len(ids) = j /\ j \in Nat /\ j \in 1 .. j /\ j - 1 = l
  OBVIOUS
<1>2. PICK g : Picking(ids, g, j) /\ Requests(ids) = g[j]
  <2>1. PICK g : Picking(ids, g, Len(ids)) /\ Requests(ids) = g[Len(ids)]
    BY <1>1, RequestsPicking
  <2> QED
    BY <1>1, <2>1
<1>3. g[0] = <<>> /\ \A n \in 1 .. j :
            g[n] = IF ids[n] \in Id THEN Append(g[n - 1], ids[n]) ELSE g[n - 1]
  BY <1>1, <1>2, PickingSteps
<1> DEFINE S == {k \in Nat : k <= l => g[k] = <<>>}
<1>4. 0 \in S
  BY <1>3
<1>5. ASSUME NEW k \in Nat, k \in S PROVE k + 1 \in S
  <2>1. SUFFICES ASSUME k + 1 <= l PROVE g[k + 1] = <<>>
    OBVIOUS
  <2>2. k + 1 \in 1 .. j /\ k + 1 \in 1 .. l /\ (k + 1) - 1 = k /\ g[k] = <<>>
    BY <1>5, <2>1
  <2> QED
    BY <1>3, <2>2
<1> HIDE DEF S
<1>6. l \in S
  BY <1>4, <1>5, Inductive
<1>7. g[l] = <<>>
  BY <1>6 DEF S
<1> DEFINE e == ids[j]
<1> HIDE DEF j
<1>8. g[j] = IF e \in Id THEN Append(g[l], e) ELSE g[l]
  BY <1>1, <1>3
<1> HIDE DEF e
<1>9. Append(<<>>, e) = <<e>>
  OBVIOUS
<1>10. Requests(ids) = IF e \in Id THEN <<e>> ELSE <<>>
  BY <1>2, <1>7, <1>8, <1>9
<1> QED
  BY <1>10 DEF e, j

LEMMA RequestsOne ==
    ASSUME NEW e \in Marks
    PROVE  Requests(<<e>>) = IF e \in Id THEN <<e>> ELSE <<>>
<1> DEFINE ids == <<e>>
<1>1. ids \in Seq(Marks) /\ Len(ids) = 0 + 1 /\ ids[0 + 1] = e /\ 0 \in Nat
  OBVIOUS
<1>2. \A n \in 1 .. 0 : ids[n] \notin Id
  OBVIOUS
<1> HIDE DEF ids
<1>3. Requests(ids) = IF ids[0 + 1] \in Id THEN <<ids[0 + 1]>> ELSE <<>>
  BY <1>1, <1>2, RequestsLast
<1> QED
  BY <1>1, <1>3 DEF ids

LEMMA RequestsEmpty == Requests(<<>>) = <<>>
<1> DEFINE ids == <<>>
<1>1. Len(ids) = 0 /\ Len(ids) \in Nat
  OBVIOUS
<1> HIDE DEF ids
<1>2. PICK g : Picking(ids, g, 0) /\ Requests(ids) = g[0]
  <2>1. PICK g : Picking(ids, g, Len(ids)) /\ Requests(ids) = g[Len(ids)]
    BY <1>1, RequestsPicking
  <2> QED
    BY <1>1, <2>1
<1>3. g[0] = <<>>
  BY <1>2, PickingSteps
<1> QED
  BY <1>2, <1>3 DEF ids

-----------------------------------------------------------------------------
(***************************************************************************)
(* The messages that end in a pipe, what a reader takes from them and what *)
(* a writer adds.                                                          *)
(***************************************************************************)
LEMMA Spliced ==
    ASSUME NEW a \in Seq(Marks), NEW b \in Seq(Marks), NEW c \in Seq(Marks),
           Len(c) = Len(a) + Len(b),
           \A i \in 1 .. Len(a) : c[i] = a[i],
           \A i \in 1 .. Len(b) : c[Len(a) + i] = b[i]
    PROVE  c = Joint(a, b)
<1> DEFINE d == a \o b
           k == Len(a)
           l == Len(b)
<1>1. /\ d \in Seq(Marks) /\ Len(d) = k + l /\ k \in Nat /\ l \in Nat
      /\ \A i \in 1 .. k : d[i] = a[i]
      /\ \A i \in 1 .. l : d[k + i] = b[i]
  OBVIOUS
<1> HIDE DEF d
<1>2. ASSUME NEW i \in 1 .. Len(c) PROVE c[i] = d[i]
  <2>1. CASE i <= k
    <3>1. i \in 1 .. k
      BY <1>1, <2>1
    <3> QED
      BY <1>1, <3>1
  <2>2. CASE ~(i <= k)
    <3>1. i - k \in 1 .. l /\ k + (i - k) = i
      BY <1>1, <2>2
    <3> QED
      BY <1>1, <3>1
  <2> QED
    BY <2>1, <2>2
<1>3. Len(c) = Len(d)
  BY <1>1
<1>4. c = d
  BY <1>1, <1>2, <1>3, SeqEqual
<1> QED
  BY <1>4 DEF d, Joint

LEMMA EndingJoint ==
    /\ \A pipe \in Seq(Byte) : Ending(pipe) \in Seq(Marks)
    /\ \A pipe \in Seq(Byte), u \in Seq(Byte) :
          Ending(Joint(pipe, u)) = Joint(Ending(pipe), Ending(u))
<1> DEFINE mark(b) == IF After(b) = Idle THEN b.msg.id ELSE NoId
<1>1. \A b \in Byte : mark(b) \in Marks
  BY DEF Byte, Message, Marks
<1>2. \A pipe : Ending(pipe) = [i \in DOMAIN pipe |-> mark(pipe[i])]
  BY DEF Ending
<1> HIDE DEF mark
<1>3. ASSUME NEW pipe \in Seq(Byte)
      PROVE  /\ Ending(pipe) \in Seq(Marks) /\ Len(Ending(pipe)) = Len(pipe)
             /\ \A i \in 1 .. Len(pipe) : Ending(pipe)[i] = mark(pipe[i])
  <2> DEFINE e == [i \in 1 .. Len(pipe) |-> mark(pipe[i])]
  <2>1. DOMAIN pipe = 1 .. Len(pipe) /\ \A i \in 1 .. Len(pipe) : pipe[i] \in Byte
    OBVIOUS
  <2>2. \A i \in 1 .. Len(pipe) : mark(pipe[i]) \in Marks
    BY <1>1, <2>1
  <2>3. e \in Seq(Marks) /\ Len(e) = Len(pipe)
    BY <2>2
  <2>4. \A i \in 1 .. Len(pipe) : e[i] = mark(pipe[i])
    OBVIOUS
  <2>5. Ending(pipe) = e
    BY <1>2, <2>1, Zenon
  <2> HIDE DEF e
  <2> QED
    BY <2>3, <2>4, <2>5
<1>4. ASSUME NEW pipe \in Seq(Byte), NEW u \in Seq(Byte)
      PROVE  Ending(Joint(pipe, u)) = Joint(Ending(pipe), Ending(u))
  <2> DEFINE k == Len(pipe)
             l == Len(u)
             all == pipe \o u
  <2>1. /\ k \in Nat /\ l \in Nat /\ Len(all) = k + l /\ all \in Seq(Byte)
        /\ \A i \in 1 .. k : all[i] = pipe[i]
        /\ \A i \in 1 .. l : all[k + i] = u[i]
    OBVIOUS
  <2>2. \A i \in 1 .. k : Ending(pipe)[i] = mark(pipe[i])
    BY <1>3
  <2>3. \A i \in 1 .. l : Ending(u)[i] = mark(u[i])
    BY <1>3
  <2> HIDE DEF all
  <2>4. \A i \in 1 .. k + l : Ending(all)[i] = mark(all[i])
    BY <1>3, <2>1
  <2>5. /\ Ending(pipe) \in Seq(Marks) /\ Ending(u) \in Seq(Marks)
        /\ Ending(all) \in Seq(Marks)
        /\ Len(Ending(pipe)) = k /\ Len(Ending(u)) = l /\ Len(Ending(all)) = k + l
    BY <1>3, <2>1
  <2> DEFINE a == Ending(pipe)
             b == Ending(u)
             c == Ending(all)
  <2> HIDE DEF a, b, c, k, l
  <2>6. \A i \in 1 .. k : c[i] = a[i]
    <3>1. \A i \in 1 .. k : i \in 1 .. k + l
      BY <2>1
    <3> QED
      BY <2>1, <2>2, <2>4, <3>1 DEF a, c
  <2>7. \A i \in 1 .. l : c[k + i] = b[i]
    <3>1. \A i \in 1 .. l : k + i \in 1 .. k + l
      BY <2>1
    <3> QED
      BY <2>1, <2>3, <2>4, <3>1 DEF b, c
  <2>8. c = Joint(a, b)
    BY <2>5, <2>6, <2>7, Spliced DEF a, b, c
  <2> QED
    BY <2>8 DEF a, b, c, all, Joint
<1> QED
  BY <1>3, <1>4

(* The request, if it is one, of the message that ends with the n-th byte  *)
(* from q on.                                                              *)
Completes(q, n) == IF Advance(q, n) = Idle THEN Requests(<<q.msg.id>>) ELSE <<>>

LEMMA PartEndings ==
    ASSUME NEW u \in Seq(Byte), NEW q, Inside(q), NEW l \in Nat, Len(u) = l + 1,
           l + 1 <= q.bytes, q.msg.id \in Marks,
           \A i \in 1 .. l + 1 : u[i] = Ahead(q, i)
    PROVE  Requests(Ending(u)) = Completes(q, l + 1)
<1> DEFINE e == Ending(u)
           n == l + 1
<1>1. n \in Nat /\ n \in 1 .. n /\ n <= q.bytes /\ q.bytes \in Nat
      /\ q.part \in {"hdr", "body"}
  BY DEF Inside
<1>2. e \in Seq(Marks)
  BY EndingJoint
<1>3. DOMAIN u = 1 .. n
  OBVIOUS
<1>4. ASSUME NEW i \in 1 .. n
      PROVE  e[i] = IF Advance(q, i) = Idle THEN q.msg.id ELSE NoId
  <2>1. i \in 1 .. q.bytes /\ u[i] = Ahead(q, i)
    BY <1>1
  <2>2. After(Ahead(q, i)) = Advance(q, i)
    BY <2>1, AheadSound
  <2>3. Ahead(q, i).msg = q.msg
    BY DEF Ahead, ByteOf
  <2>4. e[i] = IF After(u[i]) = Idle THEN u[i].msg.id ELSE NoId
    BY <1>3 DEF Ending
  <2> HIDE DEF e
  <2> QED
    BY <2>1, <2>2, <2>3, <2>4
<1>5. ASSUME NEW i \in 1 .. l PROVE e[i] \notin Id
  <2>1. i \in 1 .. n /\ q.bytes > i /\ i \in Nat
    BY <1>1
  <2>2. Advance(q, i) = [q EXCEPT !.bytes = q.bytes - i]
    BY <2>1 DEF Advance
  <2>3. Advance(q, i).part = q.part
    BY <2>2 DEF Inside
  <2>4. Advance(q, i) # Idle
    BY <1>1, <2>3 DEF Idle
  <2> HIDE DEF e
  <2> QED
    BY <1>4, <2>1, <2>4, ConnAssumption
<1>6. Len(e) = l + 1
  <2>1. e = [i \in 1 .. n |-> IF After(u[i]) = Idle THEN u[i].msg.id ELSE NoId]
    BY <1>3 DEF Ending
  <2> QED
    BY <1>1, <1>2, <2>1
<1> HIDE DEF e
<1>7. Requests(e) = IF e[l + 1] \in Id THEN <<e[l + 1]>> ELSE <<>>
  BY <1>2, <1>5, <1>6, RequestsLast
<1>8. CASE Advance(q, n) = Idle
  <2>1. e[l + 1] = q.msg.id
    BY <1>1, <1>4, <1>8
  <2>2. Requests(<<q.msg.id>>) = IF q.msg.id \in Id THEN <<q.msg.id>> ELSE <<>>
    BY RequestsOne
  <2> QED
    BY <1>7, <1>8, <2>1, <2>2 DEF Completes, e
<1>9. CASE Advance(q, n) # Idle
  <2>1. e[l + 1] = NoId
    BY <1>1, <1>4, <1>9
  <2> QED
    BY <1>7, <1>9, <2>1, ConnAssumption DEF Completes, e
<1> QED
  BY <1>8, <1>9

LEMMA SendsEnd ==
    ASSUME NEW w \in Sending, NEW n \in 1 .. w.bytes
    PROVE  /\ Requests(Ending(Upcoming(w, n))) = Completes(w, n)
           /\ Completes(w, n) \in Seq(Id)
           /\ Joint(Completes(w, n), Requests(In(Advance(w, n)))) = Requests(In(w))
           /\ Requests(In(w)) \in Seq(Id) /\ Requests(In(Advance(w, n))) \in Seq(Id)
<1> DEFINE u == Upcoming(w, n)
           l == n - 1
           id == w.msg.id
<1>1. /\ w.part \in {"hdr", "body"} /\ w.bytes \in Nat \ {0} /\ w.msg \in Message
      /\ w.bytes <= PartLen(w.part, w.msg) /\ PartLen(w.part, w.msg) \in Nat
      /\ w = [part |-> w.part, bytes |-> w.bytes, msg |-> w.msg]
  BY Lengths DEF Sending
<1>2. u \in Seq(Byte) /\ Len(u) = n /\ n \in Nat /\ n <= w.bytes
  BY <1>1, UpcomingType
<1>3. Inside(w)
  BY <1>1, Lengths DEF Inside
<1>4. \A i \in 1 .. n : u[i] = Ahead(w, i)
  <2> SUFFICES ASSUME NEW i \in 1 .. n PROVE u[i] = Ahead(w, i)
    OBVIOUS
  <2>1. u[i] = ByteOf(w.part, NextByte(w) + i - 1, w.msg)
    BY DEF Upcoming
  <2>2. NextByte(w) + i - 1 = PartLen(w.part, w.msg) - w.bytes + i
    BY <1>1 DEF NextByte
  <2> QED
    BY <2>1, <2>2 DEF Ahead
<1>5. id \in Marks
  BY <1>1 DEF Message, Marks
<1>6. l \in Nat /\ l + 1 = n
  OBVIOUS
<1> HIDE DEF u, l
<1>7. Requests(Ending(u)) = Completes(w, n)
  <2>1. Requests(Ending(u)) = Completes(w, l + 1)
    BY <1>2, <1>3, <1>4, <1>5, <1>6, PartEndings
  <2> QED
    BY <1>6, <2>1
<1>8. In(w) = <<id>>
  BY <1>1 DEF In, Idle
<1> HIDE DEF id
<1>9. Requests(<<id>>) \in Seq(Id) /\ Requests(<<>>) = <<>> /\ <<>> \in Seq(Id)
  <2>1. Requests(<<id>>) = IF id \in Id THEN <<id>> ELSE <<>>
    BY <1>5, RequestsOne
  <2>2. (id \in Id => <<id>> \in Seq(Id)) /\ <<>> \in Seq(Id)
    OBVIOUS
  <2> QED
    BY <2>1, <2>2, RequestsEmpty
<1>10. CASE Advance(w, n) = Idle
  BY <1>7, <1>8, <1>9, <1>10, JointLaws DEF Completes, In, u, id
<1>11. CASE Advance(w, n) # Idle
  <2>1. Advance(w, n).msg = w.msg
    <3>1. w.bytes > n => Advance(w, n) = [w EXCEPT !.bytes = w.bytes - n]
      BY DEF Advance
    <3>2. ~(w.bytes > n) => Advance(w, n) = Position("body", w.msg)
      BY <1>11 DEF Advance
    <3> QED
      BY <1>1, <3>1, <3>2 DEF Position
  <2>2. In(Advance(w, n)) = <<id>>
    BY <1>11, <2>1 DEF In, id
  <2> QED
    BY <1>7, <1>8, <1>9, <1>11, <2>2, JointLaws DEF Completes, u, id
<1> QED
  BY <1>10, <1>11

LEMMA ReadsEnd ==
    ASSUME NEW pipe \in Seq(Byte), NEW s, NEW w, NEW q, NEW n \in 1 .. Len(pipe),
           Lined(pipe, s, w), s.part # "idle" => s.bytes > 0,
           q = Meeting(s, pipe[1]), n <= q.bytes, q.msg.id \in Marks
    PROVE  /\ Requests(Ending(pipe)) =
                Joint(Completes(q, n), Requests(Ending(SubSeq(pipe, n + 1, Len(pipe)))))
           /\ Completes(q, n) \in Seq(Id)
           /\ Requests(Ending(SubSeq(pipe, n + 1, Len(pipe)))) \in Seq(Id)
<1> DEFINE k == Len(pipe)
           l == n - 1
           u == SubSeq(pipe, 1, n)
           rest == SubSeq(pipe, n + 1, k)
<1>0. k \in Nat /\ 1 \in 1 .. k /\ k > 0 /\ l \in Nat /\ l + 1 = n
  OBVIOUS
<1>1. Inside(q) /\ pipe[1] = Ahead(q, 1)
  <2>1. Within(s) /\ Sound(pipe[1]) /\ Continues(pipe[1], Settled(s))
    BY <1>0 DEF Lined
  <2> QED
    BY <2>1, Met
<1>2. \A i \in 1 .. k : i <= q.bytes => pipe[i] = Ahead(q, i)
  <2>1. \A i \in 2 .. k : Continues(pipe[i], After(pipe[i - 1]))
    BY DEF Lined
  <2> QED
    BY <1>0, <1>1, <2>1, PartAhead
<1>3. u \in Seq(Byte) /\ rest \in Seq(Byte) /\ Len(u) = n /\ pipe = Joint(u, rest)
  <2>1. pipe = u \o rest
    OBVIOUS
  <2> QED
    BY <2>1 DEF Joint
<1>4. \A i \in 1 .. n : u[i] = pipe[i]
  OBVIOUS
<1>5. q.bytes \in Nat
  BY <1>1 DEF Inside
<1>6. ASSUME NEW i \in 1 .. n PROVE u[i] = Ahead(q, i)
  <2>1. i \in 1 .. k /\ i <= q.bytes
    BY <1>0, <1>5
  <2> QED
    BY <1>2, <1>4, <2>1
<1> HIDE DEF u, rest, l
<1>7. Requests(Ending(u)) = Completes(q, n)
  <2>1. Requests(Ending(u)) = Completes(q, l + 1)
    BY <1>0, <1>1, <1>3, <1>6, PartEndings
  <2> QED
    BY <1>0, <2>1
<1>8. /\ Ending(u) \in Seq(Marks) /\ Ending(rest) \in Seq(Marks)
      /\ Ending(pipe) = Joint(Ending(u), Ending(rest))
  BY <1>3, EndingJoint
<1> QED
  BY <1>7, <1>8, RequestsJoint DEF rest

-----------------------------------------------------------------------------
(***************************************************************************)
(* The requests on their way, from the answers that wait for the client to *)
(* the request that it is writing.                                         *)
(***************************************************************************)
Flight(a, b, c, d, e, f) == Joint(Joint(Joint(Joint(Joint(a, b), c), d), e), f)

Lists(a, b, c, d, e, f, x) ==
    /\ a \in Seq(Id) /\ b \in Seq(Id) /\ c \in Seq(Id) /\ d \in Seq(Id)
    /\ e \in Seq(Id) /\ f \in Seq(Id) /\ x \in Seq(Id)

LEMMA FlightMoves ==
    ASSUME NEW a, NEW b, NEW c, NEW d, NEW e, NEW f, NEW x, Lists(a, b, c, d, e, f, x)
    PROVE  /\ Flight(Joint(x, a), b, c, d, e, f) = Joint(x, Flight(a, b, c, d, e, f))
           /\ Flight(Joint(a, x), b, c, d, e, f) = Flight(a, Joint(x, b), c, d, e, f)
           /\ Flight(a, Joint(b, x), c, d, e, f) = Flight(a, b, Joint(x, c), d, e, f)
           /\ Flight(a, b, Joint(c, x), d, e, f) = Flight(a, b, c, Joint(x, d), e, f)
           /\ Flight(a, b, c, Joint(d, x), e, f) = Flight(a, b, c, d, Joint(x, e), f)
           /\ Flight(a, b, c, d, Joint(e, x), f) = Flight(a, b, c, d, e, Joint(x, f))
           /\ Flight(a, b, c, d, e, Joint(f, x)) = Joint(Flight(a, b, c, d, e, f), x)
           /\ Flight(a, b, c, d, e, f) \in Seq(Id)
<1> DEFINE ab == Joint(a, b)
           abc == Joint(ab, c)
           abcd == Joint(abc, d)
           abcde == Joint(abcd, e)
           all == Joint(abcde, f)
<1>0. /\ a \in Seq(Id) /\ b \in Seq(Id) /\ c \in Seq(Id) /\ d \in Seq(Id)
      /\ e \in Seq(Id) /\ f \in Seq(Id) /\ x \in Seq(Id)
  BY DEF Lists
<1>1. ab \in Seq(Id)
  BY <1>0, JointLaws
<1> HIDE DEF ab
<1>2. abc \in Seq(Id)
  BY <1>0, <1>1, JointLaws
<1> HIDE DEF abc
<1>3. abcd \in Seq(Id)
  BY <1>0, <1>2, JointLaws
<1> HIDE DEF abcd
<1>4. abcde \in Seq(Id)
  BY <1>0, <1>3, JointLaws
<1> HIDE DEF abcde
<1>5. all \in Seq(Id)
  BY <1>0, <1>4, JointLaws
<1>6. /\ Joint(Joint(a, x), b) = Joint(a, Joint(x, b))
      /\ Joint(Joint(x, a), b) = Joint(x, ab)
      /\ Joint(Joint(x, ab), c) = Joint(x, abc)
      /\ Joint(Joint(x, abc), d) = Joint(x, abcd)
      /\ Joint(Joint(x, abcd), e) = Joint(x, abcde)
      /\ Joint(Joint(x, abcde), f) = Joint(x, all)
  BY <1>0, <1>1, <1>2, <1>3, <1>4, <1>5, JointLaws DEF ab, abc, abcd, abcde, all
<1>7. /\ Joint(a, Joint(b, x)) = Joint(ab, x) /\ Joint(Joint(ab, x), c) = Joint(ab, Joint(x, c))
      /\ Joint(ab, Joint(c, x)) = Joint(abc, x) /\ Joint(Joint(abc, x), d) = Joint(abc, Joint(x, d))
      /\ Joint(abc, Joint(d, x)) = Joint(abcd, x) /\ Joint(Joint(abcd, x), e) = Joint(abcd, Joint(x, e))
      /\ Joint(abcd, Joint(e, x)) = Joint(abcde, x) /\ Joint(Joint(abcde, x), f) = Joint(abcde, Joint(x, f))
      /\ Joint(abcde, Joint(f, x)) = Joint(all, x)
  BY <1>0, <1>1, <1>2, <1>3, <1>4, <1>5, JointLaws DEF ab, abc, abcd, abcde, all
<1> QED
  BY <1>5, <1>6, <1>7, Zenon DEF Flight, ab, abc, abcd, abcde, all

LEMMA RequestsType == \A ids \in Seq(Marks) : Requests(ids) \in Seq(Id)
<1> TAKE ids \in Seq(Marks)
<1>1. <<>> \in Seq(Marks)
  OBVIOUS
<1> QED
  BY <1>1, RequestsJoint

LEMMA PartTypes ==
    /\ \A pipe \in Seq(Byte) : Ending(pipe) \in Seq(Marks)
    /\ \A s \in Sending \cup {Idle} : In(s) \in Seq(Marks)
    /\ \A q \in Seq(Queued) : Ids(q) \in Seq(Marks)
    /\ \A s \in Receiving : Held(s) \in Seq(Marks)
<1>1. \A m \in Message : <<m.id>> \in Seq(Marks)
  BY DEF Message, Marks
<1>2. <<>> \in Seq(Marks)
  OBVIOUS
<1>3. ASSUME NEW s \in Sending \cup {Idle} PROVE In(s) \in Seq(Marks)
  <2>1. s # Idle => s.msg \in Message
    BY DEF Sending
  <2> QED
    BY <1>1, <1>2, <2>1 DEF In
<1>4. ASSUME NEW q \in Seq(Queued) PROVE Ids(q) \in Seq(Marks)
  <2>1. DOMAIN q = 1 .. Len(q) /\ \A i \in 1 .. Len(q) : q[i] \in Queued
    OBVIOUS
  <2>2. \A i \in 1 .. Len(q) : q[i].id \in Marks
    BY <2>1 DEF Queued, Marks
  <2> QED
    BY <2>1, <2>2 DEF Ids
<1>5. ASSUME NEW s \in Receiving PROVE Held(s) \in Seq(Marks)
  <2>1. s.part = "body" => s.msg \in Message
    BY DEF Receiving
  <2> QED
    BY <1>1, <1>2, <2>1 DEF Held
<1> QED
  BY <1>3, <1>4, <1>5, EndingJoint

(* What is queued last, and first.                                         *)
LEMMA IdsOf ==
    ASSUME NEW q \in Seq(Queued)
    PROVE  /\ \A m \in Queued :
                Requests(Ids(Append(q, m))) = Joint(Requests(Ids(q)), Requests(<<m.id>>))
           /\ q # <<>> => Requests(Ids(q)) =
                Joint(Requests(<<Head(q).id>>), Requests(Ids(Tail(q))))
<1>1. ASSUME NEW m \in Queued
      PROVE  Requests(Ids(Append(q, m))) = Joint(Requests(Ids(q)), Requests(<<m.id>>))
  <2> DEFINE one == <<m.id>>
             a == Ids(q)
             c == Ids(Append(q, m))
  <2>1. one \in Seq(Marks) /\ Len(one) = 1 /\ one[1] = m.id
    BY DEF Queued, Marks
  <2>2. a \in Seq(Marks) /\ c \in Seq(Marks)
    <3>1. Append(q, m) \in Seq(Queued)
      OBVIOUS
    <3> QED
      BY <3>1, PartTypes
  <2>3. /\ DOMAIN q = 1 .. Len(q) /\ DOMAIN Append(q, m) = 1 .. Len(q) + 1
        /\ Len(q) \in Nat /\ Append(q, m)[Len(q) + 1] = m
        /\ \A i \in 1 .. Len(q) : Append(q, m)[i] = q[i]
    OBVIOUS
  <2>4. Len(a) = Len(q)
    BY <2>2, <2>3 DEF Ids
  <2>5. Len(c) = Len(q) + 1
    BY <2>2, <2>3 DEF Ids
  <2>6. \A i \in 1 .. Len(q) : a[i] = q[i].id
    BY <2>3 DEF Ids
  <2>7. \A i \in 1 .. Len(q) + 1 : c[i] = Append(q, m)[i].id
    BY <2>3 DEF Ids
  <2> HIDE DEF one, a, c
  <2>8. \A i \in 1 .. Len(a) : c[i] = a[i]
    BY <2>3, <2>4, <2>6, <2>7
  <2>9. \A i \in 1 .. Len(one) : c[Len(a) + i] = one[i]
    <3>1. c[Len(q) + 1] = m.id
      BY <2>3, <2>7
    <3> QED
      BY <2>1, <2>4, <3>1
  <2>10. c = Joint(a, one)
    BY <2>1, <2>2, <2>4, <2>5, <2>8, <2>9, Spliced
  <2> QED
    BY <2>1, <2>2, <2>10, RequestsJoint DEF one, a, c
<1>2. ASSUME q # <<>>
      PROVE  Requests(Ids(q)) = Joint(Requests(<<Head(q).id>>), Requests(Ids(Tail(q))))
  <2> DEFINE one == <<Head(q).id>>
             a == Ids(Tail(q))
             c == Ids(q)
  <2>0. Head(q) \in Queued /\ Tail(q) \in Seq(Queued) /\ Head(q) = q[1] /\ Len(q) \in Nat
        /\ Len(q) > 0 /\ Len(Tail(q)) = Len(q) - 1
        /\ \A i \in 1 .. Len(q) - 1 : Tail(q)[i] = q[i + 1]
    BY <1>2
  <2>1. one \in Seq(Marks) /\ Len(one) = 1 /\ one[1] = q[1].id
    BY <2>0 DEF Queued, Marks
  <2>2. a \in Seq(Marks) /\ c \in Seq(Marks)
    BY <2>0, PartTypes
  <2>3. DOMAIN q = 1 .. Len(q) /\ DOMAIN Tail(q) = 1 .. Len(q) - 1
    BY <2>0
  <2>4. Len(a) = Len(q) - 1
    BY <2>0, <2>2, <2>3 DEF Ids
  <2>5. Len(c) = Len(q)
    BY <2>0, <2>2, <2>3 DEF Ids
  <2>6. \A i \in 1 .. Len(q) - 1 : a[i] = Tail(q)[i].id
    BY <2>3 DEF Ids
  <2>7. \A i \in 1 .. Len(q) : c[i] = q[i].id
    BY <2>3 DEF Ids
  <2> HIDE DEF one, a, c
  <2>8. \A i \in 1 .. Len(one) : c[i] = one[i]
    BY <2>0, <2>1, <2>7
  <2>9. \A i \in 1 .. Len(a) : c[Len(one) + i] = a[i]
    <3> SUFFICES ASSUME NEW i \in 1 .. Len(a) PROVE c[Len(one) + i] = a[i]
      OBVIOUS
    <3>1. i \in 1 .. Len(q) - 1 /\ i + 1 \in 1 .. Len(q) /\ 1 + i = i + 1
      BY <2>0, <2>4
    <3> QED
      BY <2>0, <2>1, <2>6, <2>7, <3>1
  <2>10. Len(c) = Len(one) + Len(a)
    BY <2>0, <2>1, <2>4, <2>5
  <2>11. c = Joint(one, a)
    BY <2>1, <2>2, <2>8, <2>9, <2>10, Spliced
  <2> QED
    BY <2>1, <2>2, <2>11, RequestsJoint DEF one, a, c
<1> QED
  BY <1>1, <1>2

(* The client strikes the first request it waits for off its list, and     *)
(* nothing when it reads an event.                                         *)
Distinct(ids) == \A i, j \in 1 .. Len(ids) : ids[i] = ids[j] => i = j

LEMMA WithoutFirst ==
    ASSUME NEW ids \in Seq(Id), NEW rest \in Seq(Id), NEW id \in Marks, Distinct(ids),
           ids = Joint(Requests(<<id>>), rest)
    PROVE  Without(ids, id) = rest /\ Distinct(rest)
<1>1. Requests(<<id>>) = IF id \in Id THEN <<id>> ELSE <<>>
  BY RequestsOne
<1>2. CASE id \in Id
  <2>1. ids = <<id>> \o rest
    BY <1>1, <1>2 DEF Joint
  <2>2. /\ Len(ids) = Len(rest) + 1 /\ Len(rest) \in Nat /\ ids[1] = id
        /\ \A i \in 1 .. Len(rest) : ids[i + 1] = rest[i]
    BY <2>1
  <2> DEFINE at == CHOOSE i \in DOMAIN ids : ids[i] = id
  <2>3. DOMAIN ids = 1 .. Len(ids) /\ 1 \in 1 .. Len(ids)
    BY <2>2
  <2>4. at \in 1 .. Len(ids) /\ ids[at] = id
    BY <2>2, <2>3
  <2>5. at = 1
    <3> HIDE DEF at
    <3> QED
      BY <2>2, <2>3, <2>4 DEF Distinct
  <2>6. Without(ids, id) = RemoveAt(ids, 1)
    <3>1. \E i \in DOMAIN ids : ids[i] = id
      BY <2>2, <2>3
    <3>2. Without(ids, id) = RemoveAt(ids, at)
      BY <3>1 DEF Without
    <3> QED
      BY <2>5, <3>2
  <2>7. RemoveAt(ids, 1) = rest
    <3>1. SubSeq(ids, 1, 0) = <<>> /\ SubSeq(ids, 2, Len(ids)) = rest
      <4> DEFINE r == SubSeq(ids, 2, Len(ids))
      <4>1. r \in Seq(Id) /\ Len(r) = Len(rest)
        BY <2>2
      <4>2. \A i \in 1 .. Len(rest) : r[i] = ids[i + 1]
        BY <2>2
      <4> HIDE DEF r
      <4>3. r = rest
        BY <2>2, <4>1, <4>2, SeqEqual
      <4> QED
        BY <4>3 DEF r
    <3>2. <<>> \o rest = rest
      OBVIOUS
    <3> QED
      BY <3>1, <3>2 DEF RemoveAt
  <2>8. Distinct(rest)
    <3> SUFFICES ASSUME NEW i \in 1 .. Len(rest), NEW j \in 1 .. Len(rest), rest[i] = rest[j]
                 PROVE  i = j
      BY DEF Distinct
    <3>1. i + 1 \in 1 .. Len(ids) /\ j + 1 \in 1 .. Len(ids) /\ ids[i + 1] = ids[j + 1]
      BY <2>2
    <3>2. i + 1 = j + 1
      BY <3>1 DEF Distinct
    <3> QED
      BY <3>2
  <2> QED
    BY <2>6, <2>7, <2>8
<1>3. CASE id \notin Id
  <2>1. ids = rest
    BY <1>1, <1>3, JointLaws
  <2>2. ~\E i \in DOMAIN ids : ids[i] = id
    <3>1. \A i \in DOMAIN ids : ids[i] \in Id
      OBVIOUS
    <3> QED
      BY <1>3, <3>1
  <2> QED
    BY <2>1, <2>2 DEF Without
<1> QED
  BY <1>2, <1>3

(***************************************************************************)
(* The invariant: while the connection lives, the client waits for exactly *)
(* the requests on their way, and for each of them once.                   *)
(***************************************************************************)
Awaited ==
    Flight(Requests(Ending(to_client)), Requests(In(tx)), Requests(Ids(tx_queue)),
           Requests(Held(rx)), Requests(Ending(to_daemon)), Requests(In(client.out)))
Accounted == alive => client.awaiting = Awaited /\ Distinct(client.awaiting)

LEMMA PartsAccounted ==
    ASSUME Shapes
    PROVE  /\ Requests(Ending(to_client)) \in Seq(Id) /\ Requests(In(tx)) \in Seq(Id)
           /\ Requests(Ids(tx_queue)) \in Seq(Id) /\ Requests(Held(rx)) \in Seq(Id)
           /\ Requests(Ending(to_daemon)) \in Seq(Id) /\ Requests(In(client.out)) \in Seq(Id)
           /\ client.awaiting \in Seq(Id)
  BY PartTypes, RequestsType DEF Shapes, SocketOK, QueueOK, ClientOK

LEMMA AccountedGives == Shapes /\ Accounted => RequestsAccounted
<1> SUFFICES ASSUME Shapes, Accounted, alive PROVE RequestsAccounted
  BY DEF RequestsAccounted
<1> DEFINE a == Ending(to_client)
           b == In(tx)
           c == Ids(tx_queue)
           d == Held(rx)
           e == Ending(to_daemon)
           f == In(client.out)
           ab == Joint(a, b)
           abc == Joint(ab, c)
           abcd == Joint(abc, d)
           abcde == Joint(abcd, e)
           all == Joint(abcde, f)
<1>1. /\ a \in Seq(Marks) /\ b \in Seq(Marks) /\ c \in Seq(Marks)
      /\ d \in Seq(Marks) /\ e \in Seq(Marks) /\ f \in Seq(Marks)
  BY PartTypes DEF Shapes, SocketOK, QueueOK, ClientOK
<1>2. client.awaiting = Flight(Requests(a), Requests(b), Requests(c),
                               Requests(d), Requests(e), Requests(f))
  BY DEF Accounted, Awaited
<1> HIDE DEF a, b, c, d, e, f
<1>3. ab \in Seq(Marks) /\ Requests(ab) = Joint(Requests(a), Requests(b))
  BY <1>1, RequestsJoint
<1> HIDE DEF ab
<1>4. abc \in Seq(Marks) /\ Requests(abc) = Joint(Requests(ab), Requests(c))
  BY <1>1, <1>3, RequestsJoint
<1> HIDE DEF abc
<1>5. abcd \in Seq(Marks) /\ Requests(abcd) = Joint(Requests(abc), Requests(d))
  BY <1>1, <1>4, RequestsJoint
<1> HIDE DEF abcd
<1>6. abcde \in Seq(Marks) /\ Requests(abcde) = Joint(Requests(abcd), Requests(e))
  BY <1>1, <1>5, RequestsJoint
<1> HIDE DEF abcde
<1>7. Requests(all) = Joint(Requests(abcde), Requests(f))
  BY <1>1, <1>6, RequestsJoint
<1> HIDE DEF all
<1>8. client.awaiting = Requests(all)
  BY <1>2, <1>3, <1>4, <1>5, <1>6, <1>7 DEF Flight
<1>9. all = a \o b \o c \o d \o e \o f
  BY Zenon DEF all, abcde, abcd, abc, ab, Joint
<1> QED
  BY <1>8, <1>9 DEF RequestsAccounted, a, b, c, d, e, f

LEMMA AccountedInit == Init => Accounted
<1> SUFFICES ASSUME Init PROVE Accounted
  OBVIOUS
<1>1. /\ to_daemon = <<>> /\ to_client = <<>> /\ rx = Start
      /\ tx = Idle /\ tx_queue = <<>> /\ client.out = Idle /\ client.awaiting = <<>>
  BY DEF Init
<1>2. Ending(<<>>) = <<>> /\ Ids(<<>>) = <<>> /\ In(Idle) = <<>> /\ Held(Start) = <<>>
  BY DEF Ending, Ids, In, Held, Start, Position
<1>3. <<>> \in Seq(Id)
  OBVIOUS
<1>4. Joint(<<>>, <<>>) = <<>>
  BY <1>3, JointLaws
<1>5. Awaited = <<>>
  BY <1>1, <1>2, <1>4, RequestsEmpty DEF Awaited, Flight
<1>6. Distinct(<<>>)
  BY DEF Distinct
<1> QED
  BY <1>1, <1>5, <1>6 DEF Accounted

(* A step that changes no part changes nothing.                            *)
LEMMA AccountedKept ==
    ASSUME Accounted, alive' => alive,
           Requests(Ending(to_client))' = Requests(Ending(to_client)),
           Requests(In(tx))' = Requests(In(tx)),
           Requests(Ids(tx_queue))' = Requests(Ids(tx_queue)),
           Requests(Held(rx))' = Requests(Held(rx)),
           Requests(Ending(to_daemon))' = Requests(Ending(to_daemon)),
           Requests(In(client.out))' = Requests(In(client.out)),
           client'.awaiting = client.awaiting
    PROVE  Accounted'
  BY DEF Accounted, Awaited

(* Recv: a request whose last byte arrived waits to be handled.            *)
LEMMA RecvAccounted ==
    ASSUME Shapes, Aligned, rx.bytes > 0,
           NEW n \in 1 .. AtMost(Len(to_daemon), rx.bytes)
    PROVE  /\ Requests(Ending(to_daemon)) =
                Joint(Requests(Held(RxAdvance(n))),
                      Requests(Ending(SubSeq(to_daemon, n + 1, Len(to_daemon)))))
           /\ Requests(Held(rx)) = <<>>
<1> DEFINE pipe == to_daemon
           first == Head(to_daemon)
           q == Meeting(rx, pipe[1])
           m == IF rx.part = "hdr" THEN first.msg ELSE rx.msg
<1>1. /\ pipe \in Seq(Byte) /\ rx \in Receiving
      /\ rx = [part |-> rx.part, bytes |-> rx.bytes, msg |-> rx.msg]
      /\ rx.part \in {"hdr", "body"} /\ rx.bytes \in Nat
  BY DEF Shapes, SocketOK, Receiving
<1>2. n \in 1 .. Len(pipe) /\ n <= rx.bytes
  BY <1>1 DEF AtMost
<1>3. first = pipe[1] /\ first \in Byte /\ Settled(rx) = rx /\ Lined(pipe, rx, client.out)
  BY <1>1, <1>2, PipeShrinks DEF Settled, Aligned
<1> HIDE DEF first
<1>4. Continues(first, rx)
  <2>1. Len(pipe) > 0
    BY <1>2
  <2> HIDE DEF pipe
  <2> QED
    BY <1>3, <2>1 DEF Lined
<1>5. q = [part |-> rx.part, bytes |-> rx.bytes, msg |-> m]
  <2>1. CASE AtStart(rx)
    <3>1. rx.part = "hdr" /\ rx.bytes = HdrLen
      BY <1>1, <2>1 DEF AtStart
    <3> QED
      BY <1>3, <2>1, <3>1 DEF Meeting, Position, PartLen
  <2>2. CASE ~AtStart(rx)
    <3>1. first = ByteOf(rx.part, NextByte(rx), rx.msg)
      BY <1>4, <2>2, Continuing
    <3>2. m = rx.msg
      BY <3>1 DEF ByteOf
    <3> QED
      BY <1>1, <2>2, <3>2 DEF Meeting
  <2> QED
    BY <2>1, <2>2
<1>6. m \in Message
  <2>1. first.msg \in Message
    BY <1>3 DEF Byte
  <2>2. rx.part = "body" => rx.msg \in Message
    BY <1>1 DEF Receiving
  <2> QED
    BY <1>1, <2>1, <2>2
<1>7. RxAdvance(n) = IF rx.part = "hdr" /\ n = rx.bytes THEN Position("body", m)
                     ELSE [rx EXCEPT !.bytes = rx.bytes - n, !.msg = m]
  BY DEF RxAdvance, first
<1> HIDE DEF m, q
<1>8. /\ q.part = rx.part /\ q.bytes = rx.bytes /\ q.msg = m
      /\ m.len \in Nat /\ m.id \in Marks
  BY <1>5, <1>6, Lengths DEF Message, Marks
<1>9. Requests(Ending(pipe)) =
          Joint(Completes(q, n), Requests(Ending(SubSeq(pipe, n + 1, Len(pipe)))))
  <2>1. q = Meeting(rx, pipe[1]) /\ n <= q.bytes /\ q.msg.id \in Marks
    BY <1>2, <1>8 DEF q
  <2> HIDE DEF pipe
  <2>2. rx.part # "idle" => rx.bytes > 0
    OBVIOUS
  <2> QED
    BY <1>1, <1>2, <1>3, <2>1, <2>2, ReadsEnd
<1>10. Completes(q, n) = Requests(Held(RxAdvance(n)))
  <2>1. CASE n < rx.bytes
    <3>1. Advance(q, n) = [q EXCEPT !.bytes = q.bytes - n]
      BY <1>2, <1>8, <2>1 DEF Advance
    <3>2. Advance(q, n).part = rx.part
      BY <1>5, <3>1
    <3>3. Advance(q, n) # Idle
      BY <1>1, <3>2 DEF Idle
    <3>4. RxAdvance(n) = [part |-> rx.part, bytes |-> rx.bytes - n, msg |-> m]
      <4>1. ~(n = rx.bytes)
        BY <1>1, <1>2, <2>1
      <4>2. RxAdvance(n) = [rx EXCEPT !.bytes = rx.bytes - n, !.msg = m]
        BY <1>7, <4>1
      <4> QED
        BY <1>1, <4>2
    <3>5. rx.bytes - n # 0
      BY <1>1, <1>2, <2>1
    <3>6. Held(RxAdvance(n)) = <<>>
      BY <3>4, <3>5 DEF Held
    <3> QED
      BY <3>3, <3>6, RequestsEmpty DEF Completes
  <2>2. CASE n = rx.bytes /\ rx.part = "hdr"
    <3>1. RxAdvance(n) = [part |-> "body", bytes |-> m.len, msg |-> m]
      BY <1>7, <2>2 DEF Position, PartLen
    <3>2. Advance(q, n) = IF m.len > 0 THEN Position("body", m) ELSE Idle
      BY <1>1, <1>8, <2>2 DEF Advance
    <3>3. Position("body", m) # Idle
      BY DEF Position, Idle
    <3>4. Held(RxAdvance(n)) = IF m.len = 0 THEN <<m.id>> ELSE <<>>
      BY <3>1 DEF Held
    <3> QED
      BY <1>8, <3>2, <3>3, <3>4, RequestsEmpty DEF Completes
  <2>3. CASE n = rx.bytes /\ rx.part = "body"
    <3>1. RxAdvance(n) = [part |-> rx.part, bytes |-> rx.bytes - n, msg |-> m]
      BY <1>1, <1>7, <2>3
    <3>2. rx.bytes - n = 0
      BY <1>1, <2>3
    <3>3. Held(RxAdvance(n)) = <<m.id>>
      BY <2>3, <3>1, <3>2 DEF Held
    <3>4. Advance(q, n) = Idle
      BY <1>1, <1>8, <2>3 DEF Advance
    <3> QED
      BY <1>8, <3>3, <3>4 DEF Completes
  <2> QED
    BY <1>1, <1>2, <2>1, <2>2, <2>3
<1>11. Held(rx) = <<>>
  BY <1>1 DEF Held
<1> QED
  BY <1>9, <1>10, <1>11, RequestsEmpty
LEMMA AccountedStep == Shapes /\ Aligned /\ Control /\ Accounted /\ [Next]_vars => Accounted'
<1> SUFFICES ASSUME Shapes, Aligned, Control, Accounted, [Next]_vars PROVE Accounted'
  OBVIOUS
<1>p. /\ to_daemon \in Seq(Byte) /\ to_client \in Seq(Byte)
      /\ tx \in Sending \cup {Idle} /\ rx \in Receiving /\ tx_queue \in Seq(Queued)
      /\ client = [out |-> client.out, in |-> client.in, awaiting |-> client.awaiting]
      /\ client.out \in Sending \cup {Idle} /\ client.in \in Sending \cup {Idle}
      /\ client.awaiting \in Seq(Id)
  BY DEF Shapes, SocketOK, QueueOK, ClientOK
<1>t. /\ Requests(Ending(to_client)) \in Seq(Id) /\ Requests(In(tx)) \in Seq(Id)
      /\ Requests(Ids(tx_queue)) \in Seq(Id) /\ Requests(Held(rx)) \in Seq(Id)
      /\ Requests(Ending(to_daemon)) \in Seq(Id) /\ Requests(In(client.out)) \in Seq(Id)
  BY PartsAccounted
<1>n. Requests(<<>>) = <<>> /\ <<>> \in Seq(Id) /\ In(Idle) = <<>> /\ Held(Start) = <<>>
  BY RequestsEmpty DEF In, Held, Start, Position
<1>1. CASE UNCHANGED <<to_daemon, to_client, rx, tx, tx_queue, client>> /\ (alive' => alive)
  BY <1>1, AccountedKept
<1>2. CASE Recv
  <2>0. alive
    BY <1>2 DEF Recv, Control, Deaths
  <2>1. UNCHANGED <<to_client, tx, tx_queue, client>>
    BY <1>2 DEF Recv
  <2>2. CASE \E n \in 1 .. AtMost(Len(to_daemon), rx.bytes) :
                /\ to_daemon' = SubSeq(to_daemon, n + 1, Len(to_daemon))
                /\ rx' = RxAdvance(n)
    <3>1. PICK n \in 1 .. AtMost(Len(to_daemon), rx.bytes) :
                /\ to_daemon' = SubSeq(to_daemon, n + 1, Len(to_daemon))
                /\ rx' = RxAdvance(n)
      BY <2>2
    <3>2. rx.bytes > 0
      BY <1>2 DEF Recv
    <3> DEFINE x == Requests(Held(rx'))
               e == Requests(Ending(to_daemon'))
    <3>3. Requests(Ending(to_daemon)) = Joint(x, e) /\ Requests(Held(rx)) = <<>>
      BY <3>1, <3>2, RecvAccounted
    <3>4. x \in Seq(Id) /\ e \in Seq(Id)
      <4>1. n \in 1 .. Len(to_daemon)
        BY <1>p, <3>1 DEF AtMost, Receiving
      <4>2. to_daemon' \in Seq(Byte) /\ rx' \in Receiving
        BY <1>p, <3>1, <4>1, PipeShrinks, RxAdvanceType
      <4> QED
        BY <4>2, PartTypes, RequestsType
    <3> HIDE DEF x, e
    <3>5. Awaited' = Awaited
      <4>1. Awaited = Flight(Requests(Ending(to_client)), Requests(In(tx)),
                             Requests(Ids(tx_queue)), <<>>, Joint(x, e),
                             Requests(In(client.out)))
        BY <3>3 DEF Awaited
      <4>2. Awaited' = Flight(Requests(Ending(to_client)), Requests(In(tx)),
                              Requests(Ids(tx_queue)), x, e, Requests(In(client.out)))
        BY <2>1 DEF Awaited, x, e
      <4>3. Joint(<<>>, x) = x
        BY <3>4, JointLaws
      <4>l. Lists(Requests(Ending(to_client)), Requests(In(tx)), Requests(Ids(tx_queue)),
                 <<>>, e, Requests(In(client.out)), x)
        BY <1>t, <1>n, <3>4 DEF Lists
      <4> QED
        BY <4>1, <4>2, <4>3, <4>l, FlightMoves
    <3> QED
      BY <2>0, <2>1, <3>5 DEF Accounted
  <2>3. CASE UNCHANGED <<to_daemon, rx>>
    BY <1>1, <2>0, <2>1, <2>3
  <2> QED
    BY <1>2, <2>2, <2>3 DEF Recv
<1>3. CASE Handle
  <2>1. PICK len \in AnswerLens :
            tx_queue' = Append(tx_queue, [kind |-> "reply", id |-> rx.msg.id, len |-> len])
    BY <1>3 DEF Handle
  <2> DEFINE m == [kind |-> "reply", id |-> rx.msg.id, len |-> len]
             x == Requests(<<rx.msg.id>>)
             c == Requests(Ids(tx_queue))
  <2>2. m \in Queued /\ m.id = rx.msg.id
    BY <1>3, <1>p, ConnAssumption DEF Handle, Receiving, Message, Queued, Kind
  <2>3. Requests(Ids(tx_queue')) = Joint(c, x)
    <3> HIDE DEF m
    <3>1. tx_queue' = Append(tx_queue, m)
      BY <2>1 DEF m
    <3> QED
      BY <1>p, <2>2, <3>1, IdsOf
  <2>4. /\ Held(rx) = <<rx.msg.id>> /\ rx' = Start
        /\ UNCHANGED <<to_daemon, to_client, tx, client, alive>>
    BY <1>3 DEF Handle, Held, socket, conn
  <2>5. x \in Seq(Id)
    BY <1>t, <2>4
  <2> HIDE DEF m, x, c
  <2>6. Awaited' = Awaited
    <3>1. Awaited = Flight(Requests(Ending(to_client)), Requests(In(tx)), c, x,
                           Requests(Ending(to_daemon)), Requests(In(client.out)))
      BY <2>4 DEF Awaited, x, c
    <3>2. Awaited' = Flight(Requests(Ending(to_client)), Requests(In(tx)), Joint(c, x), <<>>,
                            Requests(Ending(to_daemon)), Requests(In(client.out)))
      BY <1>n, <2>3, <2>4 DEF Awaited
    <3>3. Joint(x, <<>>) = x
      BY <2>5, JointLaws
    <3>4. c \in Seq(Id)
      BY <1>t DEF c
    <3>l. Lists(Requests(Ending(to_client)), Requests(In(tx)), c,
               <<>>, Requests(Ending(to_daemon)), Requests(In(client.out)), x)
      BY <1>t, <1>n, <2>5, <3>4 DEF Lists
    <3> QED
      BY <3>1, <3>2, <3>3, <3>4, <3>l, FlightMoves
  <2> QED
    BY <2>4, <2>6 DEF Accounted
<1>4. CASE TxNext
  <2>1. /\ UNCHANGED <<to_daemon, to_client, rx, client, alive>>
        /\ tx = Idle
    BY <1>4 DEF TxNext, socket, conn
  <2>2. CASE tx_queue = <<>>
    BY <1>1, <1>4, <2>1, <2>2 DEF TxNext
  <2>3. CASE tx_queue # <<>>
    <3> DEFINE m == Head(tx_queue)
               x == Requests(<<m.id>>)
               c == Requests(Ids(tx_queue'))
    <3>1. tx' = Position("hdr", Built(m)) /\ tx_queue' = Tail(tx_queue)
      BY <1>4, <2>3 DEF TxNext
    <3>2. m \in Queued /\ tx_queue' \in Seq(Queued)
      BY <1>p, <2>3, <3>1
    <3>3. Requests(Ids(tx_queue)) = Joint(x, c)
      BY <1>p, <2>3, <3>1, IdsOf
    <3> HIDE DEF m
    <3>4. Built(m).id = m.id
      <4>1. CASE m.len <= PayloadMax
        BY <4>1 DEF Built
      <4>2. CASE ~(m.len <= PayloadMax)
        <5>1. Built(m) = [m EXCEPT !.kind = "error", !.len = ErrorLen]
          BY <4>2 DEF Built
        <5>2. m = [kind |-> m.kind, id |-> m.id, len |-> m.len]
          BY <3>2 DEF Queued
        <5> QED
          BY <5>1, <5>2
      <4> QED
        BY <4>1, <4>2
    <3>5. In(tx') = <<m.id>>
      BY <3>1, <3>4 DEF In, Position, Idle
    <3>6. x \in Seq(Id) /\ c \in Seq(Id)
      <4>1. <<m.id>> \in Seq(Marks)
        BY <3>2 DEF Queued, Marks
      <4> QED
        BY <3>2, <4>1, PartTypes, RequestsType
    <3> HIDE DEF x, c
    <3>7. Awaited' = Awaited
      <4>1. Awaited = Flight(Requests(Ending(to_client)), <<>>, Joint(x, c), Requests(Held(rx)),
                             Requests(Ending(to_daemon)), Requests(In(client.out)))
        BY <1>n, <2>1, <3>3 DEF Awaited
      <4>2. Awaited' = Flight(Requests(Ending(to_client)), x, c, Requests(Held(rx)),
                              Requests(Ending(to_daemon)), Requests(In(client.out)))
        BY <2>1, <3>5 DEF Awaited, x, c
      <4>3. Joint(<<>>, x) = x
        BY <3>6, JointLaws
      <4>l. Lists(Requests(Ending(to_client)), <<>>, c,
                 Requests(Held(rx)), Requests(Ending(to_daemon)), Requests(In(client.out)), x)
        BY <1>t, <1>n, <3>6 DEF Lists
      <4> QED
        BY <4>1, <4>2, <4>3, <4>l, FlightMoves
    <3> QED
      BY <2>1, <3>7 DEF Accounted
  <2> QED
    BY <2>2, <2>3
<1>5. CASE Send
  <2>1. UNCHANGED <<to_daemon, rx, tx_queue, client>> /\ tx \in Sending
    BY <1>5, <1>p DEF Send
  <2>2. alive
    BY <1>5 DEF Send, Control, Deaths
  <2>3. CASE \E n \in 1 .. AtMost(Room(to_client), tx.bytes) :
                to_client' = to_client \o Upcoming(tx, n) /\ tx' = TxAdvance(n)
    <3>1. PICK n \in 1 .. AtMost(Room(to_client), tx.bytes) :
                to_client' = to_client \o Upcoming(tx, n) /\ tx' = Advance(tx, n)
      BY <2>3 DEF TxAdvance
    <3>2. n \in 1 .. tx.bytes
      BY <1>p, <2>1, <3>1, PipeGrows
    <3> DEFINE u == Upcoming(tx, n)
               a == Requests(Ending(to_client))
               x == Completes(tx, n)
               b == Requests(In(tx'))
    <3>3. u \in Seq(Byte) /\ to_client' = Joint(to_client, u)
      BY <2>1, <3>1, <3>2, UpcomingType DEF Joint
    <3>4. /\ Requests(Ending(u)) = x /\ x \in Seq(Id) /\ b \in Seq(Id)
          /\ Joint(x, b) = Requests(In(tx))
      BY <2>1, <3>1, <3>2, SendsEnd
    <3> HIDE DEF u, x, b
    <3>5. Requests(Ending(to_client')) = Joint(a, x)
      BY <1>p, <3>3, <3>4, EndingJoint, RequestsJoint
    <3> HIDE DEF a
    <3>6. Awaited' = Awaited
      <4>1. Awaited = Flight(a, Joint(x, b), Requests(Ids(tx_queue)), Requests(Held(rx)),
                             Requests(Ending(to_daemon)), Requests(In(client.out)))
        BY <3>4 DEF Awaited, a
      <4>2. Awaited' = Flight(Joint(a, x), b, Requests(Ids(tx_queue)), Requests(Held(rx)),
                              Requests(Ending(to_daemon)), Requests(In(client.out)))
        BY <2>1, <3>5 DEF Awaited, b
      <4>3. a \in Seq(Id)
        BY <1>t DEF a
      <4>l. Lists(a, b, Requests(Ids(tx_queue)),
                 Requests(Held(rx)), Requests(Ending(to_daemon)), Requests(In(client.out)), x)
        BY <1>t, <3>4, <4>3 DEF Lists
      <4> QED
        BY <4>1, <4>2, <4>3, <4>l, FlightMoves
    <3> QED
      BY <2>1, <2>2, <3>6 DEF Accounted
  <2>4. CASE UNCHANGED <<to_client, tx>>
    BY <1>1, <2>1, <2>2, <2>4
  <2> QED
    BY <1>5, <2>3, <2>4 DEF Send
<1>6. CASE WatchEvent
  <2>1. PICK len \in AnswerLens :
            tx_queue' = Append(tx_queue, [kind |-> "event", id |-> NoId, len |-> len])
    BY <1>6 DEF WatchEvent
  <2> DEFINE m == [kind |-> "event", id |-> NoId, len |-> len]
  <2>2. m \in Queued /\ m.id = NoId /\ NoId \in Marks /\ NoId \notin Id
    BY ConnAssumption DEF Queued, Kind, Marks
  <2> HIDE DEF m
  <2>3. Requests(Ids(Append(tx_queue, m))) = Joint(Requests(Ids(tx_queue)), Requests(<<NoId>>))
    BY <1>p, <2>2, IdsOf
  <2>4. Requests(<<NoId>>) = <<>>
    BY <2>2, RequestsOne
  <2>5. Requests(Ids(tx_queue')) = Requests(Ids(tx_queue))
    BY <1>t, <2>1, <2>3, <2>4, JointLaws DEF m
  <2>6. UNCHANGED <<to_daemon, to_client, rx, tx, client>> /\ (alive' => alive)
    BY <1>6 DEF WatchEvent, socket, conn
  <2> QED
    BY <2>5, <2>6, AccountedKept
<1>7. CASE Request
  <2>1. PICK id \in Id \ ToSet(client.awaiting), len \in RequestLens :
          client' = [out |-> Position("hdr", [kind |-> "request", id |-> id, len |-> len]),
                     in |-> client.in,
                     awaiting |-> Append(client.awaiting, id)]
    BY <1>7 DEF Request
  <2> DEFINE ids == client.awaiting
             one == <<id>>
  <2>2. /\ UNCHANGED <<to_daemon, to_client, rx, tx, tx_queue, alive>>
        /\ client.out = Idle
    BY <1>7 DEF Request, socket, conn
  <2>3. In(client'.out) = one /\ client'.awaiting = Append(ids, id)
    BY <2>1 DEF In, Position, Idle
  <2>4. Requests(one) = one /\ one \in Seq(Id)
    BY RequestsOne DEF Marks
  <2>5. Append(ids, id) = Joint(ids, one)
    BY <1>p DEF Joint
  <2> HIDE DEF one
  <2>6. Awaited' = Joint(Awaited, one)
    <3>1. Awaited = Flight(Requests(Ending(to_client)), Requests(In(tx)),
                           Requests(Ids(tx_queue)), Requests(Held(rx)),
                           Requests(Ending(to_daemon)), <<>>)
      BY <1>n, <2>2 DEF Awaited
    <3>2. Awaited' = Flight(Requests(Ending(to_client)), Requests(In(tx)),
                            Requests(Ids(tx_queue)), Requests(Held(rx)),
                            Requests(Ending(to_daemon)), one)
      BY <2>2, <2>3, <2>4 DEF Awaited
    <3>3. Joint(<<>>, one) = one
      BY <2>4, JointLaws
    <3>l. Lists(Requests(Ending(to_client)), Requests(In(tx)), Requests(Ids(tx_queue)),
               Requests(Held(rx)), Requests(Ending(to_daemon)), <<>>, one)
      BY <1>t, <1>n, <2>4 DEF Lists
    <3> QED
      BY <3>1, <3>2, <3>3, <3>l, FlightMoves
  <2>7. Distinct(ids) => Distinct(Append(ids, id))
    <3>1. \A i \in 1 .. Len(ids) : ids[i] # id
      BY <1>p, <2>1 DEF ToSet
    <3>2. /\ Len(ids) \in Nat /\ Len(Append(ids, id)) = Len(ids) + 1
          /\ Append(ids, id)[Len(ids) + 1] = id
          /\ \A i \in 1 .. Len(ids) : Append(ids, id)[i] = ids[i]
      BY <1>p
    <3> DEFINE l == Len(ids)
               more == Append(ids, id)
    <3> HIDE DEF l, more
    <3>3. SUFFICES ASSUME Distinct(ids), NEW i \in 1 .. l + 1, NEW j \in 1 .. l + 1,
                          more[i] = more[j]
                   PROVE  i = j
      BY <3>2 DEF Distinct, l, more
    <3>4. \A k \in 1 .. l + 1 : k # l + 1 => k \in 1 .. l
      BY <3>2 DEF l
    <3>5. /\ \A k \in 1 .. l : more[k] = ids[k] /\ ids[k] # id
          /\ more[l + 1] = id
          /\ \A h, k \in 1 .. l : ids[h] = ids[k] => h = k
      BY <3>1, <3>2, <3>3 DEF l, more, Distinct
    <3> QED
      BY <3>3, <3>4, <3>5
  <2> QED
    BY <2>2, <2>3, <2>5, <2>6, <2>7 DEF Accounted
<1>8. CASE ClientWrite
  <2>1. PICK n \in 1 .. AtMost(Room(to_daemon), client.out.bytes) :
          /\ to_daemon' = to_daemon \o Upcoming(client.out, n)
          /\ client' = [client EXCEPT !.out = Advance(client.out, n)]
    BY <1>8 DEF ClientWrite
  <2>2. client.out \in Sending
    BY <1>8, <1>p DEF ClientWrite
  <2>3. n \in 1 .. client.out.bytes
    BY <1>p, <2>1, <2>2, PipeGrows
  <2>4. /\ client'.out = Advance(client.out, n) /\ client'.awaiting = client.awaiting
        /\ UNCHANGED <<to_client, rx, tx, tx_queue, alive>>
    BY <1>8, <1>p, <2>1 DEF ClientWrite, conn
  <2> DEFINE w == client.out
             u == Upcoming(w, n)
             e == Requests(Ending(to_daemon))
             x == Completes(w, n)
             f == Requests(In(client'.out))
  <2>5. u \in Seq(Byte) /\ to_daemon' = Joint(to_daemon, u)
    BY <2>1, <2>2, <2>3, UpcomingType DEF Joint
  <2>6. /\ Requests(Ending(u)) = x /\ x \in Seq(Id) /\ f \in Seq(Id)
        /\ Joint(x, f) = Requests(In(w))
    BY <2>2, <2>3, <2>4, SendsEnd
  <2> HIDE DEF u, x, f
  <2>7. Requests(Ending(to_daemon')) = Joint(e, x)
    BY <1>p, <2>5, <2>6, EndingJoint, RequestsJoint
  <2> HIDE DEF e
  <2>8. Awaited' = Awaited
    <3>1. Awaited = Flight(Requests(Ending(to_client)), Requests(In(tx)),
                           Requests(Ids(tx_queue)), Requests(Held(rx)), e, Joint(x, f))
      BY <2>6 DEF Awaited, e
    <3>2. Awaited' = Flight(Requests(Ending(to_client)), Requests(In(tx)),
                            Requests(Ids(tx_queue)), Requests(Held(rx)), Joint(e, x), f)
      BY <2>4, <2>7 DEF Awaited, f
    <3>3. e \in Seq(Id)
      BY <1>t DEF e
    <3>l. Lists(Requests(Ending(to_client)), Requests(In(tx)), Requests(Ids(tx_queue)),
               Requests(Held(rx)), e, f, x)
      BY <1>t, <2>6, <3>3 DEF Lists
    <3> QED
      BY <3>1, <3>2, <3>3, <3>l, FlightMoves
  <2> QED
    BY <2>4, <2>8 DEF Accounted
<1>9. CASE ClientRead
  <2> DEFINE m == Head(to_client).msg
             at == IF client.in = Idle THEN Position("hdr", m) ELSE client.in
             id == at.msg.id
  <2>1. PICK n \in 1 .. AtMost(Len(to_client), at.bytes) :
          /\ to_client' = SubSeq(to_client, n + 1, Len(to_client))
          /\ client' = [out |-> client.out,
                         in |-> Advance(at, n),
                         awaiting |-> IF Advance(at, n) = Idle
                                      THEN Without(client.awaiting, at.msg.id)
                                      ELSE client.awaiting]
    BY <1>9 DEF ClientRead
  <2>2. to_client # <<>> /\ UNCHANGED <<to_daemon, rx, tx, tx_queue, alive>>
    BY <1>9 DEF ClientRead, conn
  <2>3. m \in Message /\ Head(to_client) = to_client[1]
    <3>1. Head(to_client) \in Byte /\ Head(to_client) = to_client[1]
      BY <1>p, <2>2
    <3> QED
      BY <3>1 DEF Byte
  <2>4. at = Meeting(client.in, to_client[1])
    <3>1. AtStart(client.in) <=> client.in = Idle
      <4>1. client.in # Idle => client.in.part # "idle"
        BY <1>p DEF Sending
      <4> QED
        BY <4>1, IdleStarts DEF Aligned, Amid
    <3> QED
      BY <2>3, <3>1 DEF Meeting
  <2>5. at \in Sending
    BY <1>p, <2>3, HdrSends
  <2>6. /\ client'.out = client.out
        /\ client'.awaiting = IF Advance(at, n) = Idle THEN Without(client.awaiting, id)
                              ELSE client.awaiting
    BY <2>1
  <2> HIDE DEF at, m
  <2>7. at.bytes \in Nat /\ id \in Marks
    BY <2>5 DEF Sending, Message, Marks
  <2>8. n \in 1 .. Len(to_client) /\ n <= at.bytes
    BY <1>p, <2>1, <2>7 DEF AtMost
  <2>9. (client.in.part # "idle" => client.in.bytes > 0) /\ Lined(to_client, client.in, tx)
    BY DEF Aligned, Amid
  <2> DEFINE x == Completes(at, n)
             a == Requests(Ending(to_client'))
  <2>10. /\ Requests(Ending(to_client)) = Joint(x, a)
         /\ x \in Seq(Id) /\ a \in Seq(Id)
    BY <1>p, <2>1, <2>4, <2>7, <2>8, <2>9, ReadsEnd
  <2>11. x = IF Advance(at, n) = Idle THEN Requests(<<id>>) ELSE <<>>
    BY DEF Completes
  <2> HIDE DEF x, a, id
  <2>12. Awaited = Joint(x, Awaited') /\ Awaited' \in Seq(Id)
    <3>1. Awaited = Flight(Joint(x, a), Requests(In(tx)), Requests(Ids(tx_queue)),
                           Requests(Held(rx)), Requests(Ending(to_daemon)),
                           Requests(In(client.out)))
      BY <2>10 DEF Awaited
    <3>2. Awaited' = Flight(a, Requests(In(tx)), Requests(Ids(tx_queue)),
                            Requests(Held(rx)), Requests(Ending(to_daemon)),
                            Requests(In(client.out)))
      BY <2>2, <2>6 DEF Awaited, a
    <3>l. Lists(a, Requests(In(tx)), Requests(Ids(tx_queue)),
               Requests(Held(rx)), Requests(Ending(to_daemon)), Requests(In(client.out)), x)
      BY <1>t, <2>10 DEF Lists
    <3> QED
      BY <3>1, <3>2, <3>l, FlightMoves
  <2>13. SUFFICES ASSUME alive'
                  PROVE  client'.awaiting = Awaited' /\ Distinct(client'.awaiting)
    BY DEF Accounted
  <2>14. client.awaiting = Awaited /\ Distinct(client.awaiting)
    BY <2>2, <2>13 DEF Accounted
  <2> DEFINE rest == Awaited'
             ids == client.awaiting
             kept == client'.awaiting
  <2>15. /\ ids = Joint(x, rest) /\ rest \in Seq(Id) /\ ids \in Seq(Id) /\ Distinct(ids)
         /\ kept = IF Advance(at, n) = Idle THEN Without(ids, id) ELSE ids
    BY <1>p, <2>6, <2>12, <2>14
  <2> HIDE DEF rest, ids, kept
  <2>16. kept = rest /\ Distinct(kept)
    <3>1. CASE Advance(at, n) = Idle
      <4>1. ids = Joint(Requests(<<id>>), rest)
        BY <2>11, <2>15, <3>1
      <4>2. Without(ids, id) = rest /\ Distinct(rest)
        BY <2>7, <2>15, <4>1, WithoutFirst
      <4> QED
        BY <2>15, <3>1, <4>2
    <3>2. CASE Advance(at, n) # Idle
      BY <2>11, <2>15, <3>2, JointLaws
    <3> QED
      BY <3>1, <3>2
  <2> QED
    BY <2>16 DEF rest, kept
<1>10. CASE UNCHANGED vars \/ Poll \/ Callback \/ Close
  <2>1. UNCHANGED <<to_daemon, to_client, rx, tx, tx_queue, client>>
    BY <1>10 DEF vars, socket, Poll, Callback, Close
  <2>2. alive' => alive
    BY <1>10 DEF vars, conn, Poll, Callback, Close, Dies
  <2> QED
    BY <1>1, <2>1, <2>2
<1> QED
  BY <1>2, <1>3, <1>4, <1>5, <1>6, <1>7, <1>8, <1>9, <1>10
     DEF Next, Daemon, Working, Client

(* RequestsAccounted: every request that the client waits for is on its    *)
(* way, once and in the order of the requests, in a socket, in the queue   *)
(* or in the daemon's hands: no request is dropped, answered twice or      *)
(* overtaken, however reads and writes break off and watch events come in  *)
(* between (process_rx, process_tx, handle_rx, build_body).                *)
THEOREM RequestsAreAccounted == Spec => []RequestsAccounted
<1>1. Init => Accounted /\ Aligned
  BY AccountedInit, AlignedInit
<1>2. Shapes /\ Aligned /\ Control /\ Accounted /\ [Next]_vars => Accounted' /\ Aligned'
  BY AccountedStep, AlignedStep
<1>3. Shapes /\ Accounted => RequestsAccounted
  BY AccountedGives
<1> QED
  BY <1>1, <1>2, <1>3, ShapesHold, ControlHolds, PTL DEF Spec
=============================================================================
