--------------------------- MODULE RingConnProofs ---------------------------
(***************************************************************************)
(* Theorems about a guest's connection, for every size of the rings, of    *)
(* the index type and of the messages.  DiesOnce and InterestExact follow  *)
(* from the daemon's control only (Control), TypeOK from the arithmetic of *)
(* the indices (Shapes), AckReturns from both and from where the           *)
(* notifications are (Awake), and BytesInOrder from Shapes and from what   *)
(* each ring holds between its reader and its writer (Aligned).            *)
(* NoLostWakeup is not a property of every instance; it is proved of a     *)
(* guest with one request at a time and no watches, from whose turn it is  *)
(* (Turns, Single) and from which notifications are pending (Wakeful).     *)
(***************************************************************************)
EXTENDS RingConn, WireProofs

(* Where the daemon is in process_rx, process_tx, and anywhere else in the *)
(* callback.                                                               *)
InRx == {"rx", "rx2", "rx_done"}
InTx == {"tx", "tx2", "tx_done"}

(* A connection that is dead is only found by a callback still queued.     *)
Deaths ==
    /\ pc \in {"idle", "called", "ack", "unmask"} \cup InRx \cup InTx
    /\ back \in {"idle", "called", "rx", "ack"}
    /\ alive => deaths = 0
    /\ ~alive => deaths = 1
    /\ alive \/ pc \in {"idle", "called"}

(* Outside of process_tx, write interest says whether work is left; inside *)
(* it is never set between two messages.                                   *)
WriteInterest ==
    alive =>
        /\ tx.part = "idle" => ~ev_write
        /\ pc \in {"tx2", "tx_done"} => tx.part # "idle"
        /\ pc \notin InTx => /\ tx.part # "idle" => ev_write
                             /\ tx_queue # <<>> => ev_write

(* Read interest is only off while requests are being processed.           *)
ReadInterest ==
    alive /\ pc \notin InRx /\ ~(pc \in InTx /\ back = "rx") => ev_read

TxShape == tx = [part |-> tx.part, bytes |-> tx.bytes, msg |-> tx.msg]

Control == Deaths /\ WriteInterest /\ ReadInterest /\ TxShape

LEMMA ControlInit == Init => Control
<1> SUFFICES ASSUME Init PROVE Control
  OBVIOUS
<1>1. /\ pc = "idle" /\ back = "idle" /\ ev_read = TRUE /\ ev_write = FALSE
      /\ alive = TRUE /\ deaths = 0 /\ tx = Idle /\ tx_queue = <<>>
  BY DEF Init
<1> QED
  BY <1>1 DEF Control, Deaths, WriteInterest, ReadInterest, TxShape, InRx, InTx,
              Idle, NoMessage

(* A step leaves the connection as it is, or breaks it.                    *)
Survives == (alive' <=> alive) /\ deaths' = deaths
Perishes == alive /\ ~alive' /\ deaths' = deaths + 1

LEMMA DeathsCounted ==
    ASSUME Deaths, Survives \/ Perishes
    PROVE  (alive' => deaths' = 0) /\ (~alive' => deaths' = 1)
  BY DEF Deaths, Survives, Perishes

LEMMA ControlStep == Control /\ [Next]_vars => Control'
<1> SUFFICES ASSUME Control, [Next]_vars PROVE Control'
  OBVIOUS
<1>1. CASE UNCHANGED vars
  <2>1. Survives /\ UNCHANGED <<pc, back, ev_read, ev_write, tx, tx_queue>>
    BY <1>1 DEF vars, conn, Survives, Perishes
  <2> QED
    BY <2>1, DeathsCounted DEF Control, Deaths, Survives, Perishes, WriteInterest, ReadInterest, TxShape, InRx, InTx
<1>2. CASE Poll
  <2>1. pc = "idle" /\ pc' = "called" /\ Survives /\ UNCHANGED <<back, ev_read, ev_write, tx, tx_queue>>
    BY <1>2 DEF Poll, conn, Survives, Perishes
  <2> QED
    BY <2>1, DeathsCounted DEF Control, Deaths, Survives, Perishes, WriteInterest, ReadInterest, TxShape, InRx, InTx
<1>3. CASE Callback
  <2>1. /\ pc = "called" /\ UNCHANGED <<ev_read, ev_write, tx, tx_queue>>
        /\ \/ alive /\ pc' = "rx" /\ Survives /\ UNCHANGED back
           \/ alive /\ pc' = "tx" /\ back' = "ack" /\ Survives
           \/ ~alive /\ pc' = "idle" /\ Survives /\ UNCHANGED back
           \/ alive /\ pc' = "idle" /\ Perishes /\ UNCHANGED back
    BY <1>3 DEF Callback, Dies, conn, Survives, Perishes
  <2> QED
    BY <2>1, DeathsCounted DEF Control, Deaths, Survives, Perishes, WriteInterest, ReadInterest, TxShape, InRx, InTx
<1>4. CASE RxChunk
  <2>1. /\ pc \in {"rx", "rx2"} /\ pc' \in {"rx2", "rx_done"}
        /\ Survives /\ UNCHANGED <<back, ev_read, ev_write, tx, tx_queue>>
    BY <1>4 DEF RxChunk, conn, Survives, Perishes
  <2> QED
    BY <2>1, DeathsCounted DEF Control, Deaths, Survives, Perishes, WriteInterest, ReadInterest, TxShape, InRx, InTx
<1>5. CASE RxDone
  <2>0. alive
    BY <1>5 DEF RxDone, Control, Deaths
  <2>1. /\ pc = "rx_done" /\ UNCHANGED <<ev_write, tx>> /\ (ev_read' <=> rx.bytes > 0)
        /\ Survives \/ Perishes
        /\ \/ ~alive' /\ pc' = "idle" /\ UNCHANGED <<tx_queue, back>>
           \/ alive' /\ rx.bytes > 0 /\ pc' = "tx" /\ back' = "ack" /\ UNCHANGED tx_queue
           \/ alive' /\ rx.bytes > 0 /\ pc' = "ack" /\ UNCHANGED <<tx_queue, back>>
           \/ alive' /\ pc' = "rx" /\ UNCHANGED <<tx_queue, back>>
           \/ alive' /\ pc' = "tx" /\ back' = "rx"
    BY <2>0, <1>5 DEF RxDone, Dies, Lives, Survives, Perishes, WantsRead
  <2> QED
    BY <2>1, DeathsCounted DEF Control, Deaths, Survives, Perishes, WriteInterest, ReadInterest, TxShape, InRx, InTx
<1>6. CASE TxNext
  <2>1. /\ pc = "tx" /\ tx.part = "idle"
        /\ Survives /\ UNCHANGED <<back, ev_read, ev_write>>
        /\ \/ pc' = back /\ tx_queue = <<>> /\ UNCHANGED <<tx, tx_queue>>
           \/ pc' = "tx" /\ tx' = Position("hdr", Head(tx_queue))
    BY <1>6 DEF TxNext, conn, Survives, Perishes
  <2> QED
    BY <2>1, DeathsCounted DEF Control, Deaths, Survives, Perishes, WriteInterest, ReadInterest, TxShape, InRx, InTx, Position
<1>7. CASE TxChunk
  <2>1. /\ pc \in {"tx", "tx2"} /\ pc' \in {"tx2", "tx_done"} /\ tx.part # "idle"
        /\ tx' = [tx EXCEPT !.bytes = @ - WriteLen(rsp, tx.bytes)]
        /\ Survives /\ UNCHANGED <<back, ev_read, ev_write, tx_queue>>
    BY <1>7 DEF TxChunk, conn, Survives, Perishes
  <2> QED
    BY <2>1, DeathsCounted DEF Control, Deaths, Survives, Perishes, WriteInterest, ReadInterest, TxShape, InRx, InTx
<1>8. CASE TxDone
  <2>0. alive
    BY <1>8 DEF TxDone, Control, Deaths
  <2>1. /\ pc = "tx_done" /\ (ev_write' <=> tx.bytes > 0) /\ UNCHANGED <<back, ev_read, tx_queue>>
        /\ Survives \/ Perishes
        /\ \/ ~alive' /\ pc' = (IF back = "called" THEN "called" ELSE "idle") /\ UNCHANGED tx
           \/ alive' /\ tx.bytes > 0 /\ pc' = back /\ UNCHANGED tx
           \/ /\ alive' /\ tx.bytes = 0 /\ pc' = "tx"
              /\ tx' = (IF tx.part = "hdr" THEN Position("body", tx.msg) ELSE Idle)
    BY <2>0, <1>8 DEF TxDone, Dies, Lives, Survives, Perishes, WantsWrite
  <2> QED
    BY <2>1, DeathsCounted DEF Control, Deaths, Survives, Perishes, WriteInterest, ReadInterest, TxShape, InRx, InTx, Position, Idle, NoMessage
<1>9. CASE Ack
  <2>0. alive
    BY <1>9 DEF Ack, Control, Deaths
  <2>1. /\ pc = "ack" /\ UNCHANGED <<back, ev_read, ev_write, tx, tx_queue>>
        /\ \/ pc' = "unmask" /\ Survives
           \/ pc' = "idle" /\ Perishes
    BY <2>0, <1>9 DEF Ack, Dies, Survives, Perishes
  <2> QED
    BY <2>1, DeathsCounted DEF Control, Deaths, Survives, Perishes, WriteInterest, ReadInterest, TxShape, InRx, InTx
<1>10. CASE Unmask
  <2>0. alive
    BY <1>10 DEF Unmask, Control, Deaths
  <2>1. /\ pc = "unmask" /\ pc' = "idle" /\ UNCHANGED <<back, ev_read, ev_write, tx, tx_queue>>
        /\ Survives \/ Perishes
    BY <2>0, <1>10 DEF Unmask, Dies, Lives, Survives, Perishes
  <2> QED
    BY <2>1, DeathsCounted DEF Control, Deaths, Survives, Perishes, WriteInterest, ReadInterest, TxShape, InRx, InTx
<1>11. CASE WatchEvent
  <2>1. /\ pc \in {"idle", "called"} /\ alive /\ pc' = "tx" /\ back' = pc
        /\ Survives /\ UNCHANGED <<ev_read, ev_write, tx>>
    BY <1>11 DEF WatchEvent, conn, Survives, Perishes
  <2> QED
    BY <2>1, DeathsCounted DEF Control, Deaths, Survives, Perishes, WriteInterest, ReadInterest, TxShape, InRx, InTx
<1>12. CASE Guest
  <2>1. Survives /\ UNCHANGED <<pc, back, ev_read, ev_write, tx, tx_queue>>
    <3>1. CASE GuestSend
      BY <3>1 DEF GuestSend, conn, Survives
    <3>2. CASE GuestWrite
      BY <3>2 DEF GuestWrite, conn, Survives
    <3>3. CASE GuestRead
      BY <3>3 DEF GuestRead, conn, Survives
    <3>4. CASE NotifyProduced
      BY <3>4 DEF NotifyProduced, conn, Survives
    <3>5. CASE NotifyConsumed
      BY <3>5 DEF NotifyConsumed, conn, Survives
    <3> QED
      BY <1>12, <3>1, <3>2, <3>3, <3>4, <3>5 DEF Guest
  <2> QED
    BY <2>1, DeathsCounted DEF Control, Deaths, Survives, Perishes, WriteInterest, ReadInterest, TxShape, InRx, InTx
<1> QED
  BY <1>1, <1>2, <1>3, <1>4, <1>5, <1>6, <1>7, <1>8, <1>9, <1>10, <1>11, <1>12
     DEF Next, Daemon, Working

(* Between events, and in every state, of the connection.                  *)
LEMMA ControlHolds == Spec => []Control
<1>1. Init => Control
  BY ControlInit
<1>2. Control /\ [Next]_vars => Control'
  BY ControlStep
<1> QED
  BY <1>1, <1>2, PTL DEF Spec

(* DiesOnce: whichever of read, write, the callback, the fetching and the  *)
(* unmasking of a notification finds the connection broken, conn_dead is   *)
(* called once.                                                            *)
THEOREM DeathsReportedOnce == Spec => []DiesOnce
<1>1. Control => DiesOnce
  BY DEF Control, Deaths, DiesOnce
<1> QED
  BY <1>1, ControlHolds, PTL

(* InterestExact: between events the daemon listens, and asks to be called *)
(* for writing exactly as long as a message is unfinished.                 *)
THEOREM InterestIsExact == Spec => []InterestExact
<1>1. Control => InterestExact
  BY DEF Control, WriteInterest, ReadInterest, InterestExact, InRx, InTx
<1> QED
  BY <1>1, ControlHolds, PTL

-----------------------------------------------------------------------------
(* The modulus where the indices need it: a number less than one turn off. *)
LEMMA Wraps ==
    ASSUME NEW m \in Nat \ {0}, NEW x \in Int, 0 - m <= x, x < 2 * m
    PROVE  x % m = IF x < 0 THEN x + m ELSE IF x < m THEN x ELSE x - m
<1>1. CASE x < 0
  BY <1>1
<1>2. CASE x >= 0 /\ x < m
  <2>1. x \in 0 .. m - 1
    BY <1>2
  <2> QED
    BY <2>1, <1>2
<1>3. CASE x >= m
  <2>1. x \in m .. 2 * m - 1
    BY <1>3
  <2> QED
    BY <2>1, <1>3
<1> QED
  BY <1>1, <1>2, <1>3

(* What lies between two indices, and the index n bytes further, without   *)
(* the modulus.                                                            *)
Index == 0 .. IdxMod - 1
Distance(p, c) == IF p < c THEN p - c + IdxMod ELSE p - c
Onward(i, n) == IF i + n < IdxMod THEN i + n ELSE (i + n) - IdxMod

LEMMA UsedIs ==
    ASSUME NEW r, r.prod \in Index, r.cons \in Index
    PROVE  /\ Used(r) = Distance(r.prod, r.cons)
           /\ Used(r) \in Nat
<1>1. IdxMod \in Nat \ {0}
  BY SizeAssumption
<1>2. r.prod - r.cons \in Int /\ 0 - IdxMod <= r.prod - r.cons /\ r.prod - r.cons < IdxMod
  BY <1>1 DEF Index
<1>3. (r.prod - r.cons) % IdxMod =
        IF r.prod - r.cons < 0 THEN r.prod - r.cons + IdxMod
        ELSE IF r.prod - r.cons < IdxMod THEN r.prod - r.cons ELSE r.prod - r.cons - IdxMod
  BY <1>1, <1>2, Wraps
<1>4. r.prod \in Int /\ r.cons \in Int /\ 0 <= r.prod /\ r.prod < IdxMod
      /\ 0 <= r.cons /\ r.cons < IdxMod
  BY <1>1 DEF Index
<1>5. Used(r) = Distance(r.prod, r.cons)
  BY <1>1, <1>2, <1>3, <1>4 DEF Used, Distance
<1> QED
  BY <1>1, <1>4, <1>5 DEF Distance

LEMMA MaskRange == ASSUME NEW i \in Int PROVE Mask(i) \in 0 .. RingSize - 1
  BY SizeAssumption DEF Mask

LEMMA IndexMoves ==
    ASSUME NEW i \in Index, NEW n \in 0 .. RingSize
    PROVE  (i + n) % IdxMod = Onward(i, n) /\ Onward(i, n) \in Index
<1>1. IdxMod \in Nat \ {0} /\ RingSize \in Nat /\ RingSize < IdxMod
  BY SizeAssumption
<1>2. i + n \in Int /\ 0 - IdxMod <= i + n /\ i + n < 2 * IdxMod /\ ~(i + n < 0)
  BY <1>1 DEF Index
<1>3. (i + n) % IdxMod = IF i + n < 0 THEN i + n + IdxMod
                         ELSE IF i + n < IdxMod THEN i + n ELSE (i + n) - IdxMod
  <2>1. IdxMod \in Nat \ {0} /\ i + n \in Int /\ 0 - IdxMod <= i + n /\ i + n < 2 * IdxMod
    BY <1>1, <1>2
  <2> DEFINE x == i + n
  <2>2. x \in Int /\ 0 - IdxMod <= x /\ x < 2 * IdxMod
    BY <2>1
  <2> HIDE DEF x
  <2>3. x % IdxMod = IF x < 0 THEN x + IdxMod ELSE IF x < IdxMod THEN x ELSE x - IdxMod
    BY <2>1, <2>2, Wraps
  <2> QED
    BY <2>3, Zenon DEF x
<1>4. (i + n) % IdxMod = Onward(i, n)
  BY <1>2, <1>3 DEF Onward
<1>5. Onward(i, n) \in Index
  BY <1>1, <1>2 DEF Index, Onward
<1> QED
  BY <1>4, <1>5

(* Consuming n bytes brings the reader n closer to the writer; producing   *)
(* takes the writer n further, as long as they fit.                        *)
LEMMA ReaderMoves ==
    ASSUME NEW p \in Index, NEW c \in Index, NEW n \in Nat,
           n <= Distance(p, c), n <= RingSize
    PROVE  Distance(p, Onward(c, n)) = Distance(p, c) - n
<1>1. IdxMod \in Nat /\ RingSize \in Nat /\ RingSize < IdxMod
  BY SizeAssumption
<1>2. p \in Int /\ c \in Int /\ 0 <= p /\ p < IdxMod /\ 0 <= c /\ c < IdxMod
  BY <1>1 DEF Index
<1>3. CASE p < c
  BY <1>1, <1>2, <1>3 DEF Distance, Onward
<1>4. CASE p >= c
  BY <1>1, <1>2, <1>4 DEF Distance, Onward
<1> QED
  BY <1>2, <1>3, <1>4

LEMMA WriterMoves ==
    ASSUME NEW p \in Index, NEW c \in Index, NEW n \in Nat,
           Distance(p, c) + n <= RingSize
    PROVE  Distance(Onward(p, n), c) = Distance(p, c) + n
<1>1. IdxMod \in Nat /\ RingSize \in Nat /\ RingSize < IdxMod
  BY SizeAssumption
<1>2. p \in Int /\ c \in Int /\ 0 <= p /\ p < IdxMod /\ 0 <= c /\ c < IdxMod
  BY <1>1 DEF Index
<1>3. CASE p < c
  BY <1>1, <1>2, <1>3 DEF Distance, Onward
<1>4. CASE p >= c
  BY <1>1, <1>2, <1>4 DEF Distance, Onward
<1> QED
  BY <1>2, <1>3, <1>4

LEMMA Consumed ==
    ASSUME NEW r \in Ring, NEW n \in Nat, n <= Used(r), Used(r) <= RingSize
    PROVE  Consume(r, n) \in Ring /\ Used(Consume(r, n)) = Used(r) - n
<1> DEFINE c == Consume(r, n)
<1>1. r.prod \in Index /\ r.cons \in Index /\ r.data \in [0 .. RingSize - 1 -> Byte]
      /\ r = [data |-> r.data, prod |-> r.prod, cons |-> r.cons]
  BY DEF Ring, Index
<1>2. n \in 0 .. RingSize
  BY <1>1, UsedIs, SizeAssumption
<1>3. c = [data |-> r.data, prod |-> r.prod, cons |-> Onward(r.cons, n)]
  BY <1>1, <1>2, IndexMoves DEF Consume
<1>4. c.prod = r.prod /\ c.cons = Onward(r.cons, n) /\ c.data = r.data /\ c.cons \in Index
  BY <1>1, <1>2, <1>3, IndexMoves
<1> HIDE DEF c
<1>5. c \in Ring
  BY <1>1, <1>3, <1>4 DEF Ring, Index
<1>6. Used(r) = Distance(r.prod, r.cons)
  BY <1>1, UsedIs
<1>7. Used(c) = Distance(c.prod, c.cons)
  BY <1>1, <1>4, UsedIs
<1>8. Used(c) = Used(r) - n
  BY <1>1, <1>2, <1>4, <1>6, <1>7, ReaderMoves
<1> QED
  BY <1>5, <1>8 DEF c

LEMMA Produced ==
    ASSUME NEW r \in Ring, Used(r) <= RingSize, NEW bytes \in Seq(Byte),
           Len(bytes) <= Free(r)
    PROVE  Produce(r, bytes) \in Ring /\ Used(Produce(r, bytes)) = Used(r) + Len(bytes)
<1> DEFINE p == Produce(r, bytes)
           n == Len(bytes)
           d == [i \in 0 .. RingSize - 1 |->
                    LET k == i - Mask(r.prod) + 1
                    IN  IF k \in DOMAIN bytes THEN bytes[k] ELSE r.data[i]]
<1>1. r.prod \in Index /\ r.cons \in Index /\ r.data \in [0 .. RingSize - 1 -> Byte]
      /\ r = [data |-> r.data, prod |-> r.prod, cons |-> r.cons]
  BY DEF Ring, Index
<1>2. n \in 0 .. RingSize
  BY <1>1, UsedIs, SizeAssumption DEF Free
<1>3. d \in [0 .. RingSize - 1 -> Byte]
  <2>1. \A k \in DOMAIN bytes : bytes[k] \in Byte
    OBVIOUS
  <2>2. \A i \in 0 .. RingSize - 1 : d[i] \in Byte
    BY <1>1, <2>1
  <2> QED
    BY <2>2
<1>4. p = [r EXCEPT !.data = d, !.prod = (r.prod + n) % IdxMod]
  BY DEF Produce
<1> HIDE DEF d, n
<1>5. p = [data |-> d, prod |-> Onward(r.prod, n), cons |-> r.cons]
  BY <1>1, <1>2, <1>4, IndexMoves
<1>6. p.prod = Onward(r.prod, n) /\ p.cons = r.cons /\ p.data = d /\ p.prod \in Index
  BY <1>1, <1>2, <1>5, IndexMoves
<1> HIDE DEF p
<1>7. p \in Ring
  BY <1>1, <1>3, <1>5, <1>6 DEF Ring, Index
<1>8. Used(r) = Distance(r.prod, r.cons)
  BY <1>1, UsedIs
<1>9. Used(p) = Distance(p.prod, p.cons)
  BY <1>1, <1>6, UsedIs
<1>10. n <= RingSize - Used(r)
  BY DEF Free, n
<1>11. Used(p) = Used(r) + n
  <2>1. Distance(r.prod, r.cons) + n <= RingSize /\ n \in Nat
    BY <1>1, <1>2, <1>8, <1>10, UsedIs, SizeAssumption
  <2> QED
    BY <1>1, <1>6, <1>8, <1>9, <2>1, WriterMoves
<1> QED
  BY <1>7, <1>11 DEF p, n

(* Positions in a message that is known, and in one that may not be yet.   *)
Sending ==
    {s \in [part : {"hdr", "body"}, bytes : Nat, msg : Message] :
        s.bytes <= PartLen(s.part, s.msg)}
Receiving == [part : {"hdr", "body"}, bytes : Nat, msg : Message \cup {NoMessage}]

LEMMA Lengths ==
    /\ \A m \in Message \cup {NoMessage} : m.len \in Nat
    /\ \A m \in Message \cup {NoMessage}, part \in Part : PartLen(part, m) \in Nat
<1>1. \A m \in Message \cup {NoMessage} : m.len \in Nat
  <2>1. NoMessage.len = 0
    BY DEF NoMessage
  <2>2. \A m \in Message : m.len \in BodyLens
    BY DEF Message
  <2>3. \A m \in Message : m.len \in Nat
    BY <2>2, SizeAssumption
  <2> QED
    BY <2>1, <2>3
<1> QED
  BY <1>1, HdrAssumption DEF PartLen

LEMMA Positions ==
    /\ Sending \subseteq At /\ Receiving \subseteq At /\ Idle \in At
    /\ \A m \in Message : Position("hdr", m) \in Sending /\ Position("body", m) \in Sending
    /\ \A m \in Message \cup {NoMessage} :
          Position("hdr", m) \in Receiving /\ Position("body", m) \in Receiving
<1>1. Sending \subseteq At /\ Receiving \subseteq At
  BY DEF Sending, Receiving, At, Part
<1>2. Idle \in At
  BY DEF Idle, At, Part
<1>3. ASSUME NEW m \in Message \cup {NoMessage}, NEW part \in {"hdr", "body"}
      PROVE  Position(part, m) \in Receiving
  <2>1. PartLen(part, m) \in Nat
    BY Lengths DEF Part
  <2> QED
    BY <2>1 DEF Position, Receiving
<1>4. ASSUME NEW m \in Message, NEW part \in {"hdr", "body"}
      PROVE  Position(part, m) \in Sending
  <2>1. PartLen(part, m) \in Nat
    BY Lengths DEF Part
  <2> QED
    BY <2>1 DEF Position, Sending
<1> QED
  BY <1>1, <1>2, <1>3, <1>4

LEMMA AdvanceSending ==
    ASSUME NEW s \in Sending, NEW n \in Nat
    PROVE  Advance(s, n) \in Sending \cup {Idle}
<1>1. s = [part |-> s.part, bytes |-> s.bytes, msg |-> s.msg] /\ s.part \in {"hdr", "body"}
      /\ s.bytes \in Nat /\ s.msg \in Message /\ s.bytes <= PartLen(s.part, s.msg)
  BY DEF Sending
<1>2. CASE s.bytes > n
  <2>1. Advance(s, n) = [part |-> s.part, bytes |-> s.bytes - n, msg |-> s.msg]
    BY <1>1, <1>2 DEF Advance
  <2>2. s.bytes - n \in Nat /\ s.bytes - n <= PartLen(s.part, s.msg)
    BY <1>1, <1>2, Lengths DEF Part
  <2> QED
    BY <1>1, <2>1, <2>2 DEF Sending
<1>3. CASE ~(s.bytes > n)
  <2>1. Advance(s, n) = Position("body", s.msg) \/ Advance(s, n) = Idle
    BY <1>3 DEF Advance
  <2> QED
    BY <1>1, <2>1, Positions
<1> QED
  BY <1>2, <1>3

LEMMA AdvanceAt ==
    ASSUME NEW s \in At, NEW n \in Nat
    PROVE  Advance(s, n) \in At
<1>1. s = [part |-> s.part, bytes |-> s.bytes, msg |-> s.msg] /\ s.part \in Part
      /\ s.bytes \in Nat /\ s.msg \in Message \cup {NoMessage}
  BY DEF At
<1>2. CASE s.bytes > n
  <2>1. Advance(s, n) = [part |-> s.part, bytes |-> s.bytes - n, msg |-> s.msg]
    BY <1>1, <1>2 DEF Advance
  <2>2. s.bytes - n \in Nat
    BY <1>1, <1>2
  <2> QED
    BY <1>1, <2>1, <2>2 DEF At
<1>3. CASE ~(s.bytes > n)
  <2>1. Advance(s, n) = Position("body", s.msg) \/ Advance(s, n) = Idle
    BY <1>3 DEF Advance
  <2> QED
    BY <1>1, <2>1, Positions
<1> QED
  BY <1>2, <1>3

LEMMA UpcomingBytes ==
    ASSUME NEW s \in Sending, NEW n \in Nat
    PROVE  Upcoming(s, n) \in Seq(Byte) /\ Len(Upcoming(s, n)) = n
<1>1. s.part \in {"hdr", "body"} /\ s.bytes \in Nat /\ s.msg \in Message
      /\ s.bytes <= PartLen(s.part, s.msg) /\ PartLen(s.part, s.msg) \in Nat
  BY Lengths DEF Sending, Part
<1>2. ASSUME NEW i \in 1 .. n PROVE ByteOf(s.part, NextByte(s) + i - 1, s.msg) \in Byte
  <2>1. NextByte(s) + i - 1 \in Nat
    BY <1>1 DEF NextByte
  <2> QED
    BY <1>1, <2>1 DEF ByteOf, Byte
<1>3. Upcoming(s, n) \in [1 .. n -> Byte]
  BY <1>2 DEF Upcoming
<1> QED
  BY <1>3

(* What fits: never more than asked for, and never past the other side.    *)
LEMMA ChunkLengths ==
    ASSUME NEW r \in Ring, Used(r) <= RingSize, NEW bytes \in Nat
    PROVE  /\ ReadLen(r, bytes) \in Nat /\ ReadLen(r, bytes) <= bytes
           /\ ReadLen(r, bytes) <= Used(r)
           /\ WriteLen(r, bytes) \in Nat /\ WriteLen(r, bytes) <= bytes
           /\ WriteLen(r, bytes) <= Free(r)
           /\ WriteLen(r, bytes) <= RingSize - Mask(r.prod)
<1>1. r.prod \in Index /\ r.cons \in Index
  BY DEF Ring, Index
<1>2. Used(r) \in Nat /\ Free(r) \in Nat
  BY <1>1, UsedIs, SizeAssumption DEF Free
<1>3. r.prod \in Int /\ r.cons \in Int
  BY <1>1, SizeAssumption DEF Index
<1>4. RingSize - Mask(r.prod) \in Nat /\ RingSize - Mask(r.cons) \in Nat
  BY <1>3, MaskRange, SizeAssumption
<1>5. /\ ReadLen(r, bytes) \in {RingSize - Mask(r.cons), Used(r), bytes}
      /\ ReadLen(r, bytes) <= Used(r) /\ ReadLen(r, bytes) <= bytes
  <2> DEFINE a == RingSize - Mask(r.cons)
             u == Used(r)
  <2>1. a \in Int /\ u \in Int /\ ReadLen(r, bytes) = Min({a, u, bytes})
    BY <1>2, <1>4 DEF ReadLen
  <2> HIDE DEF a, u
  <2>2. /\ Min({a, u, bytes}) \in {a, u, bytes}
        /\ Min({a, u, bytes}) <= u /\ Min({a, u, bytes}) <= bytes
    <3>1. \E x \in {a, u, bytes} : \A y \in {a, u, bytes} : x <= y
      BY <2>1
    <3> QED
      BY <3>1 DEF Min
  <2> QED
    BY <2>1, <2>2 DEF a, u
<1>6. /\ WriteLen(r, bytes) \in {RingSize - Mask(r.prod), Free(r), bytes}
      /\ WriteLen(r, bytes) <= Free(r) /\ WriteLen(r, bytes) <= bytes
      /\ WriteLen(r, bytes) <= RingSize - Mask(r.prod)
  <2> DEFINE a == RingSize - Mask(r.prod)
             f == Free(r)
  <2>1. a \in Int /\ f \in Int /\ WriteLen(r, bytes) = Min({a, f, bytes})
    BY <1>2, <1>4 DEF WriteLen
  <2> HIDE DEF a, f
  <2>2. /\ Min({a, f, bytes}) \in {a, f, bytes}
        /\ Min({a, f, bytes}) <= f /\ Min({a, f, bytes}) <= bytes
        /\ Min({a, f, bytes}) <= a
    <3>1. \E x \in {a, f, bytes} : \A y \in {a, f, bytes} : x <= y
      BY <2>1
    <3> QED
      BY <3>1 DEF Min
  <2> QED
    BY <2>1, <2>2 DEF a, f
<1> QED
  BY <1>2, <1>4, <1>5, <1>6

(* TypeOK in parts, with what the daemon and the guest are about to send.  *)
RingsOK == req \in Ring /\ rsp \in Ring /\ Used(req) <= RingSize /\ Used(rsp) <= RingSize
ControlOK ==
    /\ evtchn \in [queued : BOOLEAN, masked : BOOLEAN, pending : BOOLEAN]
    /\ pc \in {"idle", "called", "rx", "rx2", "rx_done", "tx", "tx2", "tx_done",
               "ack", "unmask"}
    /\ back \in {"idle", "called", "rx", "ack"}
    /\ ready \in [read : BOOLEAN, write : BOOLEAN]
    /\ notify \in BOOLEAN /\ ev_read \in BOOLEAN /\ ev_write \in BOOLEAN
    /\ alive \in BOOLEAN /\ deaths \in Nat
DaemonOK ==
    /\ rx \in Receiving /\ tx \in Sending \cup {Idle} /\ tx_queue \in Seq(Message)
GuestOK ==
    /\ guest \in [out : At, in : At, waiting : Int, produced : BOOLEAN, consumed : BOOLEAN]
    /\ guest.out \in Sending \cup {Idle}
Shapes == RingsOK /\ ControlOK /\ DaemonOK /\ GuestOK

LEMMA ShapesGiveTypes == Shapes => TypeOK
  BY Positions DEF Shapes, RingsOK, ControlOK, DaemonOK, GuestOK, TypeOK

(* A channel that is masked exactly as long as a notification waits.       *)
LEMMA Channel ==
    \A q \in BOOLEAN : [queued |-> q, masked |-> q, pending |-> FALSE]
                          \in [queued : BOOLEAN, masked : BOOLEAN, pending : BOOLEAN]
<1>1. ASSUME NEW q \in BOOLEAN
      PROVE  [queued |-> q, masked |-> q, pending |-> FALSE]
                \in [queued : BOOLEAN, masked : BOOLEAN, pending : BOOLEAN]
  <2>1. q = TRUE \/ q = FALSE
    OBVIOUS
  <2> QED
    BY <2>1
<1> QED
  BY <1>1, Zenon

LEMMA ShapesInit == Init => Shapes
<1> SUFFICES ASSUME Init PROVE Shapes
  OBVIOUS
<1>1. RingsOK
  <2>1. ByteOf("body", 0, AnyMessage) \in Byte
    BY SizeAssumption DEF ByteOf, Byte, AnyMessage, Message
  <2>2. 0 \in Index
    BY SizeAssumption DEF Index
  <2>3. req = [data |-> [i \in 0 .. RingSize - 1 |-> ByteOf("body", 0, AnyMessage)],
               prod |-> 0, cons |-> 0] /\ rsp = req
    BY DEF Init
  <2>4. req \in Ring /\ req.prod = 0 /\ req.cons = 0
    BY <2>1, <2>2, <2>3 DEF Ring, Index
  <2>5. Used(req) = 0
    BY <2>2, <2>4, UsedIs DEF Distance
  <2> QED
    BY <2>3, <2>4, <2>5, SizeAssumption DEF RingsOK
<1>2. ControlOK
  <2>1. evtchn \in [queued : BOOLEAN, masked : BOOLEAN, pending : BOOLEAN]
    BY Channel, Zenon DEF Init
  <2> QED
    BY <2>1 DEF Init, ControlOK
<1>3. DaemonOK
  BY Positions DEF Init, DaemonOK
<1>4. GuestOK
  BY Positions DEF Init, GuestOK
<1> QED
  BY <1>1, <1>2, <1>3, <1>4 DEF Shapes

LEMMA DeathType ==
    ASSUME alive \in BOOLEAN, deaths \in Nat, Lives \/ Dies
    PROVE  deaths' \in Nat /\ alive' \in BOOLEAN
<1>1. deaths' = deaths \/ deaths' = deaths + 1
  BY DEF Lives, Dies
<1>2. alive' \in BOOLEAN
  BY Zenon DEF Lives, Dies
<1> QED
  BY <1>1, <1>2

(* The control's types, whatever the step does to the data.                *)
LEMMA ControlTypes == Shapes /\ [Next]_vars => ControlOK'
<1> SUFFICES ASSUME Shapes, [Next]_vars PROVE ControlOK'
  OBVIOUS
<1>p. ControlOK /\ rx.bytes \in Nat
  BY DEF Shapes, DaemonOK, Receiving
<1>1. CASE UNCHANGED vars
  BY <1>p, <1>1 DEF vars, conn, ControlOK
<1>2. CASE Poll
  BY <1>p, <1>2 DEF Poll, conn, ControlOK
<1>3. CASE Callback
  <2>1. Lives \/ Dies
    BY <1>3 DEF Callback, conn, Lives
  <2>2. deaths' \in Nat /\ alive' \in BOOLEAN
    BY <1>p, <2>1, DeathType DEF ControlOK
  <2> QED
    BY <1>p, <1>3, <2>2 DEF Callback, conn, ControlOK
<1>4. CASE RxChunk
  BY <1>p, <1>4 DEF RxChunk, conn, ControlOK
<1>5. CASE RxDone
  <2>1. Lives \/ Dies
    BY <1>5 DEF RxDone
  <2>2. deaths' \in Nat /\ alive' \in BOOLEAN
    BY <1>p, <2>1, DeathType DEF ControlOK
  <2>3. ev_read' \in BOOLEAN
    BY <1>5 DEF RxDone, WantsRead
  <2>4. /\ pc' \in {"idle", "tx", "ack", "rx"} /\ back' \in {back, "ack", "rx"}
        /\ UNCHANGED <<evtchn, ready, notify, ev_write>>
    BY <1>5 DEF RxDone
  <2> QED
    BY <1>p, <2>2, <2>3, <2>4 DEF ControlOK
<1>6. CASE TxNext
  BY <1>p, <1>6 DEF TxNext, conn, ControlOK
<1>7. CASE TxChunk
  BY <1>p, <1>7 DEF TxChunk, conn, ControlOK
<1>8. CASE TxDone
  <2>1. Lives \/ Dies
    BY <1>8 DEF TxDone
  <2>2. deaths' \in Nat /\ alive' \in BOOLEAN
    BY <1>p, <2>1, DeathType DEF ControlOK
  <2>3. ev_write' \in BOOLEAN
    BY <1>8 DEF TxDone, WantsWrite
  <2>4. /\ pc' \in {"idle", "called", "tx", back}
        /\ UNCHANGED <<evtchn, ready, notify, ev_read, back>>
    BY <1>8 DEF TxDone
  <2> QED
    BY <1>p, <2>2, <2>3, <2>4 DEF ControlOK
<1>9. CASE Ack
  <2>1. Lives \/ Dies
    BY <1>9 DEF Ack, Lives
  <2>2. deaths' \in Nat /\ alive' \in BOOLEAN
    BY <1>p, <2>1, DeathType DEF ControlOK
  <2> QED
    BY <1>p, <1>9, <2>2 DEF Ack, ControlOK
<1>10. CASE Unmask
  <2>1. Lives \/ Dies
    BY <1>10 DEF Unmask
  <2>2. deaths' \in Nat /\ alive' \in BOOLEAN
    BY <1>p, <2>1, DeathType DEF ControlOK
  <2> QED
    <3>1. evtchn' \in [queued : BOOLEAN, masked : BOOLEAN, pending : BOOLEAN]
      <4>1. evtchn.pending \in BOOLEAN
        BY <1>p DEF ControlOK
      <4>2. \/ evtchn' = [queued |-> evtchn.pending, masked |-> evtchn.pending, pending |-> FALSE]
            \/ evtchn' = evtchn
        BY <1>10 DEF Unmask
      <4>3. CASE evtchn' = evtchn
        BY <1>p, <4>3 DEF ControlOK
      <4>4. CASE evtchn' = [queued |-> evtchn.pending, masked |-> evtchn.pending, pending |-> FALSE]
        BY <4>1, <4>4, Channel, Zenon
      <4> QED
        BY <4>2, <4>3, <4>4
    <3>2. pc' = "idle" /\ UNCHANGED <<back, ready, notify, ev_read, ev_write>>
      BY <1>10 DEF Unmask
    <3> QED
      BY <1>p, <2>2, <3>1, <3>2 DEF ControlOK
<1>11. CASE WatchEvent
  BY <1>p, <1>11 DEF WatchEvent, conn, ControlOK
<1>12. CASE GuestSend \/ GuestWrite \/ GuestRead
  BY <1>p, <1>12 DEF GuestSend, GuestWrite, GuestRead, conn, ControlOK
<1>13. CASE NotifyProduced \/ NotifyConsumed
  BY <1>p, <1>13 DEF NotifyProduced, NotifyConsumed, Notified, conn, ControlOK
<1> QED
  BY <1>1, <1>2, <1>3, <1>4, <1>5, <1>6, <1>7, <1>8, <1>9, <1>10, <1>11, <1>12, <1>13
     DEF Next, Daemon, Working, Guest

LEMMA ReadSide ==
    ASSUME NEW r \in Ring, Used(r) <= RingSize, NEW n \in Nat, n <= Used(r)
    PROVE  Consume(r, n) \in Ring /\ Used(Consume(r, n)) <= RingSize
<1>1. Used(r) \in Nat
  BY UsedIs DEF Ring, Index
<1>2. Consume(r, n) \in Ring /\ Used(Consume(r, n)) = Used(r) - n
  BY Consumed
<1> QED
  BY <1>1, <1>2, SizeAssumption

LEMMA WriteSide ==
    ASSUME NEW r \in Ring, Used(r) <= RingSize, NEW s \in Sending,
           NEW n \in Nat, n <= Free(r)
    PROVE  /\ Produce(r, Upcoming(s, n)) \in Ring
           /\ Used(Produce(r, Upcoming(s, n))) <= RingSize
<1> DEFINE bytes == Upcoming(s, n)
<1>1. Used(r) \in Nat
  BY UsedIs DEF Ring, Index
<1>2. bytes \in Seq(Byte) /\ Len(bytes) = n
  BY UpcomingBytes
<1> HIDE DEF bytes
<1>3. Produce(r, bytes) \in Ring /\ Used(Produce(r, bytes)) = Used(r) + n
  BY <1>2, Produced
<1>4. Used(r) + n <= RingSize
  BY <1>1, SizeAssumption DEF Free
<1> QED
  BY <1>3, <1>4 DEF bytes

LEMMA FirstByte ==
    ASSUME NEW r \in Ring
    PROVE  r.data[Mask(r.cons)].msg \in Message
<1>1. r.cons \in Int /\ r.data \in [0 .. RingSize - 1 -> Byte]
  BY SizeAssumption DEF Ring
<1>2. r.data[Mask(r.cons)] \in Byte
  BY <1>1, MaskRange
<1> QED
  BY <1>2 DEF Byte

LEMMA ShapesStep == Shapes /\ [Next]_vars => Shapes'
<1> SUFFICES ASSUME Shapes, [Next]_vars PROVE Shapes'
  OBVIOUS
<1>c. ControlOK'
  BY ControlTypes
<1>p. /\ req \in Ring /\ rsp \in Ring /\ Used(req) <= RingSize /\ Used(rsp) <= RingSize
      /\ rx \in Receiving /\ tx \in Sending \cup {Idle} /\ tx_queue \in Seq(Message)
      /\ guest \in [out : At, in : At, waiting : Int, produced : BOOLEAN, consumed : BOOLEAN]
      /\ guest.out \in Sending \cup {Idle}
  BY DEF Shapes, RingsOK, DaemonOK, GuestOK
<1>r. /\ rx = [part |-> rx.part, bytes |-> rx.bytes, msg |-> rx.msg]
      /\ rx.part \in {"hdr", "body"} /\ rx.bytes \in Nat /\ rx.msg \in Message \cup {NoMessage}
  BY <1>p DEF Receiving
<1>i. Idle.part = "idle"
  BY DEF Idle
<1>1. CASE UNCHANGED <<req, rsp, rx, tx, tx_queue, guest>>
  BY <1>c, <1>p, <1>1 DEF Shapes, RingsOK, DaemonOK, GuestOK
<1>2. CASE RxChunk
  <2> DEFINE n == ReadLen(req, rx.bytes)
             m == IF n > 0 /\ rx.part = "hdr" THEN req.data[Mask(req.cons)].msg ELSE rx.msg
  <2>1. n \in Nat /\ n <= rx.bytes /\ n <= Used(req)
    BY <1>p, <1>r, ChunkLengths
  <2>2. req' = Consume(req, n) /\ rx' = [rx EXCEPT !.bytes = rx.bytes - n, !.msg = m]
        /\ UNCHANGED <<rsp, tx, tx_queue, guest>>
    BY <1>2 DEF RxChunk
  <2>3. m \in Message \cup {NoMessage}
    <3>1. m = req.data[Mask(req.cons)].msg \/ m = rx.msg
      OBVIOUS
    <3> QED
      BY <1>p, <1>r, <3>1, FirstByte
  <2> HIDE DEF n, m
  <2>4. rx' = [part |-> rx.part, bytes |-> rx.bytes - n, msg |-> m]
    BY <1>r, <2>2
  <2>5. rx' \in Receiving
    BY <1>r, <2>1, <2>3, <2>4 DEF Receiving
  <2>6. req' \in Ring /\ Used(req') <= RingSize
    BY <1>p, <2>1, <2>2, ReadSide
  <2> QED
    BY <1>c, <1>p, <2>2, <2>5, <2>6 DEF Shapes, RingsOK, DaemonOK, GuestOK
<1>3. CASE RxDone
  <2>1. UNCHANGED <<req, rsp, tx, guest>>
    BY <1>3 DEF RxDone
  <2>2. rx' \in Receiving
    <3>1. rx' \in {rx, Position("body", rx.msg), Position("hdr", NoMessage)}
      BY <1>3 DEF RxDone
    <3> QED
      BY <1>r, <1>p, <3>1, Positions
  <2>3. tx_queue' \in Seq(Message)
    <3>1. \/ tx_queue' = tx_queue
          \/ \E reply \in Replies : tx_queue' = Append(tx_queue, reply)
      BY <1>3 DEF RxDone
    <3>2. Replies \subseteq Message
      BY DEF Replies, Message
    <3> QED
      BY <1>p, <3>1, <3>2
  <2> QED
    BY <1>c, <1>p, <2>1, <2>2, <2>3 DEF Shapes, RingsOK, DaemonOK, GuestOK
<1>4. CASE TxNext
  <2>1. UNCHANGED <<req, rsp, rx, guest>>
    BY <1>4 DEF TxNext
  <2>2. CASE tx_queue = <<>>
    BY <1>c, <1>p, <1>4, <2>1, <2>2 DEF TxNext, Shapes, RingsOK, DaemonOK, GuestOK
  <2>3. CASE tx_queue # <<>>
    <3>1. Head(tx_queue) \in Message /\ Tail(tx_queue) \in Seq(Message)
      BY <1>p, <2>3
    <3>2. tx' = Position("hdr", Head(tx_queue)) /\ tx_queue' = Tail(tx_queue)
      BY <1>4, <2>3 DEF TxNext
    <3>3. tx' \in Sending
      BY <3>1, <3>2, Positions
    <3> QED
      BY <1>c, <1>p, <2>1, <3>1, <3>2, <3>3 DEF Shapes, RingsOK, DaemonOK, GuestOK
  <2> QED
    BY <2>2, <2>3
<1>5. CASE TxChunk
  <2> DEFINE n == WriteLen(rsp, tx.bytes)
  <2>1. rsp' = Produce(rsp, Upcoming(tx, n)) /\ tx' = [tx EXCEPT !.bytes = tx.bytes - n]
        /\ tx.part # "idle" /\ UNCHANGED <<req, rx, tx_queue, guest>>
    BY <1>5 DEF TxChunk
  <2>2. tx \in Sending
    BY <1>p, <1>i, <2>1
  <2>3. /\ tx = [part |-> tx.part, bytes |-> tx.bytes, msg |-> tx.msg]
        /\ tx.part \in {"hdr", "body"} /\ tx.bytes \in Nat /\ tx.msg \in Message
        /\ tx.bytes <= PartLen(tx.part, tx.msg) /\ PartLen(tx.part, tx.msg) \in Nat
    BY <2>2, Lengths DEF Sending, Part
  <2>4. n \in Nat /\ n <= tx.bytes /\ n <= Free(rsp)
    BY <1>p, <2>3, ChunkLengths
  <2> HIDE DEF n
  <2>5. rsp' \in Ring /\ Used(rsp') <= RingSize
    BY <1>p, <2>1, <2>2, <2>4, WriteSide
  <2>6. tx' = [part |-> tx.part, bytes |-> tx.bytes - n, msg |-> tx.msg]
    BY <2>1, <2>3
  <2>7. tx' \in Sending
    BY <2>3, <2>4, <2>6 DEF Sending
  <2> QED
    BY <1>c, <1>p, <2>1, <2>5, <2>7 DEF Shapes, RingsOK, DaemonOK, GuestOK
<1>6. CASE TxDone
  <2>1. UNCHANGED <<req, rsp, rx, tx_queue, guest>>
    BY <1>6 DEF TxDone
  <2>2. tx' \in Sending \cup {Idle}
    <3>1. tx' \in {tx, Idle} \/ (tx.part = "hdr" /\ tx' = Position("body", tx.msg))
      BY <1>6 DEF TxDone
    <3>2. tx.part = "hdr" => tx.msg \in Message
      BY <1>p, <1>i DEF Sending
    <3> QED
      BY <1>p, <3>1, <3>2, Positions
  <2> QED
    BY <1>c, <1>p, <2>1, <2>2 DEF Shapes, RingsOK, DaemonOK, GuestOK
<1>7. CASE GuestSend
  <2>1. PICK len \in BodyLens :
            guest' = [guest EXCEPT
                         !.out = Position("hdr", [kind |-> "request", len |-> len]),
                         !.waiting = @ + 1]
    BY <1>7 DEF GuestSend
  <2>2. [kind |-> "request", len |-> len] \in Message
    BY DEF Message
  <2>3. Position("hdr", [kind |-> "request", len |-> len]) \in Sending
    BY <2>2, Positions
  <2>4. GuestOK'
    <3> DEFINE s == Position("hdr", [kind |-> "request", len |-> len])
    <3>1. guest' = [guest EXCEPT !.out = s, !.waiting = @ + 1] /\ s \in Sending /\ s \in At
      BY <2>1, <2>3, Positions
    <3> HIDE DEF s
    <3>2. guest.waiting + 1 \in Int
      BY <1>p
    <3> QED
      BY <1>p, <3>1, <3>2 DEF GuestOK
  <2> QED
    BY <1>7, <1>c, <1>p, <2>4 DEF GuestSend, Shapes, RingsOK, DaemonOK
<1>8. CASE GuestWrite
  <2>1. PICK n \in 1 .. WriteLen(req, guest.out.bytes) :
            /\ req' = Produce(req, Upcoming(guest.out, n))
            /\ guest' = [guest EXCEPT !.out = Advance(@, n), !.produced = TRUE]
    BY <1>8 DEF GuestWrite
  <2>2. guest.out \in Sending
    BY <1>8, <1>p, <1>i DEF GuestWrite
  <2>3. guest.out.bytes \in Nat
    BY <2>2 DEF Sending
  <2>4. n \in Nat /\ n <= Free(req)
    <3>1. WriteLen(req, guest.out.bytes) \in Nat /\ WriteLen(req, guest.out.bytes) <= Free(req)
      BY <1>p, <2>3, ChunkLengths
    <3>2. Free(req) \in Int
      BY <1>p, UsedIs, SizeAssumption DEF Free, Ring, Index
    <3> QED
      BY <2>1, <3>1, <3>2
  <2>5. req' \in Ring /\ Used(req') <= RingSize
    BY <1>p, <2>1, <2>2, <2>4, WriteSide
  <2>6. Advance(guest.out, n) \in Sending \cup {Idle}
    BY <2>2, <2>4, AdvanceSending
  <2>7. GuestOK'
    BY <1>p, <2>1, <2>6, Positions DEF GuestOK
  <2> QED
    BY <1>8, <1>c, <1>p, <2>5, <2>7 DEF GuestWrite, Shapes, RingsOK, DaemonOK
<1>9. CASE GuestRead
  <2> DEFINE m == rsp.data[Mask(rsp.cons)].msg
             at == IF guest.in.part = "idle" THEN Position("hdr", m) ELSE guest.in
  <2>1. PICK n \in 1 .. ReadLen(rsp, at.bytes) :
            /\ rsp' = Consume(rsp, n)
            /\ guest' = [guest EXCEPT
                    !.in = Advance(at, n), !.consumed = TRUE,
                    !.waiting = IF Advance(at, n) = Idle /\ m.kind = "reply"
                                THEN @ - 1 ELSE @]
    BY <1>9 DEF GuestRead
  <2>2. at \in At
    BY <1>p, FirstByte, Positions
  <2> HIDE DEF m, at
  <2>3. at.bytes \in Nat
    BY <2>2 DEF At
  <2>4. n \in Nat /\ n <= Used(rsp)
    <3>1. ReadLen(rsp, at.bytes) \in Nat /\ ReadLen(rsp, at.bytes) <= Used(rsp)
      BY <1>p, <2>3, ChunkLengths
    <3>2. Used(rsp) \in Nat
      BY <1>p, UsedIs DEF Ring, Index
    <3> QED
      BY <2>1, <3>1, <3>2
  <2>5. rsp' \in Ring /\ Used(rsp') <= RingSize
    BY <1>p, <2>1, <2>4, ReadSide
  <2>6. Advance(at, n) \in At
    BY <2>2, <2>4, AdvanceAt
  <2>7. GuestOK'
    <3> DEFINE w == IF Advance(at, n) = Idle /\ m.kind = "reply"
                    THEN guest.waiting - 1 ELSE guest.waiting
               s == Advance(at, n)
    <3>1. guest' = [guest EXCEPT !.in = s, !.consumed = TRUE, !.waiting = w]
      BY <2>1
    <3>2. w \in Int /\ s \in At
      BY <1>p, <2>6
    <3> HIDE DEF w, s
    <3> QED
      BY <1>p, <3>1, <3>2 DEF GuestOK
  <2> QED
    BY <1>9, <1>c, <1>p, <2>5, <2>7 DEF GuestRead, Shapes, RingsOK, DaemonOK
<1>10. CASE NotifyProduced
  <2>1. guest' = [guest EXCEPT !.produced = FALSE] /\ UNCHANGED <<req, rsp, rx, tx, tx_queue>>
    BY <1>10 DEF NotifyProduced
  <2>2. GuestOK'
    BY <1>p, <2>1 DEF GuestOK
  <2> QED
    BY <1>c, <1>p, <2>1, <2>2 DEF Shapes, RingsOK, DaemonOK
<1>11. CASE NotifyConsumed
  <2>1. guest' = [guest EXCEPT !.consumed = FALSE] /\ UNCHANGED <<req, rsp, rx, tx, tx_queue>>
    BY <1>11 DEF NotifyConsumed
  <2>2. GuestOK'
    BY <1>p, <2>1 DEF GuestOK
  <2> QED
    BY <1>c, <1>p, <2>1, <2>2 DEF Shapes, RingsOK, DaemonOK
<1>12. CASE WatchEvent
  <2>1. PICK len \in BodyLens : tx_queue' = Append(tx_queue, [kind |-> "event", len |-> len])
    BY <1>12 DEF WatchEvent
  <2>2. [kind |-> "event", len |-> len] \in Message
    BY DEF Message
  <2>3. tx_queue' \in Seq(Message)
    BY <1>p, <2>1, <2>2
  <2> QED
    BY <1>12, <1>c, <1>p, <2>3 DEF WatchEvent, Shapes, RingsOK, DaemonOK, GuestOK
<1>13. CASE UNCHANGED vars
  BY <1>1, <1>13 DEF vars
<1>14. CASE Poll \/ Callback
  BY <1>1, <1>14 DEF Poll, Callback
<1>15. CASE Ack \/ Unmask
  BY <1>1, <1>15 DEF Ack, Unmask
<1> QED
  BY <1>2, <1>3, <1>4, <1>5, <1>6, <1>7, <1>8, <1>9, <1>10, <1>11, <1>12, <1>13, <1>14, <1>15
     DEF Next, Daemon, Working, Guest

(* TypeOK, and with it: whatever the sizes and however often the indices   *)
(* wrapped, neither side's index overtakes the other's (read_chunk,        *)
(* write_chunk, MASK_XENSTORE_IDX).                                        *)
THEOREM TypeCorrect == Spec => []TypeOK
<1>1. Init => Shapes
  BY ShapesInit
<1>2. Shapes /\ [Next]_vars => Shapes'
  BY ShapesStep
<1>3. Shapes => TypeOK
  BY ShapesGiveTypes
<1> QED
  BY <1>1, <1>2, <1>3, PTL DEF Spec

-----------------------------------------------------------------------------
(* Where the callback is, or returns to once process_tx is done.           *)
Returning(where) == pc \in where \/ (pc \in InTx /\ back \in where)
Unsent == tx.part # "idle" /\ tx.bytes > 0

(* Only between fetching and unmasking is the channel masked and nothing   *)
(* waits to be fetched.                                                    *)
Channels == alive /\ pc # "unmask" /\ evtchn.masked => evtchn.queued

(* A part that process_tx left unfinished still has bytes to send.         *)
Unfinished == alive /\ pc \notin InTx /\ tx.part # "idle" => tx.bytes > 0

(* A callback for reading has its own notification to fetch.               *)
ForReading ==
    alive => /\ pc \in InRx \/ (pc \in InTx /\ back = "rx") => ready.read
             /\ ready.read /\ Returning({"called", "ack"} \cup InRx) => evtchn.queued

(* One for writing only has written, or found the ring full: the guest     *)
(* will read and notify.  Or it has not tried yet.                         *)
ForWriting ==
    alive /\ ~ready.read /\ Returning({"called", "ack"}) =>
        WillRing \/ (pc \in {"called", "tx"} /\ Unsent)

Awake == Channels /\ Unfinished /\ ForReading /\ ForWriting

LEMMA AwakeInit == Init => Awake
<1> SUFFICES ASSUME Init PROVE Awake
  OBVIOUS
<1>1. pc = "idle" /\ tx.part = "idle"
  BY DEF Init, Idle
<1>2. evtchn.masked => evtchn.queued
  <2>1. PICK q \in BOOLEAN : evtchn = [queued |-> q, masked |-> q, pending |-> FALSE]
    BY DEF Init
  <2> QED
    BY <2>1
<1> QED
  BY <1>1, <1>2 DEF Awake, Channels, Unfinished, ForReading, ForWriting, Returning, InRx, InTx

(* After a chunk something lies in the ring: what was written, or what     *)
(* fills it.                                                               *)
LEMMA ChunkFills ==
    ASSUME Shapes, TxChunk
    PROVE  /\ Unsent => Used(rsp') > 0
           /\ Used(rsp) > 0 => Used(rsp') > 0
<1> DEFINE n == WriteLen(rsp, tx.bytes)
<1>1. rsp \in Ring /\ Used(rsp) <= RingSize /\ tx \in Sending
  BY Positions DEF TxChunk, Shapes, RingsOK, DaemonOK, Idle
<1>2. tx.bytes \in Nat
  BY <1>1 DEF Sending
<1>3. rsp.prod \in Index /\ rsp.cons \in Index
  BY <1>1 DEF Ring, Index
<1>4. Used(rsp) \in Nat
  BY <1>3, UsedIs
<1>5. n \in Nat /\ n <= Free(rsp)
  BY <1>1, <1>2, ChunkLengths
<1>6. Used(rsp') = Used(rsp) + n
  <2> DEFINE bytes == Upcoming(tx, n)
  <2>1. rsp' = Produce(rsp, bytes)
    BY DEF TxChunk
  <2>2. bytes \in Seq(Byte) /\ Len(bytes) = n
    BY <1>1, <1>5, UpcomingBytes
  <2> HIDE DEF bytes, n
  <2>3. Used(Produce(rsp, bytes)) = Used(rsp) + n
    BY <1>1, <1>5, <2>2, Produced
  <2> QED
    BY <2>1, <2>3
<1>7. tx.bytes > 0 => n > 0 \/ Used(rsp) = RingSize
  <2> DEFINE a == RingSize - Mask(rsp.prod)
             f == Free(rsp)
  <2>1. a > 0 /\ a \in Nat
    BY <1>3, MaskRange, SizeAssumption DEF Index
  <2>2. f \in Int /\ (f = 0 => Used(rsp) = RingSize) /\ f >= 0
    BY <1>1, <1>4, SizeAssumption DEF Free
  <2>3. n = Min({a, f, tx.bytes})
    BY DEF WriteLen
  <2> HIDE DEF a, f, n
  <2>4. \E x \in {a, f, tx.bytes} : \A y \in {a, f, tx.bytes} : x <= y
    BY <1>2, <2>1, <2>2
  <2>5. n \in {a, f, tx.bytes}
    BY <2>3, <2>4 DEF Min
  <2> QED
    BY <1>2, <2>1, <2>2, <2>5
<1> HIDE DEF n
<1> QED
  BY <1>4, <1>5, <1>6, <1>7, SizeAssumption DEF Unsent

LEMMA AwakeStep == Shapes /\ Control /\ Awake /\ [Next]_vars => Awake'
<1> SUFFICES ASSUME Shapes, Control, Awake, [Next]_vars PROVE Awake'
  OBVIOUS
<1> USE DEF InRx, InTx
<1>w. /\ pc \in {"idle", "called", "ack", "unmask"} \cup InRx \cup InTx
      /\ back \in {"idle", "called", "rx", "ack"}
  BY DEF Control, Deaths
<1>a. Channels /\ Unfinished /\ ForReading /\ ForWriting
  BY DEF Awake
<1>1. CASE UNCHANGED vars
  BY <1>a, <1>1 DEF vars, conn, Awake, Channels, Unfinished, ForReading, ForWriting,
                    Returning, Unsent, WillRing, Used
<1>2. CASE Poll
  <2>1. /\ pc = "idle" /\ pc' = "called" /\ (ready'.read => evtchn.queued)
        /\ (~ready'.read => ev_write)
        /\ UNCHANGED <<rsp, evtchn, back, conn, tx, guest>>
    BY <1>2 DEF Poll
  <2>2. alive /\ ev_write => Unsent
    BY <1>a, <2>1 DEF Control, WriteInterest, Unfinished, Unsent
  <2> QED
    BY <1>a, <2>1, <2>2 DEF conn, Awake, Channels, Unfinished, ForReading, ForWriting,
                            Returning, Unsent, WillRing, Used
<1>3. CASE Callback
  <2>1. /\ pc = "called" /\ UNCHANGED <<rsp, evtchn, ready, tx, guest>>
        /\ \/ ~alive'
           \/ alive /\ ready.read /\ pc' = "rx"
           \/ alive /\ ~ready.read /\ pc' = "tx" /\ back' = "ack"
    BY <1>3 DEF Callback, Dies, conn
  <2> QED
    BY <1>a, <2>1 DEF Awake, Channels, Unfinished, ForReading, ForWriting,
                      Returning, Unsent, WillRing, Used
<1>4. CASE RxChunk
  <2>1. /\ pc \in InRx /\ pc' \in InRx
        /\ UNCHANGED <<rsp, evtchn, ready, back, alive, tx, guest>>
    BY <1>4 DEF RxChunk, conn
  <2> QED
    BY <1>a, <2>1 DEF Awake, Channels, Unfinished, ForReading, ForWriting,
                      Returning, Unsent, WillRing, Used
<1>5. CASE RxDone
  <2>1. /\ pc \in InRx /\ UNCHANGED <<rsp, evtchn, ready, tx, guest>>
        /\ ~alive' \/ (alive /\ pc' \in {"tx", "ack", "rx"})
    BY <1>5 DEF RxDone, Lives, Dies
  <2> QED
    BY <1>a, <1>w, <2>1 DEF Awake, Channels, Unfinished, ForReading, ForWriting,
                            Returning, Unsent, WillRing, Used
<1>6. CASE TxNext
  <2>1. /\ pc = "tx" /\ tx.part = "idle" /\ UNCHANGED <<rsp, evtchn, ready, back, alive, guest>>
        /\ \/ pc' = back /\ UNCHANGED tx
           \/ pc' = "tx"
    BY <1>6 DEF TxNext, conn
  <2> QED
    BY <1>a, <1>w, <2>1 DEF Awake, Channels, Unfinished, ForReading, ForWriting,
                            Returning, Unsent, WillRing, Used
<1>7. CASE TxChunk
  <2>1. /\ pc \in {"tx", "tx2"} /\ pc' \in {"tx2", "tx_done"}
        /\ UNCHANGED <<evtchn, ready, back, alive, guest>>
    BY <1>7 DEF TxChunk, conn
  <2>2. WillRing \/ Unsent => WillRing'
    BY <1>7, <2>1, ChunkFills DEF WillRing, Used
  <2> QED
    BY <1>a, <2>1, <2>2 DEF Awake, Channels, Unfinished, ForReading, ForWriting, Returning
<1>8. CASE TxDone
  <2>1. /\ pc = "tx_done" /\ UNCHANGED <<rsp, evtchn, ready, back, guest>>
        /\ \/ ~alive'
           \/ alive /\ tx.bytes > 0 /\ pc' = back /\ UNCHANGED tx
           \/ alive /\ pc' = "tx"
    BY <1>8 DEF TxDone, Lives, Dies
  <2> QED
    BY <1>a, <1>w, <2>1 DEF Awake, Channels, Unfinished, ForReading, ForWriting,
                            Returning, Unsent, WillRing, Used
<1>9. CASE Ack
  <2>1. /\ pc = "ack" /\ pc' \in {"unmask", "idle"} /\ UNCHANGED <<ready, tx>>
        /\ pc' = "idle" => ~alive'
        /\ alive' => alive
    BY <1>9 DEF Ack, Dies
  <2> QED
    BY <1>a, <2>1 DEF Awake, Channels, Unfinished, ForReading, ForWriting, Returning
<1>10. CASE Unmask
  <2>1. /\ pc = "unmask" /\ pc' = "idle" /\ UNCHANGED <<ready, tx>>
        /\ \/ ~alive'
           \/ /\ alive' = alive
              /\ evtchn' = [queued |-> evtchn.pending, masked |-> evtchn.pending,
                            pending |-> FALSE]
    BY <1>10 DEF Unmask, Lives, Dies
  <2> QED
    BY <1>a, <2>1 DEF Awake, Channels, Unfinished, ForReading, ForWriting, Returning
<1>11. CASE WatchEvent
  <2>1. /\ pc \in {"idle", "called"} /\ pc' = "tx" /\ back' = pc
        /\ UNCHANGED <<rsp, evtchn, ready, alive, tx, guest>>
    BY <1>11 DEF WatchEvent, conn
  <2> QED
    BY <1>a, <2>1 DEF Awake, Channels, Unfinished, ForReading, ForWriting,
                      Returning, Unsent, WillRing, Used
<1>12. CASE GuestSend \/ GuestWrite \/ GuestRead
  <2>1. UNCHANGED <<evtchn, ready, pc, back, alive, tx>>
    BY <1>12 DEF GuestSend, GuestWrite, GuestRead, conn
  <2>2. WillRing => WillRing'
    <3>0. guest = [out |-> guest.out, in |-> guest.in, waiting |-> guest.waiting,
                   produced |-> guest.produced, consumed |-> guest.consumed]
      BY DEF Shapes, GuestOK
    <3>1. CASE GuestSend
      BY <3>0, <3>1 DEF GuestSend, WillRing, Used
    <3>2. CASE GuestWrite
      <4>1. guest'.produced
        BY <3>0, <3>2 DEF GuestWrite
      <4> QED
        BY <4>1 DEF WillRing
    <3>3. CASE GuestRead
      <4>1. guest'.consumed
        BY <3>0, <3>3 DEF GuestRead
      <4> QED
        BY <4>1 DEF WillRing
    <3> QED
      BY <1>12, <3>1, <3>2, <3>3
  <2> QED
    BY <1>a, <2>1, <2>2 DEF Awake, Channels, Unfinished, ForReading, ForWriting,
                            Returning, Unsent
<1>13. CASE NotifyProduced \/ NotifyConsumed
  <2>1. Notified /\ UNCHANGED <<rsp, ready, pc, back, alive, tx>>
    BY <1>13 DEF NotifyProduced, NotifyConsumed, conn
  <2>2. evtchn = [queued |-> evtchn.queued, masked |-> evtchn.masked, pending |-> evtchn.pending]
    BY DEF Shapes, ControlOK
  <2>3. /\ evtchn.queued => evtchn'.queued
        /\ evtchn.masked \/ evtchn'.queued
    BY <2>1, <2>2 DEF Notified
  <2>4. alive /\ pc # "unmask" => evtchn'.queued
    BY <1>a, <2>3 DEF Channels
  <2> QED
    BY <1>a, <2>1, <2>3, <2>4 DEF Awake, Channels, Unfinished, ForReading, ForWriting,
                                  Returning, Unsent, WillRing
<1> QED
  BY <1>1, <1>2, <1>3, <1>4, <1>5, <1>6, <1>7, <1>8, <1>9, <1>10, <1>11, <1>12, <1>13
     DEF Next, Daemon, Working, Guest

(* AckReturns: xc_evtchn_pending, which blocks, always finds or gets a     *)
(* notification, also in a callback that epoll made for writing only.      *)
THEOREM FetchReturns == Spec => []AckReturns
<1>1. Init => Shapes /\ Control /\ Awake
  BY ShapesInit, ControlInit, AwakeInit
<1>2. Shapes /\ Control /\ Awake /\ [Next]_vars => Shapes' /\ Control' /\ Awake'
  BY ShapesStep, ControlStep, AwakeStep
<1>3. Control /\ Awake => AckReturns
  BY DEF Control, Deaths, Awake, ForReading, ForWriting, Returning, AckReturns, WillRing
<1> QED
  BY <1>1, <1>2, <1>3, PTL DEF Spec

-----------------------------------------------------------------------------
(* Division, and what the modulus makes of sums: a whole turn of the index *)
(* type is no move in the ring, and less than a turn of the ring wraps     *)
(* once.                                                                   *)
LEMMA Quotient ==
    ASSUME NEW m \in Nat \ {0}, NEW x \in Int
    PROVE  x = m * (x \div m) + (x % m) /\ x % m \in 0 .. m - 1 /\ x \div m \in Int
  OBVIOUS

LEMMA Remainder ==
    ASSUME NEW m \in Nat \ {0}, NEW q \in Int, NEW r \in 0 .. m - 1
    PROVE  (m * q + r) % m = r
  OBVIOUS

LEMMA WholeTurn ==
    ASSUME NEW m \in Nat \ {0}, NEW x \in Int, NEW turn \in Int, turn % m = 0
    PROVE  (x - turn) % m = x % m
<1> DEFINE q == x \div m
           k == turn \div m
           r == x % m
<1>1. x = m * q + r /\ r \in 0 .. m - 1 /\ q \in Int
  BY Quotient
<1>2. turn = m * k /\ k \in Int
  <2>1. turn = m * k + (turn % m) /\ k \in Int
    BY Quotient
  <2> QED
    BY <2>1
<1> HIDE DEF q, k, r
<1>3. x - turn = m * (q - k) + r
  BY <1>1, <1>2
<1>4. (m * (q - k) + r) % m = r
  BY <1>1, <1>2, Remainder
<1> QED
  BY <1>3, <1>4 DEF r

LEMMA PartTurn ==
    ASSUME NEW m \in Nat \ {0}, NEW x \in Int, NEW d \in 0 .. m
    PROVE  (x + d) % m = IF (x % m) + d < m THEN (x % m) + d ELSE (x % m) + d - m
<1> DEFINE q == x \div m
           r == x % m
<1>1. x = m * q + r /\ r \in 0 .. m - 1 /\ q \in Int
  BY Quotient
<1> HIDE DEF q, r
<1>2. CASE r + d < m
  <2>1. x + d = m * q + (r + d) /\ r + d \in 0 .. m - 1
    BY <1>1, <1>2
  <2>2. (m * q + (r + d)) % m = r + d
    BY <1>1, <2>1, Remainder
  <2> QED
    BY <1>2, <2>1, <2>2 DEF r
<1>3. CASE ~(r + d < m)
  <2>1. x + d = m * (q + 1) + (r + d - m) /\ r + d - m \in 0 .. m - 1 /\ q + 1 \in Int
    BY <1>1, <1>3
  <2>2. (m * (q + 1) + (r + d - m)) % m = r + d - m
    BY <2>1, Remainder
  <2> QED
    BY <1>1, <1>3, <2>1, <2>2 DEF r
<1> QED
  BY <1>2, <1>3

(* Where the byte d after the one at an index lies in the ring, and that   *)
(* the index may have wrapped before.                                      *)
Place(a, d) == IF a + d < RingSize THEN a + d ELSE a + d - RingSize

LEMMA MaskPlace ==
    ASSUME NEW i \in Index, NEW d \in 0 .. RingSize
    PROVE  Mask(i + d) = Place(Mask(i), d)
<1>1. RingSize \in Nat \ {0} /\ i \in Int
  BY SizeAssumption DEF Index
<1> QED
  BY <1>1, PartTurn DEF Mask, Place

LEMMA MaskOnward ==
    ASSUME NEW i \in Index, NEW n \in 0 .. RingSize, NEW d \in Nat
    PROVE  Mask(Onward(i, n) + d) = Mask(i + n + d)
<1>1. RingSize \in Nat \ {0} /\ i \in Int /\ IdxMod \in Int /\ IdxMod % RingSize = 0 /\ n \in Int
  BY SizeAssumption DEF Index
<1>2. CASE i + n < IdxMod
  BY <1>2 DEF Onward
<1>3. CASE ~(i + n < IdxMod)
  <2> DEFINE x == i + n + d
  <2>1. x \in Int
    BY <1>1
  <2>2. Onward(i, n) + d = x - IdxMod
    BY <1>1, <1>3 DEF Onward
  <2> HIDE DEF x
  <2>3. (x - IdxMod) % RingSize = x % RingSize
    BY <1>1, <2>1, WholeTurn
  <2> QED
    BY <2>2, <2>3 DEF Mask, x
<1> QED
  BY <1>2, <1>3

-----------------------------------------------------------------------------
(* The bytes of a ring that its reader has not consumed, in order.         *)
Unread(r) == [i \in 1 .. Used(r) |-> r.data[Mask(r.cons + i - 1)]]

LEMMA UnreadLen ==
    ASSUME NEW r \in Ring
    PROVE  Len(Unread(r)) = Used(r) /\ Used(r) \in Nat
<1>1. Used(r) \in Nat
  BY UsedIs DEF Ring, Index
<1>2. DOMAIN Unread(r) = 1 .. Used(r) /\ Unread(r) = [i \in 1 .. Used(r) |-> Unread(r)[i]]
  BY DEF Unread
<1> HIDE DEF Unread
<1> QED
  BY <1>1, <1>2

(* Reading n bytes drops the first n, wherever the ring and the indices    *)
(* end.                                                                    *)
LEMMA UnreadConsumed ==
    ASSUME NEW r \in Ring, Used(r) <= RingSize, NEW n \in Nat, n <= Used(r)
    PROVE  /\ Len(Unread(Consume(r, n))) = Used(r) - n
           /\ \A i \in 1 .. Used(r) - n : Unread(Consume(r, n))[i] = Unread(r)[n + i]
<1> DEFINE c == Consume(r, n)
<1>1. r.cons \in Index /\ r.prod \in Index
      /\ r = [data |-> r.data, prod |-> r.prod, cons |-> r.cons]
  BY DEF Ring, Index
<1>2. n \in 0 .. RingSize /\ Used(r) \in Nat
  BY <1>1, UsedIs, SizeAssumption
<1>3. c = [r EXCEPT !.cons = (r.cons + n) % IdxMod]
  BY DEF Consume
<1>4. c.data = r.data /\ c.cons = Onward(r.cons, n)
  BY <1>1, <1>2, <1>3, IndexMoves
<1>5. c \in Ring /\ Used(c) = Used(r) - n
  BY Consumed
<1> HIDE DEF c
<1>6. Len(Unread(c)) = Used(r) - n
  BY <1>5, UnreadLen
<1>7. ASSUME NEW i \in 1 .. Used(r) - n PROVE Unread(c)[i] = Unread(r)[n + i]
  <2> DEFINE d == i - 1
  <2>1. d \in Nat /\ i \in 1 .. Used(c) /\ n + i \in 1 .. Used(r) /\ c.cons \in Int /\ r.cons \in Int
    BY <1>1, <1>2, <1>4, <1>5, IndexMoves, SizeAssumption DEF Index
  <2>2. Unread(c)[i] = r.data[Mask(c.cons + i - 1)]
    BY <1>4, <2>1 DEF Unread
  <2>3. Unread(r)[n + i] = r.data[Mask(r.cons + (n + i) - 1)]
    BY <2>1 DEF Unread
  <2>4. c.cons + i - 1 = c.cons + d /\ r.cons + (n + i) - 1 = r.cons + n + d
    BY <1>2, <2>1
  <2> HIDE DEF d
  <2>5. Mask(c.cons + d) = Mask(r.cons + n + d)
    BY <1>1, <1>2, <1>4, <2>1, MaskOnward
  <2> QED
    BY <2>2, <2>3, <2>4, <2>5
<1> QED
  BY <1>6, <1>7 DEF c

(* The writer's index is as many bytes after the reader's as lie unread.   *)
LEMMA WriterPlace ==
    ASSUME NEW r \in Ring, Used(r) <= RingSize, NEW d \in Nat
    PROVE  Mask(r.prod + d) = Mask(r.cons + Used(r) + d)
<1>1. r.cons \in Index /\ r.prod \in Index
  BY DEF Ring, Index
<1>2. Used(r) = Distance(r.prod, r.cons) /\ Used(r) \in 0 .. RingSize
  BY <1>1, UsedIs, SizeAssumption
<1>3. r.prod = Onward(r.cons, Used(r))
  <2>1. r.cons \in Int /\ r.prod \in Int /\ IdxMod \in Nat
        /\ 0 <= r.cons /\ r.cons < IdxMod /\ 0 <= r.prod /\ r.prod < IdxMod
    BY <1>1, SizeAssumption DEF Index
  <2> QED
    BY <1>2, <2>1 DEF Distance, Onward
<1> QED
  BY <1>1, <1>2, <1>3, MaskOnward

(* Writing a chunk that does not wrap appends it, and leaves what lies     *)
(* unread as it is.                                                        *)
LEMMA UnreadProduced ==
    ASSUME NEW r \in Ring, Used(r) <= RingSize, NEW bytes \in Seq(Byte),
           Len(bytes) <= Free(r), Len(bytes) <= RingSize - Mask(r.prod)
    PROVE  /\ Len(Unread(Produce(r, bytes))) = Used(r) + Len(bytes)
           /\ \A i \in 1 .. Used(r) : Unread(Produce(r, bytes))[i] = Unread(r)[i]
           /\ \A i \in 1 .. Len(bytes) : Unread(Produce(r, bytes))[Used(r) + i] = bytes[i]
<1> DEFINE p == Produce(r, bytes)
           n == Len(bytes)
           u == Used(r)
           a == Mask(r.cons)
           b == Mask(r.prod)
<1>1. r.cons \in Index /\ r.prod \in Index /\ r.cons \in Int /\ r.prod \in Int
      /\ r = [data |-> r.data, prod |-> r.prod, cons |-> r.cons]
  BY SizeAssumption DEF Ring, Index
<1>2. n \in Nat /\ u \in Nat /\ u + n <= RingSize /\ RingSize \in Nat \ {0} /\ n <= RingSize - b
  BY <1>1, UsedIs, SizeAssumption DEF Free
<1>3. a \in 0 .. RingSize - 1 /\ b \in 0 .. RingSize - 1
  BY <1>1, MaskRange
<1>4. DOMAIN bytes = 1 .. n
  OBVIOUS
<1>5. p.cons = r.cons
      /\ p.data = [i \in 0 .. RingSize - 1 |->
                      LET k == i - b + 1 IN IF k \in DOMAIN bytes THEN bytes[k] ELSE r.data[i]]
  BY <1>1 DEF Produce
<1>6. p \in Ring /\ Used(p) = u + n
  BY Produced
<1> HIDE DEF p, n, a, b
<1>7. Len(Unread(p)) = u + n
  BY <1>6, UnreadLen
<1>8. b = Place(a, u)
  <2>1. 0 \in Nat /\ u \in 0 .. RingSize
    BY <1>2
  <2>2. Mask(r.prod + 0) = Mask(r.cons + u + 0)
    BY <2>1, WriterPlace
  <2>3. r.prod + 0 = r.prod /\ r.cons + u + 0 = r.cons + u
    BY <1>1, <1>2
  <2>4. Mask(r.cons + u) = Place(Mask(r.cons), u)
    BY <1>1, <2>1, MaskPlace
  <2> QED
    BY <2>2, <2>3, <2>4 DEF a, b
<1> HIDE DEF u
<1>9. ASSUME NEW i \in 1 .. u PROVE Unread(p)[i] = Unread(r)[i]
  <2> DEFINE d == i - 1
             x == Mask(r.cons + d)
             k == x - b + 1
  <2>1. d \in 0 .. RingSize /\ d < u /\ i \in 1 .. u + n /\ r.cons + i - 1 = r.cons + d
    BY <1>1, <1>2
  <2>2. x = Place(a, d)
    BY <1>1, <2>1, MaskPlace DEF a
  <2>3. Unread(p)[i] = p.data[x]
    BY <1>5, <1>6, <2>1 DEF Unread
  <2>4. Unread(r)[i] = r.data[x]
    BY <2>1 DEF Unread, u
  <2> HIDE DEF x, d
  <2>5. x \in 0 .. RingSize - 1
    BY <1>2, <1>3, <2>1, <2>2 DEF Place
  <2>6. ~(k \in 1 .. n)
    BY <1>2, <1>3, <1>8, <2>1, <2>2 DEF Place
  <2>7. p.data[x] = r.data[x]
    BY <1>4, <1>5, <2>5, <2>6
  <2> QED
    BY <2>3, <2>4, <2>7
<1>10. ASSUME NEW i \in 1 .. n PROVE Unread(p)[u + i] = bytes[i]
  <2> DEFINE d == i - 1
             x == Mask(r.prod + d)
  <2>1. d \in 0 .. RingSize /\ d \in Nat /\ u + i \in 1 .. u + n
        /\ r.cons + (u + i) - 1 = r.cons + u + d
    BY <1>1, <1>2
  <2>2. x = Mask(r.cons + u + d)
    BY <2>1, WriterPlace DEF u
  <2>3. Unread(p)[u + i] = p.data[x]
    BY <1>5, <1>6, <2>1, <2>2 DEF Unread
  <2>4. x = Place(b, d)
    BY <1>1, <2>1, MaskPlace DEF b
  <2>5. x = b + d /\ x \in 0 .. RingSize - 1
    BY <1>2, <1>3, <2>1, <2>4 DEF Place
  <2>6. x - b + 1 = i
    BY <1>3, <2>1, <2>5
  <2> HIDE DEF x
  <2> QED
    BY <1>4, <1>5, <2>3, <2>5, <2>6
<1> QED
  BY <1>7, <1>9, <1>10 DEF p, n, u

LEMMA FirstUnread ==
    ASSUME NEW r \in Ring, Used(r) > 0
    PROVE  Unread(r)[1] = r.data[Mask(r.cons)]
<1>1. Used(r) \in Nat
  BY UnreadLen
<1>2. 1 \in 1 .. Used(r) /\ r.cons \in Int
  BY <1>1, SizeAssumption DEF Ring
<1>3. r.cons + 1 - 1 = r.cons
  BY <1>2
<1> QED
  BY <1>2, <1>3 DEF Unread

(* A side that reads or writes a chunk stays lined up with the other one.  *)
LEMMA RingReads ==
    ASSUME NEW r \in Ring, Used(r) <= RingSize, NEW s, NEW w, NEW q, NEW n \in Nat, n > 0,
           Lined(Unread(r), s, w), s.part # "idle" => s.bytes > 0, n <= Used(r),
           q = Meeting(s, r.data[Mask(r.cons)]), n <= q.bytes
    PROVE  /\ Lined(Unread(Consume(r, n)), Moved(q, n), w)
           /\ Lined(Unread(Consume(r, n)), Advance(q, n), w)
<1> DEFINE pipe == Unread(r)
           rest == Unread(Consume(r, n))
<1>1. Len(pipe) = Used(r) /\ Used(r) \in Nat
  BY UnreadLen
<1>2. Len(rest) = Used(r) - n /\ \A i \in 1 .. Used(r) - n : rest[i] = pipe[n + i]
  BY UnreadConsumed
<1>3. pipe[1] = r.data[Mask(r.cons)]
  BY <1>1, FirstUnread
<1> HIDE DEF pipe, rest
<1>4. n <= Len(pipe) /\ Len(rest) = Len(pipe) - n
      /\ \A i \in 1 .. Len(rest) : rest[i] = pipe[n + i]
  BY <1>1, <1>2
<1>5. q = Meeting(s, pipe[1]) /\ Lined(pipe, s, w) /\ Len(pipe) \in Nat
  BY <1>1, <1>3 DEF pipe
<1>6. Lined(rest, Moved(q, n), w) /\ Lined(rest, Advance(q, n), w)
  BY <1>4, <1>5, ReadOn
<1> QED
  BY <1>6 DEF rest

(* A chunk that fits appends the next bytes of the writer's part.          *)
LEMMA RingAppends ==
    ASSUME NEW r \in Ring, Used(r) <= RingSize, NEW w \in Sending, NEW n \in Nat,
           n <= WriteLen(r, w.bytes)
    PROVE  LET pipe == Unread(r)
               more == Unread(Produce(r, Upcoming(w, n)))
           IN  /\ Len(pipe) \in Nat /\ Len(more) = Len(pipe) + n
               /\ \A i \in 1 .. Len(pipe) : more[i] = pipe[i]
               /\ \A i \in 1 .. n : more[Len(pipe) + i] = Ahead(w, i)
               /\ w.part # "idle" /\ n <= w.bytes
<1> DEFINE pipe == Unread(r)
           bytes == Upcoming(w, n)
           more == Unread(Produce(r, bytes))
<1>1. /\ w.part \in {"hdr", "body"} /\ w.bytes \in Nat /\ w.msg \in Message
      /\ w.bytes <= PartLen(w.part, w.msg) /\ PartLen(w.part, w.msg) \in Nat
  BY Lengths DEF Sending, Part
<1>2. n <= w.bytes /\ n <= Free(r) /\ n <= RingSize - Mask(r.prod)
  <2>1. r.prod \in Int /\ Used(r) \in Nat /\ RingSize \in Nat
    BY UnreadLen, SizeAssumption DEF Ring
  <2>2. Free(r) \in Int /\ Mask(r.prod) \in Int
    BY <2>1, MaskRange DEF Free
  <2>3. WriteLen(r, w.bytes) \in Nat /\ WriteLen(r, w.bytes) <= w.bytes
        /\ WriteLen(r, w.bytes) <= Free(r) /\ WriteLen(r, w.bytes) <= RingSize - Mask(r.prod)
    BY <1>1, ChunkLengths
  <2> QED
    BY <1>1, <2>1, <2>2, <2>3
<1>3. bytes \in Seq(Byte) /\ Len(bytes) = n
  BY UpcomingBytes
<1>4. ASSUME NEW i \in 1 .. n PROVE bytes[i] = Ahead(w, i)
  <2>1. bytes[i] = ByteOf(w.part, NextByte(w) + i - 1, w.msg)
    BY DEF Upcoming
  <2>2. NextByte(w) + i - 1 = PartLen(w.part, w.msg) - w.bytes + i
    BY <1>1 DEF NextByte
  <2> QED
    BY <2>1, <2>2 DEF Ahead
<1>5. Len(pipe) = Used(r) /\ Used(r) \in Nat
  BY UnreadLen
<1> HIDE DEF bytes
<1>6. /\ Len(more) = Used(r) + Len(bytes)
      /\ \A i \in 1 .. Used(r) : more[i] = pipe[i]
      /\ \A i \in 1 .. Len(bytes) : more[Used(r) + i] = bytes[i]
  BY <1>2, <1>3, UnreadProduced
<1> HIDE DEF pipe, more
<1>7. /\ Len(pipe) \in Nat /\ Len(more) = Len(pipe) + n
      /\ \A i \in 1 .. Len(pipe) : more[i] = pipe[i]
      /\ \A i \in 1 .. n : more[Len(pipe) + i] = Ahead(w, i)
      /\ w.part # "idle" /\ n <= w.bytes
  BY <1>1, <1>2, <1>3, <1>4, <1>5, <1>6
<1> QED
  BY <1>7 DEF pipe, more, bytes

LEMMA RingWrites ==
    ASSUME NEW r \in Ring, Used(r) <= RingSize, NEW s, NEW w \in Sending, NEW n \in Nat,
           Lined(Unread(r), s, w), n <= WriteLen(r, w.bytes)
    PROVE  /\ Lined(Unread(Produce(r, Upcoming(w, n))), s, Moved(w, n))
           /\ Lined(Unread(Produce(r, Upcoming(w, n))), s, Advance(w, n))
<1> DEFINE pipe == Unread(r)
           more == Unread(Produce(r, Upcoming(w, n)))
<1>1. /\ Len(pipe) \in Nat /\ Len(more) = Len(pipe) + n
      /\ \A i \in 1 .. Len(pipe) : more[i] = pipe[i]
      /\ \A i \in 1 .. n : more[Len(pipe) + i] = Ahead(w, i)
      /\ w.part # "idle" /\ n <= w.bytes /\ Lined(pipe, s, w)
  BY RingAppends
<1> HIDE DEF pipe, more
<1>2. Lined(more, s, Moved(w, n)) /\ Lined(more, s, Advance(w, n))
  BY <1>1, WriteOn
<1> QED
  BY <1>2 DEF more

(* Both rings are lined up between their reader and their writer.          *)
Aligned ==
    /\ Lined(Unread(req), rx, guest.out)
    /\ Lined(Unread(rsp), guest.in, tx)
    /\ Amid(guest.in)

LEMMA AlignedInit == Init => Aligned
<1> SUFFICES ASSUME Init PROVE Aligned
  OBVIOUS
<1>1. req \in Ring /\ rsp = req
  BY ShapesInit DEF Init, Shapes, RingsOK
<1>2. Used(req) = 0
  <2>1. req.prod = 0 /\ req.cons = 0 /\ 0 \in Index
    BY SizeAssumption DEF Init, Index
  <2> QED
    BY <2>1, UsedIs DEF Distance
<1>3. Len(Unread(req)) = 0 /\ Len(Unread(rsp)) = 0
  BY <1>1, <1>2, UnreadLen
<1>4. rx = Position("hdr", NoMessage) /\ tx = Idle /\ guest.in = Idle /\ guest.out = Idle
  BY DEF Init
<1>5. NoMessage.len \in Nat
  BY DEF NoMessage
<1>6. Within(rx) /\ Settled(rx) = rx /\ Agree(Idle, rx)
  BY <1>4, <1>5, StartsAgree, IdleStarts
<1>7. Agree(Settled(rx), Settled(guest.out))
  BY <1>4, <1>6, IdleStarts, Agreement
<1>8. Agree(Settled(guest.in), Settled(tx))
  BY <1>4, Agreement
<1>9. Lined(Unread(req), rx, guest.out)
  BY <1>3, <1>4, <1>6, <1>7, IdleStarts, EmptyLined
<1>10. Lined(Unread(rsp), guest.in, tx)
  BY <1>3, <1>4, <1>8, IdleStarts, EmptyLined
<1>11. Amid(guest.in)
  BY <1>4 DEF Amid, Idle
<1> QED
  BY <1>9, <1>10, <1>11 DEF Aligned

(* What one read_chunk of read does: nothing, or it takes bytes of the     *)
(* part that the reader is at.                                             *)
LEMMA RxChunkReads ==
    ASSUME Shapes, Aligned, RxChunk
    PROVE  LET n == ReadLen(req, rx.bytes)
               q == Meeting(rx, req.data[Mask(req.cons)])
           IN  /\ n \in Nat /\ n <= Used(req) /\ req' = Consume(req, n)
               /\ n = 0 => /\ rx' = rx /\ Len(Unread(req')) = Len(Unread(req))
                           /\ Used(req') = Used(req) /\ Len(Unread(req)) \in Nat
                           /\ \A i \in 1 .. Len(Unread(req)) : Unread(req')[i] = Unread(req)[i]
               /\ n > 0 => /\ rx.bytes > 0 /\ Used(req) > 0
                           /\ rx' = Moved(q, n) /\ n <= q.bytes
<1> DEFINE n == ReadLen(req, rx.bytes)
           first == req.data[Mask(req.cons)]
           q == Meeting(rx, first)
           m == IF n > 0 /\ rx.part = "hdr" THEN first.msg ELSE rx.msg
<1>1. req \in Ring /\ Used(req) <= RingSize /\ rx \in Receiving
  BY DEF Shapes, RingsOK, DaemonOK
<1>2. rx = [part |-> rx.part, bytes |-> rx.bytes, msg |-> rx.msg] /\ rx.part \in {"hdr", "body"}
      /\ rx.bytes \in Nat
  BY <1>1 DEF Receiving
<1>3. n \in Nat /\ n <= rx.bytes /\ n <= Used(req)
  BY <1>1, <1>2, ChunkLengths
<1>4. req' = Consume(req, n) /\ rx' = [rx EXCEPT !.bytes = rx.bytes - n, !.msg = m]
  BY DEF RxChunk
<1>5. Lined(Unread(req), rx, guest.out)
  BY DEF Aligned
<1>l. Len(Unread(req)) = Used(req) /\ Used(req) \in Nat
  BY <1>1, UnreadLen
<1> HIDE DEF n
<1>6. ASSUME n = 0
      PROVE  /\ rx' = rx /\ Len(Unread(req')) = Len(Unread(req))
             /\ Used(req') = Used(req)
             /\ \A i \in 1 .. Len(Unread(req)) : Unread(req')[i] = Unread(req)[i]
  <2>1. rx' = rx
    <3>1. m = rx.msg /\ rx.bytes - n = rx.bytes
      BY <1>2, <1>6
    <3> HIDE DEF m
    <3> QED
      BY <1>2, <1>4, <3>1
  <2> DEFINE pipe == Unread(req)
             rest == Unread(req')
  <2>2. Len(rest) = Used(req) - n /\ \A i \in 1 .. Used(req) - n : rest[i] = pipe[n + i]
    BY <1>1, <1>3, <1>4, UnreadConsumed
  <2>3. Used(req') = Used(req) - n
    BY <1>1, <1>3, <1>4, Consumed
  <2>4. Len(pipe) = Used(req)
    BY <1>l
  <2> HIDE DEF pipe, rest
  <2>5. Used(req) - n = Used(req) /\ \A i \in 1 .. Used(req) : n + i = i
    BY <1>6, <1>l
  <2>6. Len(rest) = Len(pipe) /\ \A i \in 1 .. Len(pipe) : rest[i] = pipe[i]
    BY <2>2, <2>4, <2>5
  <2> QED
    BY <2>1, <2>3, <2>5, <2>6 DEF pipe, rest
<1>7. ASSUME n > 0
      PROVE  rx.bytes > 0 /\ Used(req) > 0 /\ rx' = Moved(q, n) /\ n <= q.bytes
  <2>1. rx.bytes > 0 /\ Used(req) > 0
    BY <1>2, <1>3, <1>7, <1>l
  <2>2. Unread(req)[1] = first /\ Settled(rx) = rx
    BY <1>1, <2>1, FirstUnread DEF Settled
  <2> HIDE DEF first
  <2>3. Continues(first, rx)
    <3> DEFINE pipe == Unread(req)
    <3>1. Lined(pipe, rx, guest.out) /\ Len(pipe) > 0 /\ pipe[1] = first
      BY <1>5, <1>l, <2>1, <2>2
    <3> HIDE DEF pipe
    <3>2. Continues(pipe[1], Settled(rx))
      BY <3>1 DEF Lined
    <3> QED
      BY <2>2, <3>1, <3>2
  <2>4. q = [part |-> rx.part, bytes |-> rx.bytes, msg |-> m]
    <3>1. CASE AtStart(rx)
      <4>1. rx.part = "hdr" /\ rx.bytes = HdrLen
        BY <1>2, <3>1 DEF AtStart
      <4> QED
        BY <1>7, <3>1, <4>1 DEF Meeting, Position, PartLen
    <3>2. CASE ~AtStart(rx)
      <4>1. first = ByteOf(rx.part, NextByte(rx), rx.msg)
        BY <2>3, <3>2, Continuing
      <4>2. first.msg = rx.msg
        BY <4>1 DEF ByteOf
      <4>3. m = rx.msg
        BY <4>2
      <4> QED
        BY <1>2, <3>2, <4>3 DEF Meeting
    <3> QED
      BY <3>1, <3>2
  <2> HIDE DEF m, q
  <2>5. rx' = [part |-> rx.part, bytes |-> rx.bytes - n, msg |-> m]
    BY <1>2, <1>4
  <2>6. q.bytes = rx.bytes /\ Moved(q, n) = rx'
    BY <2>4, <2>5 DEF Moved
  <2> QED
    BY <1>3, <2>1, <2>6
<1> QED
  BY <1>3, <1>4, <1>6, <1>7, <1>l DEF n, q, first

LEMMA ReceivingAligned ==
    ASSUME Shapes, Aligned, RxChunk
    PROVE  Lined(Unread(req'), rx', guest.out)
<1> DEFINE n == ReadLen(req, rx.bytes)
           q == Meeting(rx, req.data[Mask(req.cons)])
           pipe == Unread(req)
           rest == Unread(req')
<1>1. /\ n \in Nat /\ n <= Used(req) /\ req' = Consume(req, n)
      /\ n = 0 => /\ rx' = rx /\ Len(rest) = Len(pipe) /\ Len(pipe) \in Nat
                  /\ \A i \in 1 .. Len(pipe) : rest[i] = pipe[i]
      /\ n > 0 => rx.bytes > 0 /\ rx' = Moved(q, n) /\ n <= q.bytes
  BY RxChunkReads
<1>2. req \in Ring /\ Used(req) <= RingSize /\ Lined(pipe, rx, guest.out)
  BY DEF Shapes, RingsOK, Aligned
<1> HIDE DEF n
<1>3. CASE n = 0
  <2> HIDE DEF pipe, rest
  <2>1. \A i \in 2 .. Len(pipe) : i \in 1 .. Len(pipe) /\ i - 1 \in 1 .. Len(pipe)
    BY <1>1, <1>3
  <2>2. Len(pipe) > 0 => 1 \in 1 .. Len(pipe) /\ Len(pipe) \in 1 .. Len(pipe)
    BY <1>1, <1>3
  <2>3. Lined(rest, rx, guest.out)
    BY <1>1, <1>2, <1>3, <2>1, <2>2 DEF Lined
  <2> QED
    BY <1>1, <1>3, <2>3 DEF rest
<1>4. CASE n > 0
  <2>1. rx.bytes > 0 /\ rx' = Moved(q, n) /\ n <= q.bytes
    BY <1>1, <1>4
  <2> HIDE DEF q
  <2>2. q = Meeting(rx, req.data[Mask(req.cons)])
    BY DEF q
  <2>3. Lined(Unread(Consume(req, n)), Moved(q, n), guest.out)
    BY <1>1, <1>2, <1>4, <2>1, <2>2, RingReads
  <2> QED
    BY <1>1, <2>1, <2>3
<1> QED
  BY <1>1, <1>3, <1>4

LEMMA AlignedStep == Shapes /\ Aligned /\ [Next]_vars => Aligned'
<1> SUFFICES ASSUME Shapes, Aligned, [Next]_vars PROVE Aligned'
  OBVIOUS
<1>p. /\ req \in Ring /\ rsp \in Ring /\ Used(req) <= RingSize /\ Used(rsp) <= RingSize
      /\ rx \in Receiving /\ tx \in Sending \cup {Idle} /\ tx_queue \in Seq(Message)
      /\ guest \in [out : At, in : At, waiting : Int, produced : BOOLEAN, consumed : BOOLEAN]
      /\ guest.out \in Sending \cup {Idle}
  BY DEF Shapes, RingsOK, DaemonOK, GuestOK
<1>a. /\ Lined(Unread(req), rx, guest.out)
      /\ Lined(Unread(rsp), guest.in, tx)
      /\ Amid(guest.in)
  BY DEF Aligned
<1>w. Within(rx) /\ Within(guest.out) /\ Within(guest.in) /\ Within(tx)
  BY <1>a DEF Lined
<1>g. guest = [out |-> guest.out, in |-> guest.in, waiting |-> guest.waiting,
               produced |-> guest.produced, consumed |-> guest.consumed]
  BY <1>p
<1>m. \A m \in Message \cup {NoMessage} : m.len \in Nat
  BY Lengths
<1>i. Idle.part = "idle"
  BY DEF Idle
<1>1. CASE UNCHANGED <<req, rsp, rx, tx, guest>>
  BY <1>a, <1>1 DEF Aligned, Unread, Used
<1>2. CASE RxChunk
  <2>1. UNCHANGED <<rsp, tx, guest>>
    BY <1>2 DEF RxChunk
  <2>2. Lined(Unread(req'), rx', guest.out)
    BY <1>2, ReceivingAligned
  <2> QED
    BY <1>a, <2>1, <2>2 DEF Aligned, Unread, Used
<1>3. CASE RxDone
  <2>1. UNCHANGED <<req, rsp, tx, guest>>
    BY <1>3 DEF RxDone
  <2>2. \/ rx' = rx
        \/ rx.bytes = 0 /\ rx.part = "hdr" /\ rx' = Position("body", rx.msg)
        \/ rx.bytes = 0 /\ rx.part = "body" /\ rx' = Position("hdr", NoMessage)
    BY <1>3 DEF RxDone
  <2>3. Lined(Unread(req), rx', guest.out)
    <3>1. NoMessage.len \in Nat
      BY <1>m
    <3>2. CASE rx' = rx
      BY <1>a, <3>2
    <3>3. CASE rx.bytes = 0 /\ rx.part = "hdr" /\ rx' = Position("body", rx.msg)
      BY <1>a, <1>w, <3>1, <3>3, NextPart, ReaderAgrees
    <3>4. CASE rx.bytes = 0 /\ rx.part = "body" /\ rx' = Position("hdr", NoMessage)
      BY <1>a, <1>w, <3>1, <3>4, NextPart, ReaderAgrees
    <3> QED
      BY <2>2, <3>2, <3>3, <3>4
  <2> QED
    BY <1>a, <2>1, <2>3 DEF Aligned, Unread, Used
<1>4. CASE TxNext
  <2>1. UNCHANGED <<req, rsp, rx, guest>>
    BY <1>4 DEF TxNext
  <2>2. CASE tx_queue = <<>>
    BY <1>a, <1>4, <2>1, <2>2 DEF TxNext, Aligned, Unread, Used
  <2>3. CASE tx_queue # <<>>
    <3>1. Head(tx_queue) \in Message
      BY <1>p, <2>3
    <3>2. tx' = Position("hdr", Head(tx_queue)) /\ tx.part = "idle"
      BY <1>4, <2>3 DEF TxNext
    <3>3. tx = Idle
      BY <1>p, <3>2 DEF Sending
    <3>4. Within(tx') /\ Settled(tx') = tx' /\ Agree(Idle, tx')
      BY <1>m, <3>1, <3>2, StartsAgree, IdleStarts
    <3>5. Lined(Unread(rsp), guest.in, tx')
      BY <1>a, <3>3, <3>4, IdleStarts, WriterAgrees
    <3> QED
      BY <1>a, <2>1, <3>5 DEF Aligned, Unread, Used
  <2> QED
    BY <2>2, <2>3
<1>5. CASE TxChunk
  <2> DEFINE n == WriteLen(rsp, tx.bytes)
  <2>1. rsp' = Produce(rsp, Upcoming(tx, n)) /\ tx' = Moved(tx, n)
        /\ tx.part # "idle" /\ UNCHANGED <<req, rx, guest>>
    BY <1>5 DEF TxChunk, Moved
  <2>2. tx \in Sending /\ tx.bytes \in Nat
    BY <1>p, <1>i, <2>1 DEF Sending
  <2>3. n \in Nat
    BY <1>p, <2>2, ChunkLengths
  <2>4. Lined(Unread(rsp'), guest.in, tx')
    <3>1. n <= WriteLen(rsp, tx.bytes)
      BY <2>3
    <3> HIDE DEF n
    <3> QED
      BY <1>a, <1>p, <2>1, <2>2, <2>3, <3>1, RingWrites
  <2> QED
    BY <1>a, <2>1, <2>4 DEF Aligned, Unread, Used
<1>6. CASE TxDone
  <2>1. UNCHANGED <<req, rsp, rx, guest>>
    BY <1>6 DEF TxDone
  <2>2. \/ tx' = tx
        \/ tx.bytes = 0 /\ tx.part = "hdr" /\ tx' = Position("body", tx.msg)
        \/ tx.bytes = 0 /\ tx.part # "hdr" /\ tx' = Idle
    BY <1>6 DEF TxDone
  <2>3. Lined(Unread(rsp), guest.in, tx')
    <3>1. NoMessage.len \in Nat
      BY <1>m
    <3>2. CASE tx' = tx
      BY <1>a, <3>2
    <3>3. CASE tx.bytes = 0 /\ tx.part = "hdr" /\ tx' = Position("body", tx.msg)
      BY <1>a, <1>w, <3>1, <3>3, NextPart, WriterAgrees
    <3>4. CASE tx.bytes = 0 /\ tx.part # "hdr" /\ tx' = Idle
      BY <1>a, <1>w, <3>1, <3>4, NextPart, IdleStarts, WriterAgrees
    <3> QED
      BY <2>2, <3>2, <3>3, <3>4
  <2> QED
    BY <1>a, <2>1, <2>3 DEF Aligned, Unread, Used
<1>7. CASE GuestSend
  <2>1. PICK len \in BodyLens :
            guest' = [guest EXCEPT
                         !.out = Position("hdr", [kind |-> "request", len |-> len]),
                         !.waiting = @ + 1]
    BY <1>7 DEF GuestSend
  <2> DEFINE m == [kind |-> "request", len |-> len]
             s == Position("hdr", m)
  <2>2. m.len \in Nat
    BY SizeAssumption
  <2>3. guest' = [guest EXCEPT !.out = s, !.waiting = @ + 1]
    BY <2>1
  <2>4. Within(s) /\ Settled(s) = s /\ Agree(Idle, s)
    BY <2>2, StartsAgree, IdleStarts
  <2> HIDE DEF s, m
  <2>5. guest'.out = s /\ guest'.in = guest.in /\ UNCHANGED <<req, rsp, rx, tx>>
    BY <1>7, <1>g, <2>3 DEF GuestSend
  <2>6. guest.out = Idle
    BY <1>7, <1>p DEF GuestSend, Sending
  <2>7. Lined(Unread(req), rx, s)
    BY <1>a, <2>4, <2>6, IdleStarts, WriterAgrees
  <2> QED
    BY <1>a, <2>5, <2>7 DEF Aligned, Unread, Used
<1>8. CASE GuestWrite
  <2>1. PICK n \in 1 .. WriteLen(req, guest.out.bytes) :
            /\ req' = Produce(req, Upcoming(guest.out, n))
            /\ guest' = [guest EXCEPT !.out = Advance(@, n), !.produced = TRUE]
    BY <1>8 DEF GuestWrite
  <2>2. guest.out \in Sending /\ guest.out.bytes \in Nat
    BY <1>8, <1>p, <1>i DEF GuestWrite, Sending
  <2>3. n \in Nat /\ n <= WriteLen(req, guest.out.bytes)
    <3>1. WriteLen(req, guest.out.bytes) \in Nat
      BY <1>p, <2>2, ChunkLengths
    <3> QED
      BY <2>1, <3>1
  <2>4. guest'.out = Advance(guest.out, n) /\ guest'.in = guest.in
        /\ UNCHANGED <<rsp, rx, tx>>
    BY <1>8, <1>g, <2>1 DEF GuestWrite
  <2>5. Lined(Unread(req'), rx, guest'.out)
    BY <1>a, <1>p, <2>1, <2>2, <2>3, <2>4, RingWrites
  <2> QED
    BY <1>a, <2>4, <2>5 DEF Aligned, Unread, Used
<1>9. CASE GuestRead
  <2> DEFINE first == rsp.data[Mask(rsp.cons)]
             m == rsp.data[Mask(rsp.cons)].msg
             at == IF guest.in.part = "idle" THEN Position("hdr", m) ELSE guest.in
  <2>1. PICK n \in 1 .. ReadLen(rsp, at.bytes) :
            /\ rsp' = Consume(rsp, n)
            /\ guest' = [guest EXCEPT
                    !.in = Advance(at, n), !.consumed = TRUE,
                    !.waiting = IF Advance(at, n) = Idle /\ m.kind = "reply"
                                THEN @ - 1 ELSE @]
    BY <1>9 DEF GuestRead
  <2>2. m \in Message /\ m.len \in Nat
    BY <1>m, <1>p, FirstByte
  <2>3. at = Meeting(guest.in, first)
    <3>1. AtStart(guest.in) <=> guest.in.part = "idle"
      BY <1>a DEF Amid, AtStart
    <3> QED
      BY <3>1 DEF Meeting
  <2>4. Within(at) /\ at.part # "idle"
    BY <1>w, <2>2, StartsAgree
  <2>5. guest'.in = Advance(at, n) /\ guest'.out = guest.out
    BY <1>g, <2>1
  <2> HIDE DEF at, m
  <2>6. at.bytes \in Nat
    <3>1. at # Idle
      BY <1>i, <2>4
    <3>2. at.part \in {"hdr", "body"} /\ at.msg.len \in Nat
          /\ at.bytes \in 0 .. PartLen(at.part, at.msg)
      BY <2>4, <3>1 DEF Within
    <3>3. PartLen(at.part, at.msg) \in Nat
      BY <3>2, PartLengths
    <3> QED
      BY <3>2, <3>3
  <2>7. n \in Nat /\ n > 0 /\ n <= at.bytes /\ n <= Used(rsp)
    <3>1. ReadLen(rsp, at.bytes) \in Nat /\ ReadLen(rsp, at.bytes) <= Used(rsp)
          /\ ReadLen(rsp, at.bytes) <= at.bytes
      BY <1>p, <2>6, ChunkLengths
    <3>2. Used(rsp) \in Nat
      BY <1>p, UnreadLen
    <3> QED
      BY <2>1, <2>6, <3>1, <3>2
  <2>8. guest.in.part # "idle" => guest.in.bytes > 0
    BY <1>a DEF Amid
  <2>9. Lined(Unread(Consume(rsp, n)), Advance(at, n), tx)
    BY <1>a, <1>p, <2>3, <2>7, <2>8, RingReads
  <2>10. Amid(Advance(at, n))
    BY <2>4, <2>7, AdvanceAmid
  <2>11. UNCHANGED <<req, rx, tx>>
    BY <1>9 DEF GuestRead
  <2> QED
    BY <1>a, <2>1, <2>5, <2>9, <2>10, <2>11 DEF Aligned, Unread, Used
<1>10. CASE NotifyProduced \/ NotifyConsumed
  <2>1. /\ guest' = [guest EXCEPT !.produced = FALSE] \/ guest' = [guest EXCEPT !.consumed = FALSE]
        /\ UNCHANGED <<req, rsp, rx, tx>>
    BY <1>10 DEF NotifyProduced, NotifyConsumed
  <2>2. guest'.out = guest.out /\ guest'.in = guest.in
    BY <1>g, <2>1
  <2> QED
    BY <1>a, <2>1, <2>2 DEF Aligned, Unread, Used
<1>11. CASE UNCHANGED vars \/ Poll \/ Callback \/ WatchEvent \/ Ack \/ Unmask
  BY <1>1, <1>11 DEF vars, Poll, Callback, WatchEvent, Ack, Unmask
<1> QED
  BY <1>2, <1>3, <1>4, <1>5, <1>6, <1>7, <1>8, <1>9, <1>10, <1>11
     DEF Next, Daemon, Working, Guest

(* What is lined up is read in order.                                      *)
LEMMA LinedReads ==
    ASSUME NEW r \in Ring, NEW s, NEW t, NEW w, Lined(Unread(r), s, w),
           t.bytes > 0 => Agree(Settled(s), t)
    PROVE  Reading(r, t)
<1> DEFINE pipe == Unread(r)
<1>1. Len(pipe) = Used(r) /\ Used(r) \in Nat /\ r.cons \in Int
  BY UnreadLen, SizeAssumption DEF Ring
<1>2. ASSUME Used(r) > 0, t.bytes > 0 PROVE Continues(r.data[Mask(r.cons)], t)
  <2>1. pipe[1] = r.data[Mask(r.cons)]
    BY <1>2, FirstUnread
  <2> HIDE DEF pipe
  <2>2. Continues(pipe[1], Settled(s))
    BY <1>1, <1>2 DEF Lined, pipe
  <2> QED
    BY <1>2, <2>1, <2>2, AgreeingContinue
<1>3. ASSUME NEW i \in 1 .. Used(r) - 1
      PROVE  Continues(r.data[Mask(r.cons + i)], After(r.data[Mask(r.cons + i - 1)]))
  <2>1. i \in 1 .. Used(r) /\ i + 1 \in 1 .. Used(r) /\ i + 1 \in 2 .. Used(r)
        /\ (i + 1) - 1 = i /\ r.cons + (i + 1) - 1 = r.cons + i
    BY <1>1
  <2>2. pipe[i] = r.data[Mask(r.cons + i - 1)]
    BY <2>1 DEF Unread
  <2>3. pipe[i + 1] = r.data[Mask(r.cons + (i + 1) - 1)]
    BY <2>1 DEF Unread
  <2> HIDE DEF pipe
  <2>4. Continues(pipe[i + 1], After(pipe[(i + 1) - 1]))
    BY <1>1, <2>1 DEF Lined, pipe
  <2> QED
    BY <2>1, <2>2, <2>3, <2>4
<1> QED
  BY <1>2, <1>3 DEF Reading

(* BytesInOrder: however reads and writes break off, at the end of the     *)
(* ring, at a full or an empty one and where an index wraps, either side   *)
(* reads byte by byte what the other one wrote (read_chunk, write_chunk).  *)
THEOREM BytesKeepOrder == Spec => []BytesInOrder
<1>1. Init => Shapes /\ Aligned
  BY ShapesInit, AlignedInit
<1>2. Shapes /\ Aligned /\ [Next]_vars => Shapes' /\ Aligned'
  BY ShapesStep, AlignedStep
<1>3. Shapes /\ Aligned => BytesInOrder
  <2> SUFFICES ASSUME Shapes, Aligned PROVE BytesInOrder
    OBVIOUS
  <2> DEFINE start == Position("hdr", NoMessage)
             at == IF guest.in.part = "idle" THEN start ELSE guest.in
  <2>1. req \in Ring /\ rsp \in Ring /\ guest.in \in At
    BY DEF Shapes, RingsOK, GuestOK
  <2>2. /\ Lined(Unread(req), rx, guest.out) /\ Lined(Unread(rsp), guest.in, tx)
        /\ Amid(guest.in)
    BY DEF Aligned
  <2>3. rx.bytes > 0 => Agree(Settled(rx), rx)
    BY DEF Settled, Agree
  <2>4. Agree(Settled(guest.in), at)
    <3>1. CASE guest.in.part = "idle"
      <4>1. AtStart(start) /\ AtStart(guest.in)
        BY <3>1 DEF Position, PartLen, AtStart
      <4>2. guest.in = Idle
        BY <2>2, <3>1 DEF Lined, Within
      <4> QED
        BY <3>1, <4>1, <4>2, IdleStarts DEF Agree
    <3>2. CASE guest.in.part # "idle"
      <4>1. Settled(guest.in) = guest.in /\ at = guest.in
        BY <2>2, <3>2 DEF Amid, Settled
      <4> QED
        BY <4>1 DEF Agree
    <3> QED
      BY <3>1, <3>2
  <2>5. Reading(req, rx)
    BY <2>1, <2>2, <2>3, LinedReads
  <2> HIDE DEF at
  <2>6. Reading(rsp, at)
    BY <2>1, <2>2, <2>4, LinedReads
  <2> QED
    BY <2>5, <2>6 DEF BytesInOrder, at
<1> QED
  BY <1>1, <1>2, <1>3, PTL DEF Spec

-----------------------------------------------------------------------------
(* A client with one request at a time and no watches: it asks until its   *)
(* request is handled, and is answered until it has read the whole reply.  *)
Asked == guest.out = Idle
Answered == tx_queue = <<>> /\ Settled(tx) = Idle
Asking == ~Asked \/ Used(req) > 0 \/ ~AtStart(rx)
Answering == ~Answered \/ Used(rsp) > 0 \/ guest.in # Idle

Turns ==
    /\ guest.waiting \in {0, 1}
    /\ Asking \/ Answering => guest.waiting = 1
    /\ ~(Asking /\ Answering)

(* One message at a time is on its way in each direction.                  *)
Single ==
    /\ Lone(Unread(req), rx, Asked)
    /\ Lone(Unread(rsp), guest.in, Answered)
    /\ tx_queue # <<>> => /\ Len(tx_queue) = 1 /\ Settled(tx) = Idle
                          /\ Used(rsp) = 0 /\ guest.in = Idle

LEMMA LoneRingReads ==
    ASSUME NEW r \in Ring, Used(r) <= RingSize, NEW s, NEW w, NEW q, NEW n \in Nat, n > 0,
           NEW done, Lined(Unread(r), s, w), Lone(Unread(r), s, done),
           s.part # "idle" => s.bytes > 0, n <= Used(r),
           q = Meeting(s, r.data[Mask(r.cons)]), n <= q.bytes
    PROVE  /\ Lone(Unread(Consume(r, n)), Moved(q, n), done)
           /\ Lone(Unread(Consume(r, n)), Advance(q, n), done)
           /\ Advance(q, n) = Idle => Used(Consume(r, n)) = 0 /\ done
<1> DEFINE pipe == Unread(r)
           rest == Unread(Consume(r, n))
<1>1. Len(pipe) = Used(r) /\ Used(r) \in Nat
  BY UnreadLen
<1>2. Len(rest) = Used(r) - n /\ \A i \in 1 .. Used(r) - n : rest[i] = pipe[n + i]
  BY UnreadConsumed
<1>3. pipe[1] = r.data[Mask(r.cons)]
  BY <1>1, FirstUnread
<1>4. Len(rest) = Used(Consume(r, n))
  BY Consumed, UnreadLen
<1> HIDE DEF pipe, rest
<1>5. n <= Len(pipe) /\ Len(rest) = Len(pipe) - n
      /\ \A i \in 1 .. Len(rest) : rest[i] = pipe[n + i]
  BY <1>1, <1>2
<1>6. /\ q = Meeting(s, pipe[1]) /\ Lined(pipe, s, w) /\ Len(pipe) \in Nat
      /\ Lone(pipe, s, done)
  BY <1>1, <1>3 DEF pipe
<1>7. /\ Lone(rest, Moved(q, n), done) /\ Lone(rest, Advance(q, n), done)
      /\ Advance(q, n) = Idle => Len(rest) = 0 /\ done
  BY <1>5, <1>6, LoneReads
<1> QED
  BY <1>4, <1>7 DEF rest

LEMMA LoneRingWrites ==
    ASSUME NEW r \in Ring, Used(r) <= RingSize, NEW s, NEW w \in Sending, NEW n \in Nat,
           NEW done, Within(w), Lone(Unread(r), s, FALSE), Advance(w, n) = Idle => done,
           n <= WriteLen(r, w.bytes)
    PROVE  Lone(Unread(Produce(r, Upcoming(w, n))), s, done)
<1> DEFINE pipe == Unread(r)
           more == Unread(Produce(r, Upcoming(w, n)))
<1>1. /\ Len(pipe) \in Nat /\ Len(more) = Len(pipe) + n
      /\ \A i \in 1 .. Len(pipe) : more[i] = pipe[i]
      /\ \A i \in 1 .. n : more[Len(pipe) + i] = Ahead(w, i)
      /\ w.part # "idle" /\ n <= w.bytes
  BY RingAppends
<1>2. Lone(pipe, s, FALSE)
  OBVIOUS
<1> HIDE DEF pipe, more
<1>3. Lone(more, s, done)
  BY <1>1, <1>2, LoneWrites
<1> QED
  BY <1>3 DEF more

LEMMA SyncInit == Init => Turns /\ Single
<1> SUFFICES ASSUME Init PROVE Turns /\ Single
  OBVIOUS
<1>1. req \in Ring /\ rsp = req
  BY ShapesInit DEF Init, Shapes, RingsOK
<1>2. Used(req) = 0
  <2>1. req.prod = 0 /\ req.cons = 0 /\ 0 \in Index
    BY SizeAssumption DEF Init, Index
  <2> QED
    BY <2>1, UsedIs DEF Distance
<1>3. Len(Unread(req)) = 0 /\ Len(Unread(rsp)) = 0
  BY <1>1, <1>2, UnreadLen
<1>4. /\ rx = Position("hdr", NoMessage) /\ tx = Idle /\ tx_queue = <<>>
      /\ guest.in = Idle /\ guest.out = Idle /\ guest.waiting = 0
  BY DEF Init
<1>5. AtStart(rx)
  BY <1>4 DEF Position, PartLen, AtStart
<1>6. Asked /\ Answered /\ ~Asking /\ ~Answering
  BY <1>1, <1>2, <1>4, <1>5, IdleStarts DEF Asked, Answered, Asking, Answering
<1>7. Turns
  BY <1>4, <1>6 DEF Turns
<1>8. Single
  BY <1>3, <1>4, <1>5, IdleStarts, LoneEmpty DEF Single
<1> QED
  BY <1>7, <1>8

(* Neither the rings nor the positions move.                               *)
LEMMA SyncSame ==
    ASSUME Turns, Single, UNCHANGED <<req, rsp, rx, tx_queue>>,
           guest'.out = guest.out, guest'.in = guest.in, guest'.waiting = guest.waiting,
           Settled(tx') = Settled(tx)
    PROVE  Turns' /\ Single'
<1>1. Unread(req') = Unread(req) /\ Unread(rsp') = Unread(rsp)
      /\ Used(req') = Used(req) /\ Used(rsp') = Used(rsp)
  OBVIOUS
<1>2. Asked' = Asked /\ Answered' = Answered
  BY DEF Asked, Answered
<1>3. (Asking' <=> Asking) /\ (Answering' <=> Answering)
  BY <1>1, <1>2 DEF Asking, Answering
<1>4. Turns'
  BY <1>3 DEF Turns
<1>5. Single'
  BY <1>1, <1>2 DEF Single
<1> QED
  BY <1>4, <1>5

LEMMA SyncStep ==
    ASSUME MaxOutstanding = 1, MaxQueue = 0, Shapes, Aligned, Turns, Single, [Next]_vars
    PROVE  Turns' /\ Single'
<1>p. /\ req \in Ring /\ rsp \in Ring /\ Used(req) <= RingSize /\ Used(rsp) <= RingSize
      /\ rx \in Receiving /\ tx \in Sending \cup {Idle} /\ tx_queue \in Seq(Message)
      /\ guest \in [out : At, in : At, waiting : Int, produced : BOOLEAN, consumed : BOOLEAN]
      /\ guest.out \in Sending \cup {Idle}
  BY DEF Shapes, RingsOK, DaemonOK, GuestOK
<1>a. /\ Lined(Unread(req), rx, guest.out)
      /\ Lined(Unread(rsp), guest.in, tx)
      /\ Amid(guest.in)
  BY DEF Aligned
<1>w. Within(rx) /\ Within(guest.out) /\ Within(guest.in) /\ Within(tx)
  BY <1>a DEF Lined
<1>g. guest = [out |-> guest.out, in |-> guest.in, waiting |-> guest.waiting,
               produced |-> guest.produced, consumed |-> guest.consumed]
  BY <1>p
<1>l. /\ Len(Unread(req)) = Used(req) /\ Used(req) \in Nat
      /\ Len(Unread(rsp)) = Used(rsp) /\ Used(rsp) \in Nat
  BY <1>p, UnreadLen
<1>m. \A m \in Message \cup {NoMessage} : m.len \in Nat
  BY Lengths
<1>i. Idle.part = "idle"
  BY DEF Idle
<1>t. /\ guest.waiting \in {0, 1}
      /\ Asking \/ Answering => guest.waiting = 1
      /\ ~(Asking /\ Answering)
  BY DEF Turns
<1>s. /\ Lone(Unread(req), rx, Asked)
      /\ Lone(Unread(rsp), guest.in, Answered)
      /\ tx_queue # <<>> => /\ Len(tx_queue) = 1 /\ Settled(tx) = Idle
                            /\ Used(rsp) = 0 /\ guest.in = Idle
  BY DEF Single
<1>1. CASE UNCHANGED <<req, rsp, rx, tx, tx_queue, guest>>
  BY <1>1, SyncSame
<1>2. CASE RxChunk
  <2> DEFINE n == ReadLen(req, rx.bytes)
             q == Meeting(rx, req.data[Mask(req.cons)])
             pipe == Unread(req)
             rest == Unread(req')
  <2>1. UNCHANGED <<rsp, tx, tx_queue, guest>>
    BY <1>2 DEF RxChunk
  <2>2. /\ n \in Nat /\ n <= Used(req) /\ req' = Consume(req, n)
        /\ n = 0 => /\ rx' = rx /\ Len(rest) = Len(pipe) /\ Used(req') = Used(req)
                    /\ \A i \in 1 .. Len(pipe) : rest[i] = pipe[i]
        /\ n > 0 => rx.bytes > 0 /\ Used(req) > 0 /\ rx' = Moved(q, n) /\ n <= q.bytes
    BY <1>2, RxChunkReads
  <2>3. Asked' = Asked /\ Answered' = Answered /\ (Answering' <=> Answering)
    BY <2>1 DEF Asked, Answered, Answering, Used
  <2> HIDE DEF n
  <2>4. Lone(rest, rx', Asked)
    <3>1. CASE n = 0
      <4>1. Lone(pipe, rx, Asked) /\ Len(rest) = Len(pipe)
            /\ \A i \in 1 .. Len(pipe) : rest[i] = pipe[i]
        BY <1>s, <2>2, <3>1
      <4> HIDE DEF pipe, rest
      <4>2. Lone(rest, rx, Asked)
        BY <4>1, LoneSame
      <4> QED
        BY <2>2, <3>1, <4>2
    <3>2. CASE n > 0
      <4>1. rx.bytes > 0 /\ rx' = Moved(q, n) /\ n <= q.bytes
        BY <2>2, <3>2
      <4> HIDE DEF q
      <4>2. q = Meeting(rx, req.data[Mask(req.cons)])
        BY DEF q
      <4>3. Lone(Unread(Consume(req, n)), Moved(q, n), Asked)
        BY <1>p, <1>a, <1>s, <2>2, <3>2, <4>1, <4>2, LoneRingReads
      <4> QED
        BY <2>2, <4>1, <4>3
    <3> QED
      BY <2>2, <3>1, <3>2
  <2>5. Asking' => Asking
    <3>1. n = 0 => (Asking' <=> Asking)
      BY <2>2, <2>3 DEF Asking
    <3>2. n > 0 => Asking
      BY <2>2 DEF Asking
    <3> QED
      BY <2>2, <3>1, <3>2
  <2>6. Turns'
    BY <1>t, <2>1, <2>3, <2>5 DEF Turns
  <2>7. Single'
    BY <1>s, <2>1, <2>3, <2>4 DEF Single, Unread, Used
  <2> QED
    BY <2>6, <2>7
<1>3. CASE RxDone
  <2>1. UNCHANGED <<req, rsp, tx, guest>>
    BY <1>3 DEF RxDone
  <2>u. Unread(req') = Unread(req) /\ Unread(rsp') = Unread(rsp)
        /\ Used(req') = Used(req) /\ Used(rsp') = Used(rsp) /\ Asked' = Asked
    BY <2>1 DEF Asked
  <2>z. rx.bytes = 0 => ~AtStart(rx) /\ Asking
    <3>1. rx.part # "idle" /\ HdrLen # 0
      BY <1>p, HdrAssumption DEF Receiving
    <3> QED
      BY <3>1 DEF AtStart, Asking
  <2>2. CASE UNCHANGED <<rx, tx_queue>>
    BY <2>1, <2>2, SyncSame
  <2>3. CASE /\ rx.bytes = 0 /\ rx.part = "hdr" /\ rx' = Position("body", rx.msg)
             /\ UNCHANGED tx_queue
    <3>1. Settled(rx') = Settled(rx)
      BY <1>w, <2>3, PartEnds
    <3>2. Lone(Unread(req'), rx', Asked)
      BY <1>s, <2>3, <2>u, <2>z, <3>1 DEF Lone
    <3>3. Answered' = Answered
      BY <2>1, <2>3 DEF Answered
    <3>4. Answering' <=> Answering
      BY <2>1, <2>u, <3>3 DEF Answering
    <3>5. Turns'
      BY <1>t, <2>1, <2>3, <2>z, <3>4 DEF Turns
    <3>6. Single'
      BY <1>s, <2>1, <2>3, <2>u, <3>2, <3>3 DEF Single
    <3> QED
      BY <3>5, <3>6
  <2>4. CASE /\ rx.bytes = 0 /\ rx.part = "body" /\ rx' = Position("hdr", NoMessage)
             /\ \E reply \in Replies : tx_queue' = Append(tx_queue, reply)
    <3>1. Settled(rx) = Idle
      BY <1>w, <2>4, PartEnds
    <3>2. Len(Unread(req)) = 0 /\ Asked
      BY <1>s, <2>4, <2>z, <3>1 DEF Lone
    <3>3. guest.waiting = 1 /\ ~Answering
      BY <1>t, <2>4, <2>z
    <3>4. tx_queue = <<>> /\ Settled(tx) = Idle /\ ~(Used(rsp) > 0) /\ guest.in = Idle
      BY <3>3 DEF Answering, Answered
    <3>5. AtStart(rx')
      BY <2>4 DEF Position, PartLen, AtStart
    <3>6. Len(tx_queue') = 1
      <4>1. PICK reply \in Replies : tx_queue' = Append(tx_queue, reply)
        BY <2>4
      <4> QED
        BY <3>4, <4>1
    <3>7. ~Asking'
      BY <1>l, <2>u, <3>2, <3>5 DEF Asking
    <3>8. Turns'
      BY <2>1, <3>3, <3>7 DEF Turns
    <3>9. Lone(Unread(req'), rx', Asked')
      BY <2>u, <3>2, <3>5, LoneEmpty
    <3>10. Lone(Unread(rsp'), guest'.in, Answered')
      <4>1. Len(Unread(rsp')) = 0 /\ AtStart(guest'.in)
        BY <1>l, <2>1, <2>u, <3>4, IdleStarts
      <4> QED
        BY <4>1, LoneEmpty
    <3>11. Single'
      BY <1>l, <2>1, <2>u, <3>4, <3>6, <3>9, <3>10 DEF Single
    <3> QED
      BY <3>8, <3>11
  <2> QED
    BY <1>3, <2>2, <2>3, <2>4 DEF RxDone
<1>4. CASE TxNext
  <2>1. UNCHANGED <<req, rsp, rx, guest>>
    BY <1>4 DEF TxNext
  <2>2. CASE tx_queue = <<>>
    BY <1>4, <2>1, <2>2, SyncSame DEF TxNext
  <2>3. CASE tx_queue # <<>>
    <3>1. Head(tx_queue) \in Message
      BY <1>p, <2>3
    <3>2. tx' = Position("hdr", Head(tx_queue)) /\ tx_queue' = Tail(tx_queue)
      BY <1>4, <2>3 DEF TxNext
    <3>3. Settled(tx') = tx' /\ tx' # Idle
      BY <1>m, <3>1, <3>2, StartsAgree, NotIdle
    <3>4. tx_queue' = <<>>
      BY <1>p, <1>s, <2>3, <3>2
    <3>5. ~Answered /\ ~Answered' /\ Answering /\ Answering'
      BY <2>3, <3>3 DEF Answered, Answering
    <3>u. Unread(req') = Unread(req) /\ Unread(rsp') = Unread(rsp)
          /\ Used(req') = Used(req) /\ Used(rsp') = Used(rsp) /\ Asked' = Asked
      BY <2>1 DEF Asked
    <3>6. Asking' <=> Asking
      BY <2>1, <3>u DEF Asking
    <3>7. Turns'
      BY <1>t, <2>1, <3>5, <3>6 DEF Turns
    <3>8. Lone(Unread(rsp), guest.in, FALSE)
      BY <1>s, <3>5 DEF Lone
    <3>9. Lone(Unread(rsp'), guest'.in, Answered')
      BY <2>1, <3>u, <3>8 DEF Lone
    <3>10. Single'
      BY <1>s, <2>1, <3>4, <3>9, <3>u DEF Single
    <3> QED
      BY <3>7, <3>10
  <2> QED
    BY <2>2, <2>3
<1>5. CASE TxChunk
  <2> DEFINE n == WriteLen(rsp, tx.bytes)
  <2>1. rsp' = Produce(rsp, Upcoming(tx, n)) /\ tx' = Moved(tx, n)
        /\ tx.part # "idle" /\ UNCHANGED <<req, rx, tx_queue, guest>>
    BY <1>5 DEF TxChunk, Moved
  <2>2. tx \in Sending /\ tx.bytes \in Nat
        /\ tx = [part |-> tx.part, bytes |-> tx.bytes, msg |-> tx.msg]
    BY <1>p, <1>i, <2>1 DEF Sending
  <2>3. n \in Nat /\ n <= tx.bytes
    BY <1>p, <2>2, ChunkLengths
  <2>4. n <= WriteLen(rsp, tx.bytes)
    BY <2>3
  <2>u. Unread(req') = Unread(req) /\ Used(req') = Used(req) /\ Asked' = Asked
        /\ (Asking' <=> Asking)
    BY <2>1 DEF Asked, Asking, Used
  <2> HIDE DEF n
  <2>5. CASE tx.bytes > 0
    <3>1. Settled(tx) = tx /\ tx # Idle
      BY <2>1, <2>5, NotIdle DEF Settled
    <3>2. tx_queue = <<>> /\ ~Answered /\ Answering
      BY <1>s, <3>1 DEF Answered, Answering
    <3>3. Settled(tx') = Advance(tx, n)
      BY <1>w, <2>1, <2>3, Further
    <3>4. Advance(tx, n) = Idle => Answered'
      BY <2>1, <3>2, <3>3 DEF Answered
    <3>5. Lone(Unread(rsp), guest.in, FALSE)
      BY <1>s, <3>2 DEF Lone
    <3>6. Lone(Unread(rsp'), guest.in, Answered')
      BY <1>p, <1>w, <2>1, <2>2, <2>3, <2>4, <3>4, <3>5, LoneRingWrites
    <3>7. Turns'
      BY <1>t, <2>1, <2>u, <3>2 DEF Turns
    <3>8. Single'
      BY <1>s, <2>1, <2>u, <3>2, <3>6 DEF Single
    <3> QED
      BY <3>7, <3>8
  <2>6. CASE tx.bytes = 0
    <3>1. n = 0
      BY <2>3, <2>6
    <3>2. tx' = tx
      BY <2>1, <2>2, <2>6, <3>1 DEF Moved
    <3> DEFINE pipe == Unread(rsp)
               more == Unread(rsp')
    <3>3. Len(more) = Len(pipe) + n /\ \A i \in 1 .. Len(pipe) : more[i] = pipe[i]
      BY <1>p, <2>1, <2>2, <2>3, <2>4, RingAppends
    <3>4. Lone(pipe, guest.in, Answered) /\ Len(pipe) \in Nat
      BY <1>l, <1>s
    <3>5. Len(more) = Used(rsp')
      <4>1. Upcoming(tx, n) \in Seq(Byte) /\ Len(Upcoming(tx, n)) = n
        BY <2>2, <2>3, UpcomingBytes
      <4>2. n <= Free(rsp)
        BY <1>l, <1>p, <3>1, SizeAssumption DEF Free
      <4>3. rsp' \in Ring
        BY <1>p, <2>1, <4>1, <4>2, Produced
      <4> QED
        BY <4>3, UnreadLen
    <3> HIDE DEF pipe, more
    <3>6. Len(more) = Len(pipe)
      BY <3>1, <3>3, <3>4
    <3>7. Lone(more, guest.in, Answered)
      BY <3>3, <3>4, <3>6, LoneSame
    <3>8. Used(rsp') = Used(rsp)
      BY <1>l, <3>5, <3>6 DEF pipe
    <3>9. Answered' = Answered /\ (Answering' <=> Answering)
      BY <2>1, <3>2, <3>8 DEF Answered, Answering
    <3>10. Turns'
      BY <1>t, <2>1, <2>u, <3>9 DEF Turns
    <3>11. Single'
      BY <1>s, <2>1, <2>u, <3>2, <3>7, <3>8, <3>9 DEF Single, more
    <3> QED
      BY <3>10, <3>11
  <2> QED
    BY <2>2, <2>5, <2>6
<1>6. CASE TxDone
  <2>1. UNCHANGED <<req, rsp, rx, tx_queue, guest>>
    BY <1>6 DEF TxDone
  <2>2. \/ tx' = tx
        \/ tx.bytes = 0 /\ tx.part = "hdr" /\ tx' = Position("body", tx.msg)
        \/ tx.bytes = 0 /\ tx.part # "hdr" /\ tx' = Idle
    BY <1>6 DEF TxDone
  <2>3. Settled(tx') = Settled(tx)
    BY <1>w, <2>2, PartEnds, IdleStarts
  <2> QED
    BY <2>1, <2>3, SyncSame
<1>7. CASE GuestSend
  <2>1. PICK len \in BodyLens :
            guest' = [guest EXCEPT
                         !.out = Position("hdr", [kind |-> "request", len |-> len]),
                         !.waiting = @ + 1]
    BY <1>7 DEF GuestSend
  <2>2. guest'.in = guest.in /\ guest'.waiting = guest.waiting + 1
        /\ UNCHANGED <<req, rsp, rx, tx, tx_queue>>
    BY <1>7, <1>g, <2>1 DEF GuestSend
  <2>3. guest.waiting = 0
    BY <1>7, <1>t DEF GuestSend
  <2>4. ~Asking /\ ~Answering
    BY <1>t, <2>3
  <2>u. Unread(req') = Unread(req) /\ Unread(rsp') = Unread(rsp)
        /\ Used(req') = Used(req) /\ Used(rsp') = Used(rsp) /\ Answered' = Answered
    BY <2>2 DEF Answered
  <2>5. ~Answering'
    BY <2>2, <2>4, <2>u DEF Answering
  <2>6. Turns'
    BY <2>2, <2>3, <2>5 DEF Turns
  <2>7. Lone(Unread(req'), rx', Asked')
    <3>1. Len(Unread(req')) = 0 /\ AtStart(rx')
      BY <1>l, <2>2, <2>4, <2>u DEF Asking
    <3> QED
      BY <3>1, LoneEmpty
  <2>8. Single'
    BY <1>s, <2>2, <2>7, <2>u DEF Single
  <2> QED
    BY <2>6, <2>8
<1>8. CASE GuestWrite
  <2>1. PICK n \in 1 .. WriteLen(req, guest.out.bytes) :
            /\ req' = Produce(req, Upcoming(guest.out, n))
            /\ guest' = [guest EXCEPT !.out = Advance(@, n), !.produced = TRUE]
    BY <1>8 DEF GuestWrite
  <2>2. guest.out \in Sending /\ guest.out.bytes \in Nat /\ guest.out # Idle
    BY <1>8, <1>p, <1>i DEF GuestWrite, Sending
  <2>3. n \in Nat /\ n <= WriteLen(req, guest.out.bytes)
    <3>1. WriteLen(req, guest.out.bytes) \in Nat
      BY <1>p, <2>2, ChunkLengths
    <3> QED
      BY <2>1, <3>1
  <2>4. guest'.out = Advance(guest.out, n) /\ guest'.in = guest.in
        /\ guest'.waiting = guest.waiting /\ UNCHANGED <<rsp, rx, tx, tx_queue>>
    BY <1>8, <1>g, <2>1 DEF GuestWrite
  <2>5. ~Asked /\ Asking
    BY <2>2 DEF Asked, Asking
  <2>6. Lone(Unread(req), rx, FALSE)
    BY <1>s, <2>5 DEF Lone
  <2>7. Advance(guest.out, n) = Idle => Asked'
    BY <2>4 DEF Asked
  <2>8. Lone(Unread(req'), rx, Asked')
    BY <1>p, <1>w, <2>1, <2>2, <2>3, <2>6, <2>7, LoneRingWrites
  <2>9. Unread(rsp') = Unread(rsp) /\ Used(rsp') = Used(rsp) /\ Answered' = Answered
        /\ (Answering' <=> Answering)
    BY <2>4 DEF Answered, Answering, Used
  <2>10. Turns'
    BY <1>t, <2>4, <2>5, <2>9 DEF Turns
  <2>11. Single'
    BY <1>s, <2>4, <2>8, <2>9 DEF Single
  <2> QED
    BY <2>10, <2>11
<1>9. CASE GuestRead
  <2> DEFINE first == rsp.data[Mask(rsp.cons)]
             m == rsp.data[Mask(rsp.cons)].msg
             at == IF guest.in.part = "idle" THEN Position("hdr", m) ELSE guest.in
  <2>1. PICK n \in 1 .. ReadLen(rsp, at.bytes) :
            /\ rsp' = Consume(rsp, n)
            /\ guest' = [guest EXCEPT
                    !.in = Advance(at, n), !.consumed = TRUE,
                    !.waiting = IF Advance(at, n) = Idle /\ m.kind = "reply"
                                THEN @ - 1 ELSE @]
    BY <1>9 DEF GuestRead
  <2>2. Used(rsp) > 0 /\ UNCHANGED <<req, rx, tx, tx_queue>>
    BY <1>9 DEF GuestRead
  <2>3. at = Meeting(guest.in, first)
    <3>1. AtStart(guest.in) <=> guest.in.part = "idle"
      BY <1>a DEF Amid, AtStart
    <3> QED
      BY <3>1 DEF Meeting
  <2>4. Within(at) /\ at.part # "idle"
    <3>1. m \in Message /\ m.len \in Nat
      BY <1>m, <1>p, FirstByte
    <3> QED
      BY <1>w, <3>1, StartsAgree
  <2>5. /\ guest'.in = Advance(at, n) /\ guest'.out = guest.out
        /\ guest'.waiting = guest.waiting
           \/ (Advance(at, n) = Idle /\ guest'.waiting = guest.waiting - 1)
    <3> DEFINE k == IF Advance(at, n) = Idle /\ m.kind = "reply"
                    THEN guest.waiting - 1 ELSE guest.waiting
    <3>1. k = guest.waiting \/ (Advance(at, n) = Idle /\ k = guest.waiting - 1)
      OBVIOUS
    <3>2. guest' = [guest EXCEPT !.in = Advance(at, n), !.consumed = TRUE, !.waiting = k]
      BY <2>1
    <3> HIDE DEF k, at
    <3> QED
      BY <1>g, <3>1, <3>2
  <2> HIDE DEF at, m
  <2>6. at.bytes \in Nat
    <3>1. at # Idle
      BY <1>i, <2>4
    <3>2. at.part \in {"hdr", "body"} /\ at.msg.len \in Nat
          /\ at.bytes \in 0 .. PartLen(at.part, at.msg)
      BY <2>4, <3>1 DEF Within
    <3>3. PartLen(at.part, at.msg) \in Nat
      BY <3>2, PartLengths
    <3> QED
      BY <3>2, <3>3
  <2>7. n \in Nat /\ n > 0 /\ n <= at.bytes /\ n <= Used(rsp)
    <3>1. ReadLen(rsp, at.bytes) \in Nat /\ ReadLen(rsp, at.bytes) <= Used(rsp)
          /\ ReadLen(rsp, at.bytes) <= at.bytes
      BY <1>p, <2>6, ChunkLengths
    <3> QED
      BY <1>l, <2>1, <2>6, <3>1
  <2>8. guest.in.part # "idle" => guest.in.bytes > 0
    BY <1>a DEF Amid
  <2>9. /\ Lone(Unread(rsp'), Advance(at, n), Answered)
        /\ Advance(at, n) = Idle => Used(rsp') = 0 /\ Answered
    <3> DEFINE s == guest.in
               w == tx
               done == Answered
    <3>1. /\ rsp \in Ring /\ Used(rsp) <= RingSize /\ n \in Nat /\ n > 0 /\ n <= Used(rsp)
          /\ Lined(Unread(rsp), s, w) /\ Lone(Unread(rsp), s, done)
          /\ s.part # "idle" => s.bytes > 0
          /\ at = Meeting(s, rsp.data[Mask(rsp.cons)]) /\ n <= at.bytes
      BY <1>a, <1>p, <1>s, <2>3, <2>7, <2>8
    <3> HIDE DEF s, w, done, first
    <3>2. /\ Lone(Unread(Consume(rsp, n)), Advance(at, n), done)
          /\ Advance(at, n) = Idle => Used(Consume(rsp, n)) = 0 /\ done
      BY <3>1, LoneRingReads
    <3> QED
      BY <2>1, <3>2 DEF done
  <2>10. Answering /\ guest.waiting = 1 /\ ~Asking /\ tx_queue = <<>>
    BY <1>s, <1>t, <2>2 DEF Answering
  <2>11. Answered' = Answered /\ Asked' = Asked
    BY <2>2, <2>5 DEF Answered, Asked
  <2>12. Unread(req') = Unread(req) /\ Used(req') = Used(req)
    BY <2>2
  <2>13. ~Asking'
    BY <2>2, <2>10, <2>11, <2>12 DEF Asking
  <2>14. Advance(at, n) = Idle => ~Answering'
    BY <2>5, <2>9, <2>11 DEF Answering
  <2>15. Turns'
    BY <2>5, <2>10, <2>13, <2>14 DEF Turns
  <2>16. Single'
    BY <1>s, <2>2, <2>5, <2>9, <2>10, <2>11, <2>12 DEF Single
  <2> QED
    BY <2>15, <2>16
<1>10. CASE NotifyProduced \/ NotifyConsumed
  <2>1. /\ guest' = [guest EXCEPT !.produced = FALSE] \/ guest' = [guest EXCEPT !.consumed = FALSE]
        /\ UNCHANGED <<req, rsp, rx, tx, tx_queue>>
    BY <1>10 DEF NotifyProduced, NotifyConsumed
  <2>2. guest'.out = guest.out /\ guest'.in = guest.in /\ guest'.waiting = guest.waiting
    BY <1>g, <2>1
  <2> QED
    BY <2>1, <2>2, SyncSame
<1>11. ~WatchEvent
  BY <1>p DEF WatchEvent
<1>12. CASE UNCHANGED vars \/ Poll \/ Callback \/ Ack \/ Unmask
  BY <1>1, <1>12 DEF vars, Poll, Callback, Ack, Unmask
<1> QED
  BY <1>2, <1>3, <1>4, <1>5, <1>6, <1>7, <1>8, <1>9, <1>10, <1>11, <1>12
     DEF Next, Daemon, Working, Guest

-----------------------------------------------------------------------------
(* What follows in a callback once the ring was found empty.               *)
Emptied ==
    \/ pc = "rx_done" /\ rx.bytes > 0
    \/ pc \in InTx /\ back = "ack"
    \/ pc \in {"ack", "unmask"}

(* Without watch events process_tx is called by the callback only, and the *)
(* second chunk of read starts where the ring does.                        *)
Places ==
    /\ pc \in InTx => back \in {"rx", "ack"}
    /\ pc = "rx2" => Mask(req.cons) = 0

(* The channel is masked from the notification to the unmask.              *)
Masking == evtchn.queued \/ (alive /\ pc = "unmask") => evtchn.masked

(* What arrives after a callback for reading has emptied the ring becomes  *)
(* pending, or will.                                                       *)
AfterReading ==
    alive /\ ready.read /\ Emptied /\ Used(req) > 0 => evtchn.pending \/ guest.produced

(* In a callback for writing only, the guest notifies that it consumed the *)
(* reply and that it produced the next request: of two notifications one   *)
(* is left when the callback has fetched the other.                        *)
AfterWriting ==
    alive /\ ~ready.read /\ pc \in {"called", "ack", "unmask"} \cup InTx =>
        /\ Answering \/ guest.consumed \/ evtchn.masked
        /\ Used(req) > 0 => \/ evtchn.pending \/ guest.produced
                            \/ guest.consumed /\ evtchn.masked

Wakeful == Places /\ Masking /\ AfterReading /\ AfterWriting /\ NoLostWakeup

LEMMA WakefulInit == Init => Wakeful
<1> SUFFICES ASSUME Init PROVE Wakeful
  OBVIOUS
<1>1. pc = "idle" /\ alive = TRUE
  BY DEF Init
<1>2. req \in Ring /\ Used(req) = 0
  <2>1. req \in Ring
    BY ShapesInit DEF Shapes, RingsOK
  <2>2. req.prod = 0 /\ req.cons = 0 /\ 0 \in Index
    BY SizeAssumption DEF Init, Index
  <2> QED
    BY <2>1, <2>2, UsedIs DEF Distance
<1>3. evtchn.queued => evtchn.masked
  <2>1. PICK q \in BOOLEAN : evtchn = [queued |-> q, masked |-> q, pending |-> FALSE]
    BY DEF Init
  <2> QED
    BY <2>1
<1> QED
  BY <1>1, <1>2, <1>3 DEF Wakeful, Places, Masking, AfterReading, AfterWriting,
                          NoLostWakeup, Emptied, InTx

(* The two chunks of read empty the ring, or finish the part.              *)
LEMMA RxEmpties ==
    ASSUME Shapes, RxChunk, pc = "rx2" => Mask(req.cons) = 0
    PROVE  /\ pc' = "rx2" => Mask(req'.cons) = 0
           /\ pc' = "rx_done" /\ rx'.bytes > 0 => Used(req') = 0
<1> DEFINE a == RingSize - Mask(req.cons)
           u == Used(req)
           b == rx.bytes
           n == ReadLen(req, rx.bytes)
<1>1. req \in Ring /\ u <= RingSize /\ b \in Nat
  BY DEF Shapes, RingsOK, DaemonOK, Receiving
<1>2. u \in Nat /\ req.cons \in Index /\ req.cons \in Int
  BY <1>1, UnreadLen, SizeAssumption DEF Ring, Index
<1>3. a \in Nat /\ a > 0 /\ a <= RingSize /\ RingSize \in Nat
  BY <1>2, MaskRange, SizeAssumption
<1>4. n \in Nat /\ n <= u /\ n <= b /\ n \in {a, u, b}
  <2>1. n \in Nat /\ n <= u /\ n <= b
    BY <1>1, ChunkLengths
  <2>2. n = Min({a, u, b})
    BY DEF ReadLen
  <2> HIDE DEF a, u, b, n
  <2>3. \E x \in {a, u, b} : \A y \in {a, u, b} : x <= y
    BY <1>1, <1>2, <1>3
  <2> QED
    BY <2>1, <2>2, <2>3 DEF Min
<1>5. req' = Consume(req, n) /\ rx'.bytes = b - n
      /\ pc' = IF pc = "rx" /\ rx'.bytes > 0 /\ Mask(req'.cons) = 0 THEN "rx2" ELSE "rx_done"
  <2>1. rx = [part |-> rx.part, bytes |-> rx.bytes, msg |-> rx.msg]
    BY DEF Shapes, DaemonOK, Receiving
  <2> DEFINE m == IF n > 0 /\ rx.part = "hdr" THEN req.data[Mask(req.cons)].msg ELSE rx.msg
  <2>2. rx' = [rx EXCEPT !.bytes = b - n, !.msg = m]
    BY DEF RxChunk
  <2> HIDE DEF m
  <2>3. rx'.bytes = b - n
    BY <2>1, <2>2
  <2> QED
    BY <2>3 DEF RxChunk
<1>6. Used(req') = u - n
  BY <1>1, <1>4, <1>5, Consumed
<1> HIDE DEF n
<1>7. n = a => Mask(req'.cons) = 0
  <2>1. SUFFICES ASSUME n = a PROVE Mask(req'.cons) = 0
    OBVIOUS
  <2>2. n \in 0 .. RingSize /\ 0 \in Nat
    BY <1>3, <2>1
  <2>3. req'.cons = Onward(req.cons, n)
    <3>1. req' = [req EXCEPT !.cons = (req.cons + n) % IdxMod]
      BY <1>5 DEF Consume
    <3>2. req = [data |-> req.data, prod |-> req.prod, cons |-> req.cons]
      BY <1>1 DEF Ring
    <3> QED
      BY <1>2, <2>2, <3>1, <3>2, IndexMoves
  <2>4. Onward(req.cons, n) \in Int
    BY <1>2, <2>2, IndexMoves, SizeAssumption DEF Index
  <2>5. Mask(Onward(req.cons, n) + 0) = Mask(req.cons + n + 0)
    BY <1>2, <2>2, MaskOnward
  <2>6. Onward(req.cons, n) + 0 = Onward(req.cons, n) /\ req.cons + n + 0 = req.cons + n
    BY <1>2, <2>2, <2>4
  <2>7. Mask(req.cons + n) = Place(Mask(req.cons), n)
    BY <1>2, <2>2, MaskPlace
  <2>8. Place(Mask(req.cons), n) = 0
    <3> DEFINE m == Mask(req.cons)
    <3>1. m \in Int /\ n = RingSize - m
      BY <1>2, <2>1, MaskRange
    <3> HIDE DEF m
    <3>2. m + n - RingSize = 0 /\ ~(m + n < RingSize)
      BY <1>3, <3>1
    <3> QED
      BY <3>2 DEF Place, m
  <2> QED
    BY <2>3, <2>5, <2>6, <2>7, <2>8
<1>8. ASSUME pc' = "rx_done", rx'.bytes > 0 PROVE Used(req') = 0
  <2>1. n # b
    BY <1>1, <1>4, <1>5, <1>8
  <2>2. CASE n = u
    BY <1>2, <1>6, <2>2
  <2>3. CASE n = a
    <3>1. pc = "rx2"
      BY <1>5, <1>7, <1>8, <2>3 DEF RxChunk
    <3>2. a = RingSize
      BY <3>1, <1>3
    <3> QED
      BY <1>1, <1>2, <1>4, <1>6, <2>3, <3>2
  <2> QED
    BY <1>4, <2>1, <2>2, <2>3
<1> QED
  BY <1>5, <1>8

LEMMA AnsweringAt ==
    ASSUME tx.part # "idle", tx.bytes > 0 PROVE Answering
  BY NotIdle DEF Answering, Answered

LEMMA WakefulStep ==
    ASSUME MaxQueue = 0, Shapes, Control, Awake, Aligned, Turns, Wakeful, [Next]_vars
    PROVE  Wakeful'
<1> USE DEF InRx, InTx
<1>k. /\ pc \in {"idle", "called", "ack", "unmask"} \cup InRx \cup InTx
      /\ back \in {"idle", "called", "rx", "ack"}
      /\ alive \/ pc \in {"idle", "called"}
  BY DEF Control, Deaths
<1>a. Channels /\ Unfinished /\ ForReading /\ ForWriting
  BY DEF Awake
<1>r. /\ alive /\ (pc \in InRx \/ (pc \in InTx /\ back = "rx")) => ready.read
      /\ alive /\ ready.read /\ (pc \in {"called", "ack"} \cup InRx
                                 \/ (pc \in InTx /\ back \in {"called", "ack"} \cup InRx))
            => evtchn.queued
  BY <1>a DEF ForReading, Returning
<1>i. Places /\ Masking /\ AfterReading /\ AfterWriting /\ NoLostWakeup
  BY DEF Wakeful
<1>u. /\ req \in Ring /\ Used(req) \in Nat /\ Used(rsp) \in Nat /\ rx \in Receiving
      /\ tx \in Sending \cup {Idle} /\ tx_queue \in Seq(Message)
  BY UnreadLen DEF Shapes, RingsOK, DaemonOK
<1>c. evtchn = [queued |-> evtchn.queued, masked |-> evtchn.masked, pending |-> evtchn.pending]
  BY DEF Shapes, ControlOK
<1>g. guest = [out |-> guest.out, in |-> guest.in, waiting |-> guest.waiting,
               produced |-> guest.produced, consumed |-> guest.consumed]
  BY DEF Shapes, GuestOK
<1>t. Used(req) > 0 => ~Answering
  BY DEF Turns, Asking
<1>x. UNCHANGED req => Used(req') = Used(req) /\ Mask(req'.cons) = Mask(req.cons)
  OBVIOUS
<1>1. CASE UNCHANGED vars
  <2>1. Answering' = Answering
    BY <1>1 DEF vars, Answering, Answered, Used
  <2> QED
    BY <1>1, <1>i, <2>1 DEF vars, conn, Wakeful, Places, Masking, AfterReading, AfterWriting,
                            NoLostWakeup, WillRing, Emptied, Used, Mask
<1>2. CASE Poll
  <2>1. /\ pc = "idle" /\ alive /\ pc' = "called" /\ (~ready'.read => ev_write)
        /\ UNCHANGED <<req, rsp, evtchn, conn, tx, tx_queue, guest>>
    BY <1>2 DEF Poll
  <2>2. ev_write => Answering
    <3>1. ev_write => tx.part # "idle" /\ tx.bytes > 0
      BY <1>a, <2>1 DEF Control, WriteInterest, Unfinished
    <3> QED
      BY <3>1, AnsweringAt
  <2>3. Answering' <=> Answering
    BY <2>1 DEF Answering, Answered, Used
  <2>4. ~ready'.read => Answering' /\ ~(Used(req') > 0)
    BY <1>t, <1>x, <2>1, <2>2, <2>3
  <2>5. Masking'
    BY <1>i, <2>1 DEF Masking
  <2> QED
    BY <2>1, <2>4, <2>5 DEF Wakeful, Places, AfterReading, AfterWriting, NoLostWakeup, Emptied
<1>3. CASE Callback
  <2>1. /\ pc = "called" /\ UNCHANGED <<req, rsp, evtchn, ready, tx, tx_queue, guest>>
        /\ \/ ~alive' /\ pc' = "idle"
           \/ alive /\ ready.read /\ pc' = "rx"
           \/ alive /\ ~ready.read /\ pc' = "tx" /\ back' = "ack"
    BY <1>3 DEF Callback, Dies, conn
  <2>2. Answering' <=> Answering
    BY <2>1 DEF Answering, Answered, Used
  <2>3. Masking'
    BY <1>i, <2>1 DEF Masking
  <2>4. AfterWriting'
    BY <1>i, <1>x, <2>1, <2>2 DEF AfterWriting
  <2> QED
    BY <2>1, <2>3, <2>4 DEF Wakeful, Places, AfterReading, NoLostWakeup, Emptied
<1>4. CASE RxChunk
  <2>1. /\ pc \in InRx /\ pc' \in {"rx2", "rx_done"} /\ alive /\ ready.read
        /\ UNCHANGED <<evtchn, ready, alive, guest>>
    BY <1>4, <1>k, <1>r DEF RxChunk, conn
  <2>2. /\ pc' = "rx2" => Mask(req'.cons) = 0
        /\ pc' = "rx_done" /\ rx'.bytes > 0 => Used(req') = 0
    BY <1>4, <1>i, RxEmpties DEF Places
  <2>3. Masking'
    BY <1>i, <2>1 DEF Masking
  <2> QED
    BY <2>1, <2>2, <2>3 DEF Wakeful, Places, AfterReading, AfterWriting, NoLostWakeup, Emptied
<1>5. CASE RxDone
  <2>1. /\ pc = "rx_done" /\ alive /\ ready.read
        /\ UNCHANGED <<req, evtchn, ready, guest>>
    BY <1>5, <1>k, <1>r DEF RxDone
  <2>2. \/ ~alive' /\ pc' = "idle"
        \/ alive' /\ rx.bytes > 0 /\ (pc' = "ack" \/ (pc' = "tx" /\ back' = "ack"))
        \/ alive' /\ pc' = "rx"
        \/ alive' /\ pc' = "tx" /\ back' = "rx"
    BY <1>5 DEF RxDone
  <2>3. Masking'
    BY <1>i, <2>1, <2>2 DEF Masking
  <2>4. AfterReading'
    BY <1>i, <1>x, <2>1, <2>2 DEF AfterReading, Emptied
  <2> QED
    BY <2>1, <2>2, <2>3, <2>4 DEF Wakeful, Places, AfterWriting, NoLostWakeup
<1>6. CASE TxNext
  <2>1. /\ pc = "tx" /\ alive /\ UNCHANGED <<req, rsp, evtchn, ready, back, alive, rx, guest>>
        /\ \/ pc' = back /\ UNCHANGED <<tx, tx_queue>>
           \/ pc' = "tx" /\ tx' = Position("hdr", Head(tx_queue)) /\ Head(tx_queue) \in Message
    BY <1>6, <1>k, <1>u DEF TxNext, conn
  <2>2. back \in {"rx", "ack"}
    BY <1>i, <2>1 DEF Places
  <2>3. Answering => Answering'
    <3>1. CASE UNCHANGED <<tx, tx_queue>>
      BY <2>1, <3>1 DEF Answering, Answered, Used
    <3>2. CASE tx' = Position("hdr", Head(tx_queue)) /\ Head(tx_queue) \in Message
      <4>1. Settled(tx') # Idle
        BY <3>2, Lengths, StartsAgree, NotIdle
      <4> QED
        BY <4>1 DEF Answering, Answered
    <3> QED
      BY <2>1, <3>1, <3>2
  <2>4. Masking'
    BY <1>i, <2>1, <2>2 DEF Masking
  <2>5. AfterReading'
    BY <1>i, <1>x, <2>1, <2>2 DEF AfterReading, Emptied
  <2>6. AfterWriting'
    BY <1>i, <1>r, <1>x, <2>1, <2>2, <2>3 DEF AfterWriting
  <2> QED
    BY <2>1, <2>2, <2>4, <2>5, <2>6 DEF Wakeful, Places, NoLostWakeup
<1>7. CASE TxChunk
  <2>1. /\ pc \in {"tx", "tx2"} /\ pc' \in {"tx2", "tx_done"} /\ alive /\ tx.part # "idle"
        /\ UNCHANGED <<req, evtchn, ready, back, alive, rx, tx_queue, guest>>
    BY <1>7, <1>k DEF TxChunk, conn
  <2>2. Answering => Answering'
    <3> DEFINE n == WriteLen(rsp, tx.bytes)
    <3>1. tx = [part |-> tx.part, bytes |-> tx.bytes, msg |-> tx.msg] /\ tx.bytes \in Nat
      BY <1>u, <2>1, NotIdle DEF Sending
    <3>2. tx' = [tx EXCEPT !.bytes = @ - n] /\ n \in Nat /\ n <= tx.bytes
      BY <1>7, <3>1, ChunkLengths DEF TxChunk, Shapes, RingsOK
    <3>3. /\ tx.bytes > 0 => Used(rsp') > 0
          /\ Used(rsp) > 0 => Used(rsp') > 0
      BY <1>7, <2>1, ChunkFills DEF Unsent
    <3> HIDE DEF n
    <3>4. tx.bytes = 0 => tx' = tx
      BY <3>1, <3>2
    <3>5. tx.bytes = 0 => Answered' = Answered
      BY <2>1, <3>4 DEF Answered
    <3> QED
      BY <2>1, <3>1, <3>3, <3>5 DEF Answering
  <2>3. Masking'
    BY <1>i, <2>1 DEF Masking
  <2>4. AfterReading'
    BY <1>i, <1>x, <2>1 DEF AfterReading, Emptied
  <2>5. AfterWriting'
    BY <1>i, <1>x, <2>1, <2>2 DEF AfterWriting
  <2> QED
    BY <1>i, <2>1, <2>3, <2>4, <2>5 DEF Wakeful, Places, NoLostWakeup
<1>8. CASE TxDone
  <2>1. /\ pc = "tx_done" /\ alive
        /\ UNCHANGED <<req, rsp, evtchn, ready, back, rx, tx_queue, guest>>
        /\ \/ ~alive' /\ pc' \in {"called", "idle"}
           \/ alive' /\ pc' = back
           \/ alive' /\ pc' = "tx"
    BY <1>8, <1>k DEF TxDone
  <2>2. back \in {"rx", "ack"}
    BY <1>i, <2>1 DEF Places
  <2>3. Settled(tx') = Settled(tx)
    <3>1. \/ tx' = tx
          \/ tx.bytes = 0 /\ tx.part = "hdr" /\ tx' = Position("body", tx.msg)
          \/ tx.bytes = 0 /\ tx.part # "hdr" /\ tx' = Idle
      BY <1>8 DEF TxDone
    <3>2. Within(tx)
      BY DEF Aligned, Lined
    <3> QED
      BY <3>1, <3>2, PartEnds, IdleStarts
  <2>4. Answering' <=> Answering
    BY <2>1, <2>3 DEF Answering, Answered, Used
  <2>5. Masking'
    BY <1>i, <2>1, <2>2 DEF Masking
  <2>6. AfterReading'
    BY <1>i, <1>x, <2>1, <2>2 DEF AfterReading, Emptied
  <2>7. AfterWriting'
    BY <1>i, <1>r, <1>x, <2>1, <2>2, <2>4 DEF AfterWriting
  <2> QED
    BY <2>1, <2>2, <2>5, <2>6, <2>7 DEF Wakeful, Places, NoLostWakeup
<1>9. CASE Ack
  <2>1. /\ pc = "ack" /\ UNCHANGED <<req, rsp, ready, rx, tx, tx_queue, guest>>
        /\ \/ /\ pc' = "unmask" /\ evtchn.queued /\ UNCHANGED alive
              /\ evtchn' = [evtchn EXCEPT !.queued = FALSE]
           \/ ~alive' /\ pc' = "idle" /\ UNCHANGED evtchn
    BY <1>9 DEF Ack, Dies
  <2>2. Answering' <=> Answering
    BY <2>1 DEF Answering, Answered, Used
  <2>3. evtchn'.masked = evtchn.masked /\ evtchn'.pending = evtchn.pending
    BY <1>c, <2>1
  <2>4. Masking'
    BY <1>i, <2>1, <2>3 DEF Masking
  <2>5. AfterReading'
    BY <1>i, <1>x, <2>1, <2>3 DEF AfterReading, Emptied
  <2>6. AfterWriting'
    BY <1>i, <1>x, <2>1, <2>2, <2>3 DEF AfterWriting
  <2> QED
    BY <2>1, <2>4, <2>5, <2>6 DEF Wakeful, Places, NoLostWakeup
<1>10. CASE Unmask
  <2>1. /\ pc = "unmask" /\ pc' = "idle" /\ alive /\ UNCHANGED <<req, rsp, ready, guest>>
        /\ \/ ~alive' /\ UNCHANGED evtchn
           \/ evtchn' = [queued |-> evtchn.pending, masked |-> evtchn.pending,
                         pending |-> FALSE]
    BY <1>10, <1>k DEF Unmask, Lives, Dies
  <2>2. Masking'
    BY <1>i, <2>1 DEF Masking
  <2>3. Used(req) > 0 => evtchn.pending \/ guest.produced \/ guest.consumed
    BY <1>i, <2>1 DEF AfterReading, AfterWriting, Emptied
  <2>4. NoLostWakeup'
    BY <1>x, <2>1, <2>3 DEF NoLostWakeup, WillRing
  <2> QED
    BY <2>1, <2>2, <2>4 DEF Wakeful, Places, AfterReading, AfterWriting, Emptied
<1>11. ~WatchEvent
  BY <1>u DEF WatchEvent
<1>12. CASE GuestSend
  <2>1. UNCHANGED <<req, rsp, evtchn, pc, back, ready, conn, rx, tx, tx_queue>>
    BY <1>12 DEF GuestSend
  <2>2. guest'.in = guest.in /\ guest'.produced = guest.produced /\ guest'.consumed = guest.consumed
    BY <1>12, <1>g DEF GuestSend
  <2>3. Answering' <=> Answering
    BY <2>1, <2>2 DEF Answering, Answered, Used
  <2> QED
    BY <1>i, <2>1, <2>2, <2>3 DEF conn, Wakeful, Places, Masking, AfterReading, AfterWriting,
                                  NoLostWakeup, WillRing, Emptied, Used, Mask
<1>13. CASE GuestWrite
  <2>1. UNCHANGED <<rsp, evtchn, pc, back, ready, conn, rx, tx, tx_queue>>
    BY <1>13 DEF GuestWrite
  <2>2. guest'.in = guest.in /\ guest'.produced /\ guest'.consumed = guest.consumed
    BY <1>13, <1>g DEF GuestWrite
  <2>3. req'.cons = req.cons
    <3>1. req = [data |-> req.data, prod |-> req.prod, cons |-> req.cons]
      BY <1>u DEF Ring
    <3>2. \A bytes : Produce(req, bytes).cons = req.cons
      BY <3>1 DEF Produce
    <3> QED
      BY <1>13, <3>2 DEF GuestWrite
  <2>4. Answering' <=> Answering
    BY <2>1, <2>2 DEF Answering, Answered, Used
  <2>5. AfterWriting'
    BY <1>i, <2>1, <2>2, <2>4 DEF conn, AfterWriting
  <2> QED
    BY <1>i, <2>1, <2>2, <2>3, <2>5 DEF conn, Wakeful, Places, Masking, AfterReading,
                                        NoLostWakeup, WillRing, Mask
<1>14. CASE GuestRead
  <2>1. UNCHANGED <<req, evtchn, pc, back, ready, conn, rx, tx, tx_queue>> /\ Used(rsp) > 0
    BY <1>14 DEF GuestRead
  <2>2. guest'.produced = guest.produced /\ guest'.consumed
    BY <1>14, <1>g DEF GuestRead
  <2>3. ~(Used(req) > 0)
    BY <1>t, <2>1 DEF Answering
  <2> QED
    BY <1>i, <1>x, <2>1, <2>2, <2>3 DEF conn, Wakeful, Places, Masking, AfterReading,
                                        AfterWriting, NoLostWakeup, WillRing
<1>15. CASE NotifyProduced \/ NotifyConsumed
  <2>1. Notified /\ UNCHANGED <<req, rsp, pc, back, ready, conn, rx, tx, tx_queue>>
    BY <1>15 DEF NotifyProduced, NotifyConsumed
  <2>2. /\ evtchn'.masked
        /\ evtchn.masked \/ evtchn'.queued
        /\ evtchn.queued => evtchn'.queued
        /\ evtchn.pending \/ evtchn.masked => evtchn'.pending
    BY <1>c, <2>1 DEF Notified
  <2>3. guest'.in = guest.in
        /\ \/ ~guest'.produced /\ guest'.consumed = guest.consumed
           \/ ~guest'.consumed /\ guest'.produced = guest.produced
    BY <1>15, <1>g DEF NotifyProduced, NotifyConsumed
  <2>4. Answering' <=> Answering
    BY <2>1, <2>3 DEF Answering, Answered, Used
  <2>5. Masking'
    BY <2>2 DEF Masking
  <2>6. AfterReading'
    <3>1. alive /\ ready.read /\ Emptied => evtchn.masked
      BY <1>i, <1>r DEF Masking, Emptied
    <3> QED
      BY <2>1, <2>2, <3>1 DEF conn, AfterReading, Emptied
  <2>7. AfterWriting'
    <3>1. AfterWriting
      BY <1>i
    <3> QED
      BY <1>t, <1>x, <2>1, <2>2, <2>3, <2>4, <3>1 DEF conn, AfterWriting
  <2>8. NoLostWakeup'
    <3>1. pc = "idle" /\ alive => evtchn'.queued
      BY <1>a, <2>2 DEF Channels
    <3> QED
      BY <2>1, <3>1 DEF conn, NoLostWakeup, WillRing
  <2>9. Places'
    BY <1>i, <1>x, <2>1 DEF Places
  <2> QED
    BY <2>5, <2>6, <2>7, <2>8, <2>9 DEF Wakeful
<1> QED
  BY <1>1, <1>2, <1>3, <1>4, <1>5, <1>6, <1>7, <1>8, <1>9, <1>10, <1>11, <1>12, <1>13,
     <1>14, <1>15 DEF Next, Daemon, Working, Guest

(* NoLostWakeup, for a guest with one client that waits for each response  *)
(* and has no watches: the daemon never sleeps on a request.               *)
THEOREM RequestsAreNoticed ==
    ASSUME MaxOutstanding = 1, MaxQueue = 0
    PROVE  Spec => []NoLostWakeup
<1> DEFINE IInv == Shapes /\ Control /\ Awake /\ Aligned /\ Turns /\ Single /\ Wakeful
<1>1. Init => IInv
  BY ShapesInit, ControlInit, AwakeInit, AlignedInit, SyncInit, WakefulInit
<1>2. IInv /\ [Next]_vars => IInv'
  BY ShapesStep, ControlStep, AwakeStep, AlignedStep, SyncStep, WakefulStep
<1>3. IInv => NoLostWakeup
  BY DEF Wakeful
<1> QED
  BY <1>1, <1>2, <1>3, PTL DEF Spec

=============================================================================
