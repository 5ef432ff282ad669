------------------------------ MODULE RingConn ------------------------------
(***************************************************************************)
(* The connection of a guest (ring_conn) and the protocol's two state      *)
(* machines on top of it (xs_proto): a page shared with the guest holds a  *)
(* ring of requests and a ring of responses, and an event channel tells    *)
(* each side that the other one moved an index.                            *)
(*                                                                         *)
(* The guest runs while the daemon does, so the daemon is a process with a *)
(* program counter: one step per look at the shared page or at the event   *)
(* channel.  A chunk is copied in one step: the guest can only add to what *)
(* is readable, or free space, while the daemon copies.                    *)
(***************************************************************************)
EXTENDS Integers, Sequences, FiniteSetsExt, Wire

CONSTANTS
    RingSize,       \* XENSTORE_RING_SIZE
    IdxMod,         \* ring indices wrap at IdxMod (2^32 in the program)
    BodyLens,       \* the body lengths in use
    MaxOutstanding, \* bound: requests of the guest that wait for a response
    MaxQueue        \* bound: messages queued when a watch event is added

ASSUME SizeAssumption ==
    /\ RingSize \in Nat \ {0} /\ IdxMod \in Nat
    /\ IdxMod > RingSize /\ IdxMod % RingSize = 0
    /\ BodyLens \subseteq Nat /\ BodyLens # {}
    /\ MaxOutstanding \in Nat /\ MaxQueue \in Nat

VARIABLES
    req, rsp,          \* the shared page: data and indices of both rings
    evtchn,            \* the daemon's end of the event channel
    pc, back,          \* where the daemon is, and where process_tx returns to
    ready,             \* the callback's arguments read and write
    notify,            \* the local variable of read and write
    ev_read, ev_write, \* the readiness the daemon asked epoll for
    alive, deaths,     \* ring_conn::alive; history: calls of conn_dead
    rx, tx, tx_queue,  \* the state machines of xs_proto
    guest              \* the guest's driver

conn == <<ev_read, ev_write, alive, deaths>>
vars == <<req, rsp, evtchn, pc, back, ready, notify, conn, rx, tx, tx_queue, guest>>

-----------------------------------------------------------------------------
(* Messages and rings.                                                     *)

Message == [kind : {"request", "reply", "event"}, len : BodyLens]

AnyMessage == [kind |-> "request", len |-> CHOOSE len \in BodyLens : TRUE]
Byte == [part : {"hdr", "body"}, n : Nat, msg : Message]

(* MASK_XENSTORE_IDX, and prod - cons in unsigned arithmetic.              *)
Mask(i) == i % RingSize
Used(r) == (r.prod - r.cons) % IdxMod
Free(r) == RingSize - Used(r)

(* How far read_chunk and write_chunk get with one memcpy.                 *)
ReadLen(r, bytes) == Min({RingSize - Mask(r.cons), Used(r), bytes})

(* A faulty WriteLen that forgets what the reader has not consumed.        *)
WriteLenOver(r, bytes) == Min({RingSize - Mask(r.prod), bytes})
(* A faulty one that forgets the end of the ring.                          *)
WriteLenPast(r, bytes) == Min({Free(r), bytes})
WriteLen(r, bytes) == Min({RingSize - Mask(r.prod), Free(r), bytes})

Consume(r, n) == [r EXCEPT !.cons = (@ + n) % IdxMod]
Produce(r, bytes) ==
    [r EXCEPT !.data = [i \in 0 .. RingSize - 1 |->
                  LET k == i - Mask(r.prod) + 1
                  IN  IF k \in DOMAIN bytes THEN bytes[k] ELSE @[i]],
              !.prod = (@ + Len(bytes)) % IdxMod]

-----------------------------------------------------------------------------
(* The event channel.  While a notification waits to be fetched or is not  *)
(* unmasked yet, a further one only sets the pending bit.                  *)
Notified ==
    evtchn' = IF evtchn.masked THEN [evtchn EXCEPT !.pending = TRUE]
              ELSE [evtchn EXCEPT !.queued = TRUE, !.masked = TRUE]

-----------------------------------------------------------------------------
(* The daemon.                                                             *)

Dies == alive' = FALSE /\ deaths' = deaths + 1
Lives == UNCHANGED <<alive, deaths>>

(* epoll reports what the daemon asked for; the event channel is readable  *)
(* when a notification waits, and always writable.                         *)
Poll ==
    /\ pc = "idle" /\ alive
    /\ ready' = [read |-> ev_read /\ evtchn.queued, write |-> ev_write]
    /\ ready'.read \/ ready'.write
    /\ pc' = "called"
    /\ UNCHANGED <<req, rsp, evtchn, back, notify, conn, rx, tx, tx_queue, guest>>

(* A faulty Callback that does not look whether the connection died.       *)
CallbackUnchecked ==
    /\ pc = "called"
    /\ \/ /\ IF ready.read THEN pc' = "rx" /\ UNCHANGED back
                           ELSE pc' = "tx" /\ back' = "ack"
          /\ UNCHANGED conn
       \/ /\ Dies /\ pc' = "idle"
          /\ UNCHANGED <<back, ev_read, ev_write>>
    /\ UNCHANGED <<req, rsp, evtchn, ready, notify, rx, tx, tx_queue, guest>>

(* ring_conn_cb::callback, when its turn in the event queue comes; a watch *)
(* event may have broken the connection before, or epoll reports an error. *)
Callback ==
    /\ pc = "called"
    /\ \/ /\ alive
          /\ IF ready.read THEN pc' = "rx" /\ UNCHANGED back
                           ELSE pc' = "tx" /\ back' = "ack"
          /\ UNCHANGED conn
       \/ /\ ~alive /\ pc' = "idle" /\ UNCHANGED <<back, conn>>
       \/ /\ alive /\ Dies /\ pc' = "idle"
          /\ UNCHANGED <<back, ev_read, ev_write>>
    /\ UNCHANGED <<req, rsp, evtchn, ready, notify, rx, tx, tx_queue, guest>>

(* One read_chunk of read; the second one follows at the end of the ring.  *)
RxChunk ==
    /\ pc \in {"rx", "rx2"}
    /\ LET n == ReadLen(req, rx.bytes)
           first == req.data[Mask(req.cons)]
       IN  /\ req' = Consume(req, n)
           /\ rx' = [rx EXCEPT !.bytes = @ - n,
                               !.msg = IF n > 0 /\ rx.part = "hdr" THEN first.msg ELSE @]
           /\ notify' = ((pc = "rx2" /\ notify) \/ n > 0)
    /\ pc' = IF pc = "rx" /\ rx'.bytes > 0 /\ Mask(req'.cons) = 0 THEN "rx2"
             ELSE "rx_done"
    /\ UNCHANGED <<rsp, evtchn, back, ready, conn, tx, tx_queue, guest>>

(* The callback for reading is wanted while the part is unfinished.        *)
WantsRead == rx.bytes > 0

(* Every request, failed or unknown ones included, is answered once.       *)
Replies == [kind : {"reply"}, len : BodyLens]

(* The rest of read, and what process_rx does with its result.  A complete *)
(* request is handled: its reply is queued and transmission triggered.     *)
RxDone ==
    /\ pc = "rx_done"
    /\ ev_read' = WantsRead
    /\ \/ Lives
       \/ notify /\ Dies
    /\ \/ /\ ~alive'
          /\ pc' = "idle"
          /\ UNCHANGED <<rx, tx_queue, back>>
       \/ /\ alive' /\ rx.bytes > 0
          /\ IF ready.write THEN pc' = "tx" /\ back' = "ack"
                            ELSE pc' = "ack" /\ UNCHANGED back
          /\ UNCHANGED <<rx, tx_queue>>
       \/ /\ alive' /\ rx.bytes = 0 /\ rx.part = "hdr"
          /\ rx' = Position("body", rx.msg)
          /\ pc' = "rx"
          /\ UNCHANGED <<tx_queue, back>>
       \/ /\ alive' /\ rx.bytes = 0 /\ rx.part = "body"
          /\ rx' = Position("hdr", NoMessage)
          /\ \E reply \in Replies : tx_queue' = Append(tx_queue, reply)
          /\ pc' = "tx" /\ back' = "rx"
    /\ UNCHANGED <<req, rsp, evtchn, ready, notify, ev_write, tx, guest>>

(* prepare_tx: the next message, if there is one.                          *)
TxNext ==
    /\ pc = "tx" /\ tx.part = "idle"
    /\ IF tx_queue = <<>>
       THEN pc' = back /\ UNCHANGED <<tx, tx_queue>>
       ELSE /\ tx' = Position("hdr", Head(tx_queue))
            /\ tx_queue' = Tail(tx_queue)
            /\ UNCHANGED pc
    /\ UNCHANGED <<req, rsp, evtchn, back, ready, notify, conn, rx, guest>>

(* One write_chunk of write.                                               *)
TxChunk ==
    /\ pc \in {"tx", "tx2"} /\ tx.part # "idle"
    /\ LET n == WriteLen(rsp, tx.bytes)
       IN  /\ rsp' = Produce(rsp, Upcoming(tx, n))
           /\ tx' = [tx EXCEPT !.bytes = @ - n]
           /\ notify' = ((pc = "tx2" /\ notify) \/ n > 0)
    /\ pc' = IF pc = "tx" /\ tx'.bytes > 0 /\ Mask(rsp'.prod) = 0 THEN "tx2"
             ELSE "tx_done"
    /\ UNCHANGED <<req, evtchn, back, ready, conn, rx, tx_queue, guest>>

(* The callback for writing is wanted while the part is unfinished.  The   *)
(* faulty ones keep it for ever, or for one callback only.                 *)
WantsWriteStill == ev_write \/ tx.bytes > 0
WantsWriteOnce == ~ev_write /\ tx.bytes > 0
WantsWrite == tx.bytes > 0

(* The rest of write, and what process_tx does with its result.  Whatever  *)
(* called it finds the connection dead; a callback may still be queued.    *)
TxDone ==
    /\ pc = "tx_done"
    /\ ev_write' = WantsWrite
    /\ \/ Lives
       \/ notify /\ Dies
    /\ \/ /\ ~alive' /\ UNCHANGED tx
          /\ pc' = IF back = "called" THEN "called" ELSE "idle"
       \/ alive' /\ tx.bytes > 0 /\ pc' = back /\ UNCHANGED tx
       \/ /\ alive' /\ tx.bytes = 0
          /\ tx' = IF tx.part = "hdr" THEN Position("body", tx.msg) ELSE Idle
          /\ pc' = "tx"
    /\ UNCHANGED <<req, rsp, evtchn, back, ready, notify, ev_read, rx, tx_queue, guest>>

(* xc_evtchn_pending fetches the notification, and blocks until there is   *)
(* one, whether the callback was for reading or for writing.               *)
Ack ==
    /\ pc = "ack"
    /\ \/ /\ evtchn.queued
          /\ evtchn' = [evtchn EXCEPT !.queued = FALSE]
          /\ pc' = "unmask"
          /\ UNCHANGED <<alive, deaths>>
       \/ /\ Dies /\ pc' = "idle" /\ UNCHANGED evtchn
    /\ UNCHANGED <<req, rsp, back, ready, notify, ev_read, ev_write, rx, tx, tx_queue, guest>>

(* Faulty: the channel stays masked, or what became pending is dropped.    *)
UnmaskNever ==
    /\ pc = "unmask" /\ pc' = "idle"
    /\ UNCHANGED <<req, rsp, evtchn, back, ready, notify, conn, rx, tx, tx_queue, guest>>
UnmaskDropping ==
    /\ pc = "unmask"
    /\ evtchn' = [queued |-> FALSE, masked |-> FALSE, pending |-> FALSE]
    /\ pc' = "idle"
    /\ UNCHANGED <<req, rsp, back, ready, notify, conn, rx, tx, tx_queue, guest>>

(* xc_evtchn_unmask: what became pending meanwhile is delivered now.       *)
Unmask ==
    /\ pc = "unmask" /\ pc' = "idle"
    /\ \/ /\ Lives
          /\ evtchn' = [queued |-> evtchn.pending, masked |-> evtchn.pending,
                        pending |-> FALSE]
       \/ Dies /\ UNCHANGED evtchn
    /\ UNCHANGED <<req, rsp, back, ready, notify, ev_read, ev_write, rx, tx, tx_queue, guest>>

(* An event of the daemon tells the guest's client of a change: it queues  *)
(* a message and calls process_tx (watch_cb::operator()).                  *)
WatchEvent ==
    /\ pc \in {"idle", "called"} /\ alive
    /\ Len(tx_queue) < MaxQueue
    /\ \E len \in BodyLens :
          tx_queue' = Append(tx_queue, [kind |-> "event", len |-> len])
    /\ pc' = "tx" /\ back' = pc
    /\ UNCHANGED <<req, rsp, evtchn, ready, notify, conn, rx, tx, guest>>

-----------------------------------------------------------------------------
(* The guest's driver, as xen's drivers do it: it moves an index after it  *)
(* copied a chunk of a message's part, and notifies before it goes on with *)
(* that ring.  Reading and writing do not wait for each other.             *)

GuestSend ==
    /\ guest.out.part = "idle" /\ guest.waiting < MaxOutstanding
    /\ \E len \in BodyLens :
          guest' = [guest EXCEPT
                       !.out = Position("hdr", [kind |-> "request", len |-> len]),
                       !.waiting = @ + 1]
    /\ UNCHANGED <<req, rsp, evtchn, pc, back, ready, notify, conn, rx, tx, tx_queue>>

GuestWrite ==
    /\ guest.out.part # "idle" /\ ~guest.produced
    /\ \E n \in 1 .. WriteLen(req, guest.out.bytes) :
          /\ req' = Produce(req, Upcoming(guest.out, n))
          /\ guest' = [guest EXCEPT !.out = Advance(@, n), !.produced = TRUE]
    /\ UNCHANGED <<rsp, evtchn, pc, back, ready, notify, conn, rx, tx, tx_queue>>

GuestRead ==
    /\ Used(rsp) > 0 /\ ~guest.consumed
    /\ LET m == rsp.data[Mask(rsp.cons)].msg
           at == IF guest.in.part = "idle" THEN Position("hdr", m) ELSE guest.in
       IN  \E n \in 1 .. ReadLen(rsp, at.bytes) :
              /\ rsp' = Consume(rsp, n)
              /\ guest' = [guest EXCEPT
                    !.in = Advance(at, n), !.consumed = TRUE,
                    !.waiting = IF Advance(at, n) = Idle /\ m.kind = "reply"
                                THEN @ - 1 ELSE @]
    /\ UNCHANGED <<req, evtchn, pc, back, ready, notify, conn, rx, tx, tx_queue>>

NotifyProduced ==
    /\ guest.produced
    /\ guest' = [guest EXCEPT !.produced = FALSE]
    /\ Notified
    /\ UNCHANGED <<req, rsp, pc, back, ready, notify, conn, rx, tx, tx_queue>>

NotifyConsumed ==
    /\ guest.consumed
    /\ guest' = [guest EXCEPT !.consumed = FALSE]
    /\ Notified
    /\ UNCHANGED <<req, rsp, pc, back, ready, notify, conn, rx, tx, tx_queue>>

-----------------------------------------------------------------------------
(* The constructors: both rings empty, the daemon wants to read; binding   *)
(* the event channel may already have delivered a notification.            *)
Init ==
    /\ req = [data |-> [i \in 0 .. RingSize - 1 |-> ByteOf("body", 0, AnyMessage)],
              prod |-> 0, cons |-> 0]
    /\ rsp = req
    /\ evtchn \in {[queued |-> q, masked |-> q, pending |-> FALSE] : q \in BOOLEAN}
    /\ pc = "idle" /\ back = "idle"
    /\ ready = [read |-> FALSE, write |-> FALSE]
    /\ notify = FALSE
    /\ ev_read = TRUE /\ ev_write = FALSE
    /\ alive = TRUE /\ deaths = 0
    /\ rx = Position("hdr", NoMessage)
    /\ tx = Idle /\ tx_queue = <<>>
    /\ guest = [out |-> Idle, in |-> Idle, waiting |-> 0,
                produced |-> FALSE, consumed |-> FALSE]

Working == RxChunk \/ RxDone \/ TxNext \/ TxChunk \/ TxDone \/ Ack \/ Unmask
Daemon == Poll \/ Callback \/ Working \/ WatchEvent
Guest == GuestSend \/ GuestWrite \/ GuestRead \/ NotifyProduced \/ NotifyConsumed

Next == Daemon \/ Guest

Spec == Init /\ [][Next]_vars

(* Polling and the callback get their turn in the event queue however many *)
(* watch events come between.  The guest completes what it writes, reads   *)
(* its responses, and notifies.                                            *)
FairSpec ==
    /\ Spec
    /\ WF_vars(Working) /\ SF_vars(Poll) /\ SF_vars(Callback)
    /\ WF_vars(GuestWrite) /\ WF_vars(GuestRead)
    /\ WF_vars(NotifyProduced) /\ WF_vars(NotifyConsumed)

-----------------------------------------------------------------------------
(* Properties.                                                             *)

Part == {"hdr", "body", "idle"}
At == [part : Part, bytes : Nat, msg : Message \cup {NoMessage}]
Ring == [data : [0 .. RingSize - 1 -> Byte], prod : 0 .. IdxMod - 1, cons : 0 .. IdxMod - 1]

(* The types of the connection's state, and indices that never overtake.   *)
TypeOK ==
    /\ req \in Ring /\ rsp \in Ring
    /\ Used(req) <= RingSize /\ Used(rsp) <= RingSize
    /\ evtchn \in [queued : BOOLEAN, masked : BOOLEAN, pending : BOOLEAN]
    /\ pc \in {"idle", "called", "rx", "rx2", "rx_done", "tx", "tx2", "tx_done",
               "ack", "unmask"}
    /\ back \in {"idle", "called", "rx", "ack"}
    /\ ready \in [read : BOOLEAN, write : BOOLEAN]
    /\ notify \in BOOLEAN /\ ev_read \in BOOLEAN /\ ev_write \in BOOLEAN
    /\ alive \in BOOLEAN /\ deaths \in Nat
    /\ rx \in At /\ tx \in At /\ tx_queue \in Seq(Message)
    /\ guest \in [out : At, in : At, waiting : Int, produced : BOOLEAN, consumed : BOOLEAN]

(* What lies unread in a ring continues, byte by byte, the message that    *)
(* its reader is at: nothing is lost, repeated, reordered or overwritten   *)
(* across the ends of the ring and of the index type (read_chunk,          *)
(* write_chunk), and the readers stay aligned with the messages.           *)
Reading(r, s) ==
    /\ Used(r) > 0 /\ s.bytes > 0 => Continues(r.data[Mask(r.cons)], s)
    /\ \A i \in 1 .. Used(r) - 1 :
          Continues(r.data[Mask(r.cons + i)], After(r.data[Mask(r.cons + i - 1)]))
BytesInOrder ==
    /\ Reading(req, rx)
    /\ Reading(rsp, IF guest.in.part = "idle" THEN Position("hdr", NoMessage) ELSE guest.in)

(* Between events the daemon listens to its guest, and asks to be called   *)
(* for writing exactly as long as a message is unfinished: nothing waits   *)
(* in the queue that no callback will send, and an idle connection does    *)
(* not keep the daemon busy.                                               *)
InterestExact ==
    pc = "idle" /\ alive =>
        /\ ev_read
        /\ ev_write <=> tx.part # "idle"
        /\ tx_queue # <<>> => ev_write

(* A connection is reported dead once, wherever it breaks.                 *)
DiesOnce == deaths = (IF alive THEN 0 ELSE 1)

(* Something will still ring: a notification waits, or the guest owes one, *)
(* or it will, for responses lie in its ring.                              *)
WillRing == evtchn.queued \/ guest.produced \/ guest.consumed \/ Used(rsp) > 0

(* The wait of xc_evtchn_pending ends, even in a callback that was called  *)
(* for writing only: it would stop the whole daemon.                       *)
AckReturns == pc = "ack" => WillRing

(* A notification that arrives while the daemon reads, or that a callback  *)
(* for writing fetches, does not leave requests behind unread: it will     *)
(* ring again, or the daemon is about to write what makes the guest ring.  *)
NoLostWakeup ==
    pc = "idle" /\ alive /\ Used(req) > 0 => WillRing \/ ev_write

(* Every request is answered as long as the connection lives.              *)
RequestsAnswered ==
    [](guest.waiting > 0 => <>(~alive \/ guest.waiting < MaxOutstanding))

=============================================================================
