------------------------------- MODULE SockConn -------------------------------
(***************************************************************************)
(* The connection of a client in dom0 (sock_conn) and the protocol's two   *)
(* state machines on top of it (xs_proto): a stream socket in which either *)
(* end reads and writes as much as there is, and which the client may      *)
(* close at any point.                                                     *)
(*                                                                         *)
(* The client runs while the daemon does, so the daemon is a process with  *)
(* a program counter: one step per recv or send.  The client may send      *)
(* requests before it has the answers to earlier ones.                     *)
(***************************************************************************)
EXTENDS Integers, Sequences, SequencesExt, FiniteSets, Wire

CONSTANTS
    PayloadMax,     \* XENSTORE_PAYLOAD_MAX
    RequestLens,    \* the body lengths of requests
    AnswerLens,     \* the lengths of what answers and watch events are to say
    ErrorLen,       \* the length of an error's name
    Id,             \* identifiers of requests; bound: those without an answer
    NoId,           \* the identifier of watch events
    SockBuf,        \* bytes the socket holds for a reader
    MaxQueue        \* bound: messages queued when a watch event is added

ASSUME ConnAssumption ==
    /\ PayloadMax \in Nat /\ ErrorLen \in 0 .. PayloadMax
    /\ RequestLens \subseteq 0 .. PayloadMax /\ AnswerLens \subseteq Nat
    /\ IsFiniteSet(Id) /\ NoId \notin Id
    /\ SockBuf \in Nat \ {0} /\ MaxQueue \in Nat

VARIABLES
    to_daemon, to_client, \* the bytes in the socket, for either reader
    closed,            \* the client closed its end
    pc, back,          \* where the daemon is, and where process_tx returns to
    ready,             \* the callback's arguments
    ev_read, ev_write, \* the readiness the daemon asked epoll for
    alive, deaths,     \* sock_conn::alive; history: calls of conn_dead
    rx, tx, tx_queue,  \* the state machines of xs_proto
    client             \* what the client writes, reads and waits for

socket == <<to_daemon, to_client, closed>>
conn == <<ev_read, ev_write, alive, deaths>>
vars == <<socket, pc, back, ready, conn, rx, tx, tx_queue, client>>

-----------------------------------------------------------------------------
Kind == {"request", "reply", "event", "error"}
Message == [kind : Kind, id : Id \cup {NoId}, len : 0 .. PayloadMax]

Start == Position("hdr", NoMessage)

(* min(m, n), what one call moves at most.                                 *)
AtMost(m, n) == IF m < n THEN m ELSE n
Room(pipe) == SockBuf - Len(pipe)

-----------------------------------------------------------------------------
(* The daemon.                                                             *)

Dies == alive' = FALSE /\ deaths' = deaths + 1 /\ UNCHANGED <<ev_read, ev_write>>
Lives == UNCHANGED <<alive, deaths>>

(* epoll reports what the daemon asked for, and a closed socket always.    *)
Poll ==
    /\ pc = "idle" /\ alive
    /\ ready' = [read  |-> ev_read /\ (to_daemon # <<>> \/ closed),
                 write |-> ev_write /\ (Room(to_client) > 0 \/ closed),
                 error |-> closed]
    /\ ready'.read \/ ready'.write \/ ready'.error
    /\ pc' = "called"
    /\ UNCHANGED <<socket, back, conn, rx, tx, tx_queue, client>>

(* A faulty Callback that does not look whether the connection died.       *)
CallbackUnchecked ==
    /\ pc = "called"
    /\ \/ ready.error /\ Dies /\ pc' = "idle" /\ UNCHANGED back
       \/ ~ready.error /\ ready.read /\ pc' = "rx" /\ UNCHANGED <<back, conn>>
       \/ /\ ~ready.error /\ ~ready.read
          /\ pc' = "tx" /\ back' = "idle" /\ UNCHANGED conn
    /\ UNCHANGED <<socket, ready, rx, tx, tx_queue, client>>

(* sock_conn_cb::callback, when its turn in the event queue comes; a watch *)
(* event may have broken the connection before.                            *)
Callback ==
    /\ pc = "called"
    /\ \/ ~alive /\ pc' = "idle" /\ UNCHANGED <<back, conn>>
       \/ alive /\ ready.error /\ Dies /\ pc' = "idle" /\ UNCHANGED back
       \/ /\ alive /\ ~ready.error /\ ready.read
          /\ pc' = "rx" /\ UNCHANGED <<back, conn>>
       \/ /\ alive /\ ~ready.error /\ ~ready.read
          /\ pc' = "tx" /\ back' = "idle" /\ UNCHANGED conn
    /\ UNCHANGED <<socket, ready, rx, tx, tx_queue, client>>

(* process_rx returns: the callback goes on to process_tx if it may write. *)
RxReturns ==
    IF ready.write THEN pc' = "tx" /\ back' = "idle" ELSE pc' = "idle" /\ UNCHANGED back

(* read gets n bytes of a message's part; the body follows the header.     *)
RxAdvance(n) ==
    LET m == IF rx.part = "hdr" THEN Head(to_daemon).msg ELSE rx.msg
    IN  IF rx.part = "hdr" /\ n = rx.bytes THEN Position("body", m)
        ELSE [rx EXCEPT !.bytes = @ - n, !.msg = m]

(* The callback for reading is wanted while the part is unfinished.        *)
Recv ==
    /\ pc = "rx" /\ rx.bytes > 0
    /\ \/ /\ Lives
          /\ \E n \in 1 .. AtMost(Len(to_daemon), rx.bytes) :
                /\ to_daemon' = SubSeq(to_daemon, n + 1, Len(to_daemon))
                /\ rx' = RxAdvance(n)
                /\ ev_read' = (n < rx.bytes)
                /\ IF n < rx.bytes THEN RxReturns ELSE UNCHANGED <<pc, back>>
       \/ /\ to_daemon = <<>> /\ ~closed /\ Lives
          /\ ev_read' = TRUE
          /\ RxReturns
          /\ UNCHANGED <<to_daemon, rx>>
       \/ /\ Dies
          /\ pc' = "idle"
          /\ UNCHANGED <<to_daemon, rx, back>>
    /\ UNCHANGED <<to_client, closed, ready, ev_write, tx, tx_queue, client>>

(* A complete request, failed or unknown ones included, is answered once:  *)
(* the answer is queued and transmission triggered.                        *)
Handle ==
    /\ pc = "rx" /\ rx.part = "body" /\ rx.bytes = 0
    /\ \E len \in AnswerLens :
          tx_queue' = Append(tx_queue, [kind |-> "reply", id |-> rx.msg.id, len |-> len])
    /\ rx' = Start
    /\ pc' = "tx" /\ back' = "rx"
    /\ UNCHANGED <<socket, ready, conn, tx, client>>

(* build_body: what is too long for a message becomes an error; the faulty *)
(* ones let it pass, or forget whose answer it is.                         *)
BuiltLong(m) == m
BuiltAnew(m) ==
    IF m.len <= PayloadMax THEN m ELSE [kind |-> "error", id |-> NoId, len |-> ErrorLen]
Built(m) ==
    IF m.len <= PayloadMax THEN m ELSE [m EXCEPT !.kind = "error", !.len = ErrorLen]

(* prepare_tx: the next message, if there is one.                          *)
TxNext ==
    /\ pc = "tx" /\ tx = Idle
    /\ IF tx_queue = <<>>
       THEN pc' = back /\ UNCHANGED <<tx, tx_queue>>
       ELSE /\ tx' = Position("hdr", Built(Head(tx_queue)))
            /\ tx_queue' = Tail(tx_queue)
            /\ UNCHANGED pc
    /\ UNCHANGED <<socket, back, ready, conn, rx, client>>

(* The callback for writing is wanted while the part is unfinished.  The   *)
(* faulty ones keep it for ever, or forget the rest of the part.           *)
WantsWriteStill(n) == ev_write \/ n < tx.bytes
WantsWriteNever(n) == ev_write /\ n < tx.bytes
WantsWrite(n) == n < tx.bytes

(* A faulty advance that starts the rest of a part at its end.             *)
TxAdvanceAll(n) == Advance(tx, tx.bytes)
TxAdvance(n) == Advance(tx, n)

(* write; whatever called process_tx finds a broken connection dead, but   *)
(* its callback may still be queued.                                       *)
Send ==
    /\ pc = "tx" /\ tx # Idle
    /\ \/ /\ ~closed /\ Lives
          /\ \E n \in 1 .. AtMost(Room(to_client), tx.bytes) :
                /\ to_client' = to_client \o Upcoming(tx, n)
                /\ tx' = TxAdvance(n)
                /\ ev_write' = WantsWrite(n)
                /\ pc' = IF n < tx.bytes THEN back ELSE pc
       \/ /\ Room(to_client) = 0 /\ ~closed /\ Lives
          /\ ev_write' = WantsWrite(0)
          /\ pc' = back
          /\ UNCHANGED <<to_client, tx>>
       \/ /\ Dies
          /\ pc' = IF back = "called" THEN "called" ELSE "idle"
          /\ UNCHANGED <<to_client, tx>>
    /\ UNCHANGED <<to_daemon, closed, back, ready, ev_read, rx, tx_queue, client>>

(* An event of the daemon tells the client of a change: it queues a        *)
(* message and calls process_tx (watch_cb::operator()).                    *)
WatchEvent ==
    /\ pc \in {"idle", "called"} /\ alive
    /\ Len(tx_queue) < MaxQueue
    /\ \E len \in AnswerLens :
          tx_queue' = Append(tx_queue, [kind |-> "event", id |-> NoId, len |-> len])
    /\ pc' = "tx" /\ back' = pc
    /\ UNCHANGED <<socket, ready, conn, rx, tx, client>>

-----------------------------------------------------------------------------
(* The client, a program that uses libxenstore.                            *)

Request ==
    /\ ~closed /\ client.out = Idle
    /\ \E id \in Id \ ToSet(client.awaiting), len \in RequestLens :
          client' = [out |-> Position("hdr", [kind |-> "request", id |-> id, len |-> len]),
                     in |-> client.in,
                     awaiting |-> Append(client.awaiting, id)]
    /\ UNCHANGED <<socket, pc, back, ready, conn, rx, tx, tx_queue>>

ClientWrite ==
    /\ ~closed /\ client.out # Idle
    /\ \E n \in 1 .. AtMost(Room(to_daemon), client.out.bytes) :
          /\ to_daemon' = to_daemon \o Upcoming(client.out, n)
          /\ client' = [client EXCEPT !.out = Advance(@, n)]
    /\ UNCHANGED <<to_client, closed, pc, back, ready, conn, rx, tx, tx_queue>>

(* It knows an answer by the identifier of its request.                    *)
Without(ids, id) ==
    IF \E i \in DOMAIN ids : ids[i] = id
    THEN RemoveAt(ids, CHOOSE i \in DOMAIN ids : ids[i] = id) ELSE ids

ClientRead ==
    /\ ~closed /\ to_client # <<>>
    /\ LET m == Head(to_client).msg
           at == IF client.in = Idle THEN Position("hdr", m) ELSE client.in
       IN  \E n \in 1 .. AtMost(Len(to_client), at.bytes) :
              /\ to_client' = SubSeq(to_client, n + 1, Len(to_client))
              /\ client' = [out |-> client.out,
                             in |-> Advance(at, n),
                             awaiting |-> IF Advance(at, n) = Idle
                                          THEN Without(client.awaiting, at.msg.id)
                                          ELSE client.awaiting]
    /\ UNCHANGED <<to_daemon, closed, pc, back, ready, conn, rx, tx, tx_queue>>

Close ==
    /\ ~closed /\ closed' = TRUE
    /\ UNCHANGED <<to_daemon, to_client, pc, back, ready, conn, rx, tx, tx_queue, client>>

-----------------------------------------------------------------------------
(* The constructors: the daemon wants to read.                             *)
Init ==
    /\ to_daemon = <<>> /\ to_client = <<>> /\ closed = FALSE
    /\ pc = "idle" /\ back = "idle"
    /\ ready = [read |-> FALSE, write |-> FALSE, error |-> FALSE]
    /\ ev_read = TRUE /\ ev_write = FALSE
    /\ alive = TRUE /\ deaths = 0
    /\ rx = Start /\ tx = Idle /\ tx_queue = <<>>
    /\ client = [out |-> Idle, in |-> Idle, awaiting |-> <<>>]

Working == Recv \/ Handle \/ TxNext \/ Send
Daemon == Poll \/ Callback \/ Working \/ WatchEvent
Client == Request \/ ClientWrite \/ ClientRead \/ Close

Next == Daemon \/ Client

Spec == Init /\ [][Next]_vars

(* Polling and the callback get their turn in the event queue however many *)
(* watch events come between.  The client completes what it writes and     *)
(* reads what is there.                                                    *)
FairSpec ==
    /\ Spec
    /\ WF_vars(Working) /\ SF_vars(Poll) /\ SF_vars(Callback)
    /\ WF_vars(ClientWrite) /\ WF_vars(ClientRead)

-----------------------------------------------------------------------------
(* Properties.                                                             *)

Byte == [part : {"hdr", "body"}, n : Nat \ {0}, msg : Message]
At == [part : {"hdr", "body", "idle"}, bytes : Nat, msg : Message \cup {NoMessage}]

(* The types of the connection's state; no message on the wire is longer   *)
(* than the protocol allows, whatever an answer was to say (build_body).   *)
TypeOK ==
    /\ to_daemon \in Seq(Byte) /\ to_client \in Seq(Byte) /\ closed \in BOOLEAN
    /\ Len(to_daemon) <= SockBuf /\ Len(to_client) <= SockBuf
    /\ pc \in {"idle", "called", "rx", "tx"} /\ back \in {"idle", "called", "rx"}
    /\ ready \in [read : BOOLEAN, write : BOOLEAN, error : BOOLEAN]
    /\ ev_read \in BOOLEAN /\ ev_write \in BOOLEAN
    /\ alive \in BOOLEAN /\ deaths \in Nat
    /\ rx \in At /\ tx \in At
    /\ tx_queue \in Seq([kind : Kind, id : Id \cup {NoId}, len : Nat])
    /\ client \in [out : At, in : At, awaiting : Seq(Id)]

(* The bytes on their way continue, one by one, the message that their     *)
(* reader is at: nothing is lost, repeated or reordered by partial reads   *)
(* and writes, and the readers stay aligned with the messages.             *)
InOrder(pipe, s) ==
    /\ pipe # <<>> /\ s.bytes > 0 => Continues(pipe[1], s)
    /\ \A i \in 2 .. Len(pipe) : Continues(pipe[i], After(pipe[i - 1]))
BytesInOrder ==
    /\ InOrder(to_daemon, rx)
    /\ InOrder(to_client, IF client.in = Idle THEN Start ELSE client.in)

(* The identifiers of requests among ids, in their order.                  *)
Requests(ids) ==
    LET upto[n \in 0 .. Len(ids)] ==
            IF n = 0 THEN <<>>
            ELSE IF ids[n] \in Id THEN Append(upto[n - 1], ids[n]) ELSE upto[n - 1]
    IN  upto[Len(ids)]

(* What is on its way: messages whose last byte lies in a pipe, that are   *)
(* queued, that a position s is in, and that a reader s holds complete.    *)
Ending(pipe) == [i \in DOMAIN pipe |-> IF After(pipe[i]) = Idle THEN pipe[i].msg.id ELSE NoId]
Ids(msgs) == [i \in DOMAIN msgs |-> msgs[i].id]
In(s) == IF s = Idle THEN <<>> ELSE <<s.msg.id>>
Held(s) == IF s.part = "body" /\ s.bytes = 0 THEN <<s.msg.id>> ELSE <<>>

(* Every request the client waits for is, in the order they were sent,     *)
(* answered in the socket, in the answer being sent, in the queue, in the  *)
(* daemon's hands or still in the socket: none is dropped or answered      *)
(* twice, and no answer overtakes another, however reads and writes break  *)
(* off (process_rx, process_tx, handle_rx).                                *)
RequestsAccounted ==
    alive => client.awaiting =
        Requests(Ending(to_client) \o In(tx) \o Ids(tx_queue) \o Held(rx)
                    \o Ending(to_daemon) \o In(client.out))

(* Between events the daemon listens to its client, and asks to be called  *)
(* for writing exactly as long as a message is unfinished: no answer waits *)
(* in the queue that no callback will send, and an idle connection does    *)
(* not keep the daemon busy.                                               *)
InterestExact ==
    pc = "idle" /\ alive =>
        /\ ev_read
        /\ ev_write <=> tx # Idle
        /\ tx_queue # <<>> => ev_write

(* A connection is reported dead once, wherever it breaks: conn_dead queues *)
(* the deletion of the client.                                             *)
DiesOnce == deaths = (IF alive THEN 0 ELSE 1)

(* Every request is answered as long as the connection lives.              *)
RequestsAnswered ==
    \A id \in Id :
        id \in ToSet(client.awaiting) ~> closed \/ ~alive \/ id \notin ToSet(client.awaiting)

=============================================================================
