---------------------------- MODULE MCRingConn ----------------------------
(* Small instances of RingConn for TLC.                                    *)
EXTENDS RingConn

(* What later steps depend on: the unread part of the rings, the message a *)
(* reader is in the middle of, and those variables of the daemon that it   *)
(* will look at again before it sets them.                                 *)
UnreadView(r) ==
    <<r.prod, r.cons, [i \in 1 .. Used(r) |-> r.data[Mask(r.cons + i - 1)]]>>
RxView == IF rx.part = "hdr" /\ rx.bytes = HdrLen THEN "start" ELSE rx
View ==
    <<UnreadView(req), UnreadView(rsp), evtchn, pc,
      IF pc \in {"tx", "tx2", "tx_done"} THEN back ELSE "none",
      IF pc = "idle" THEN "none" ELSE ready,
      IF pc \in {"rx2", "rx_done", "tx2", "tx_done"} THEN notify ELSE FALSE,
      conn, RxView, tx, tx_queue, guest>>

=============================================================================
