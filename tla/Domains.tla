------------------------------ MODULE Domains ------------------------------
(***************************************************************************)
(* The domains the daemon serves: they are introduced and released by      *)
(* request (xs_proto), lose their ring (domain, domain_mgr), and die on    *)
(* the host, which the virtual interrupt VIRQ_DOM_EXC tells the daemon     *)
(* (dom_exc).                                                              *)
(*                                                                         *)
(* The hypervisor runs while the daemon does, so the interrupt's callback  *)
(* has a program counter, with a step for every domain it asks about.  All *)
(* else the daemon does runs between two events of its queue.              *)
(***************************************************************************)
EXTENDS Integers, Sequences, FiniteSets

CONSTANTS
    Domid,     \* domain numbers
    MaxObjects \* bound: domain objects ever created

ASSUME DomainsAssumption == MaxObjects \in Nat

VARIABLES
    host,    \* the hypervisor's state of each domain number
    unsent,  \* numbers whose change the hypervisor has yet to announce
    virq,    \* the daemon's end of the interrupt
    domains, \* domain_mgr::domains; an object and its history
    created, \* history: objects created so far
    events,  \* the queue of the event manager
    exc,     \* dom_exc::alive
    pc,      \* where the callback of the interrupt is
    todo,    \* the domains its loop has yet to visit
    dead_list, dying_list,
    told     \* history: shutdowns announced, of each object

host_vars == <<host, unsent>>
callback == <<exc, pc, todo, dead_list, dying_list>>
vars == <<host, unsent, virq, domains, created, events, callback, told>>

-----------------------------------------------------------------------------
(* The hypervisor.                                                         *)

HostState == {"none", "running", "shutdown", "dying"}

(* xc_domain_getinfo finds another domain, or none, or one that is dying.  *)
HostDead(d) == host[d] \in {"none", "dying"}

(* What interrupts the daemon, and what does not.                          *)
Ends == {<<"running", "shutdown">>, <<"running", "dying">>,
         <<"shutdown", "dying">>, <<"dying", "none">>}
Starts == {<<"none", "running">>, <<"shutdown", "running">>}

-----------------------------------------------------------------------------
(* Domain objects.                                                         *)

(* id tells an object from the others that had its number; late: history,  *)
(* the domain had shut down before it was introduced.                      *)
Object == [id : 1 .. MaxObjects, alive : BOOLEAN, active : BOOLEAN, late : BOOLEAN]
NoObject == [id |-> 0, alive |-> FALSE, active |-> FALSE, late |-> FALSE]

Mapped(d) == domains[d] # NoObject
Known == {d \in Domid : Mapped(d)}

Without(ds) == [d \in Domid |-> IF d \in ds THEN NoObject ELSE domains[d]]

(* domain_dead is bound to the number; id is history.                      *)
Dead(d, i) == [kind |-> "dead", dom |-> d, id |-> i]
Poll == [kind |-> "poll"]
Virq == [kind |-> "virq"]

-----------------------------------------------------------------------------
(* The hypervisor runs on its own; it announces a change after making it.  *)

HostEnds(d) ==
    /\ d \notin unsent
    /\ \E s \in HostState : /\ <<host[d], s>> \in Ends
                            /\ host' = [host EXCEPT ![d] = s]
    /\ unsent' = unsent \cup {d}
    /\ domains' = [domains EXCEPT ![d].late = FALSE]
    /\ UNCHANGED <<virq, created, events, callback, told>>

HostStarts(d) ==
    /\ \E s \in HostState : /\ <<host[d], s>> \in Starts
                            /\ host' = [host EXCEPT ![d] = s]
    /\ domains' = [domains EXCEPT ![d].late = FALSE]
    /\ UNCHANGED <<unsent, virq, created, events, callback, told>>

(* While an interrupt waits to be fetched or is not unmasked yet, a        *)
(* further one only sets the pending bit.                                  *)
Interrupt(d) ==
    /\ d \in unsent
    /\ unsent' = unsent \ {d}
    /\ virq' = IF virq.masked THEN [virq EXCEPT !.pending = TRUE]
               ELSE [virq EXCEPT !.queued = TRUE, !.masked = TRUE]
    /\ UNCHANGED <<host, domains, created, events, callback, told>>

-----------------------------------------------------------------------------
(* Requests of other clients than the domain itself, and broken rings.     *)

(* op_introduce: the grant of a domain that is not there cannot be mapped. *)
Introduce(d) ==
    /\ pc = "idle"
    /\ ~Mapped(d) /\ ~HostDead(d)
    /\ created < MaxObjects
    /\ created' = created + 1
    /\ domains' = [domains EXCEPT ![d] =
          [id |-> created + 1, alive |-> TRUE, active |-> TRUE,
           late |-> host[d] = "shutdown"]]
    /\ UNCHANGED <<host_vars, virq, events, callback, told>>

(* op_release.                                                             *)
Release(d) ==
    /\ pc = "idle"
    /\ Mapped(d)
    /\ domains' = Without({d})
    /\ UNCHANGED <<host_vars, virq, created, events, callback, told>>

(* A faulty Breaks that deletes the object at once and its event with it.  *)
BreaksForgetting(d) ==
    /\ pc = "idle"
    /\ domains[d].alive
    /\ domains' = [domains EXCEPT ![d].alive = FALSE]
    /\ UNCHANGED <<host_vars, virq, created, events, callback, told>>

(* The ring of d breaks in one of the daemon's events: conn_dead.          *)
Breaks(d) ==
    /\ pc = "idle"
    /\ domains[d].alive
    /\ domains' = [domains EXCEPT ![d].alive = FALSE]
    /\ events' = Append(events, Dead(d, domains[d].id))
    /\ UNCHANGED <<host_vars, virq, created, callback, told>>

-----------------------------------------------------------------------------
(* The event queue.                                                        *)

RunNext(kind) == pc = "idle" /\ Head(events).kind = kind

(* epoll reports the interrupt while the handler is registered.            *)
RunPoll ==
    /\ RunNext("poll")
    /\ events' = Tail(events) \o (IF exc /\ virq.queued THEN <<Virq, Poll>> ELSE <<Poll>>)
    /\ UNCHANGED <<host_vars, virq, domains, created, callback, told>>

(* A faulty RunDead that takes the first domain there is.                  *)
RunDeadAny ==
    /\ RunNext("dead")
    /\ events' = Tail(events)
    /\ domains' = Without(Known)
    /\ UNCHANGED <<host_vars, virq, created, callback, told>>

(* domain_mgr::domain_dead: whatever has the number now is deleted.        *)
RunDead ==
    /\ RunNext("dead")
    /\ events' = Tail(events)
    /\ domains' = Without({Head(events).dom})
    /\ UNCHANGED <<host_vars, virq, created, callback, told>>

(* out_err: the lists are locals.                                          *)
Disabled == exc' = FALSE /\ pc' = "idle" /\ todo' = {} /\ dead_list' = {} /\ dying_list' = {}

(* A faulty RunVirq whose loop visits numbers that are not in the map.     *)
RunVirqAll ==
    /\ RunNext("virq")
    /\ events' = Tail(events)
    /\ pc' = "scan" /\ todo' = Domid
    /\ UNCHANGED <<host_vars, virq, domains, created, exc, dead_list, dying_list, told>>

(* dom_exc::callback begins; epoll may report an error on the channel.     *)
RunVirq ==
    /\ RunNext("virq")
    /\ events' = Tail(events)
    /\ \/ /\ exc /\ pc' = "scan" /\ todo' = Known
          /\ UNCHANGED <<exc, dead_list, dying_list>>
       \/ exc /\ Disabled
       \/ ~exc /\ UNCHANGED callback
    /\ UNCHANGED <<host_vars, virq, domains, created, told>>

-----------------------------------------------------------------------------
(* The callback.                                                           *)

(* A faulty Scan that does not remember that it found a domain shut down.  *)
ScanAgain(d) ==
    /\ pc = "scan" /\ d \in todo
    /\ todo' = todo \ {d}
    /\ IF HostDead(d)
       THEN dead_list' = dead_list \cup {d} /\ UNCHANGED dying_list
       ELSE /\ dying_list' = dying_list \cup (IF host[d] = "shutdown" THEN {d} ELSE {})
            /\ UNCHANGED dead_list
    /\ UNCHANGED <<host_vars, virq, domains, created, events, exc, pc, told>>

(* One turn of the loop: what xc_domain_getinfo says of d now.             *)
Scan(d) ==
    /\ pc = "scan" /\ d \in todo
    /\ todo' = todo \ {d}
    /\ IF HostDead(d)
       THEN dead_list' = dead_list \cup {d} /\ UNCHANGED <<domains, dying_list>>
       ELSE IF domains[d].active /\ host[d] = "shutdown"
       THEN /\ domains' = [domains EXCEPT ![d].active = FALSE]
            /\ dying_list' = dying_list \cup {d}
            /\ UNCHANGED dead_list
       ELSE UNCHANGED <<domains, dead_list, dying_list>>
    /\ UNCHANGED <<host_vars, virq, created, events, exc, pc, told>>

(* xc_domain_getinfo fails: the loop ends, and what it found is dropped.   *)
ScanFails ==
    /\ pc = "scan" /\ todo # {}
    /\ Disabled
    /\ UNCHANGED <<host_vars, virq, domains, created, events, told>>

(* The announcements of dying_list, in the history.                        *)
Announced ==
    told' = [i \in DOMAIN told |-> IF \E d \in dying_list : domains[d].id = i
                                   THEN told[i] + 1 ELSE told[i]]

(* A faulty ReleaseLists that does not delete the dead.                    *)
ReleaseListsOnly ==
    /\ pc = "scan" /\ todo = {}
    /\ Announced
    /\ dead_list' = {} /\ dying_list' = {}
    /\ pc' = "ack"
    /\ UNCHANGED <<host_vars, virq, domains, created, events, exc, todo>>

(* The dead are deleted; for each of them, and for each that shut down,    *)
(* @releaseDomain is fired.                                                *)
ReleaseLists ==
    /\ pc = "scan" /\ todo = {}
    /\ domains' = Without(dead_list)
    /\ Announced
    /\ dead_list' = {} /\ dying_list' = {}
    /\ pc' = "ack"
    /\ UNCHANGED <<host_vars, virq, created, events, exc, todo>>

(* xc_evtchn_pending fetches the interrupt that the poll reported.         *)
Ack ==
    /\ pc = "ack"
    /\ \/ /\ virq.queued
          /\ virq' = [virq EXCEPT !.queued = FALSE]
          /\ pc' = "unmask"
          /\ UNCHANGED <<exc, todo, dead_list, dying_list>>
       \/ Disabled /\ UNCHANGED virq
    /\ UNCHANGED <<host_vars, domains, created, events, told>>

(* A faulty Unmask that forgets what became pending.                       *)
UnmaskDropping ==
    /\ pc = "unmask"
    /\ virq' = [queued |-> FALSE, masked |-> FALSE, pending |-> FALSE]
    /\ pc' = "idle"
    /\ UNCHANGED <<host_vars, domains, created, events, exc, todo, dead_list, dying_list, told>>

(* xc_evtchn_unmask: what became pending meanwhile is delivered now.       *)
Unmask ==
    /\ pc = "unmask"
    /\ \/ /\ virq' = [queued |-> virq.pending, masked |-> virq.pending, pending |-> FALSE]
          /\ pc' = "idle"
          /\ UNCHANGED <<exc, todo, dead_list, dying_list>>
       \/ Disabled /\ UNCHANGED virq
    /\ UNCHANGED <<host_vars, domains, created, events, told>>

-----------------------------------------------------------------------------
Init ==
    /\ host \in [Domid -> {"none", "running"}]
    /\ unsent = {}
    /\ virq = [queued |-> FALSE, masked |-> FALSE, pending |-> FALSE]
    /\ domains = [d \in Domid |-> NoObject]
    /\ created = 0
    /\ events = <<Poll>>
    /\ exc = TRUE /\ pc = "idle"
    /\ todo = {} /\ dead_list = {} /\ dying_list = {}
    /\ told = [i \in 1 .. MaxObjects |-> 0]

Host == \E d \in Domid : HostEnds(d) \/ HostStarts(d) \/ Interrupt(d)
Clients == \E d \in Domid : Introduce(d) \/ Release(d) \/ Breaks(d)
Run == RunPoll \/ RunDead \/ RunVirq
Callback == (\E d \in Domid : Scan(d)) \/ ScanFails \/ ReleaseLists \/ Ack \/ Unmask

Next == Host \/ Clients \/ Run \/ Callback

Spec == Init /\ [][Next]_vars

(* The hypervisor interrupts, and the daemon goes on.                      *)
FairSpec ==
    /\ Spec
    /\ \A d \in Domid : WF_vars(Interrupt(d))
    /\ WF_vars(Run) /\ WF_vars(Callback)

-----------------------------------------------------------------------------
(* Properties.                                                             *)

Event == [kind : {"dead"}, dom : Domid, id : 1 .. MaxObjects] \cup {Poll, Virq}

(* The types of the state of domain_mgr, domain and dom_exc; the loop of   *)
(* the callback and its lists stay within the map, and one poll is queued. *)
TypeOK ==
    /\ host \in [Domid -> HostState] /\ unsent \subseteq Domid
    /\ virq \in [queued : BOOLEAN, masked : BOOLEAN, pending : BOOLEAN]
    /\ domains \in [Domid -> Object \cup {NoObject}]
    /\ created \in 0 .. MaxObjects
    /\ events \in Seq(Event)
    /\ exc \in BOOLEAN /\ pc \in {"idle", "scan", "ack", "unmask"}
    /\ todo \subseteq Domid /\ dead_list \subseteq Domid /\ dying_list \subseteq Domid
    /\ told \in [1 .. MaxObjects -> Nat]
    /\ todo \cup dead_list \cup dying_list \subseteq Known
    /\ \E k \in DOMAIN events : \A j \in DOMAIN events : events[j] = Poll <=> j = k

(* What the handler is there for: a domain the daemon serves that is dead  *)
(* on the host, or shut down and not yet announced.                        *)
Due(d) ==
    /\ Mapped(d)
    /\ HostDead(d) \/ (host[d] = "shutdown" /\ domains[d].active /\ ~domains[d].late)

(* No end of a domain is missed, whenever it comes: before the scan asks   *)
(* about the domain, after that, or between the fetching of the interrupt  *)
(* and its unmasking (dom_exc.cc:102-140).  Between events an interrupt    *)
(* waits, or is about to come, as long as something is due.                *)
NothingMissed ==
    pc = "idle" /\ exc => \A d \in Domid : Due(d) => d \in unsent \/ virq.queued

(* A domain whose ring broke is going to be deleted, by exactly one event  *)
(* of its own (domain.cc:103), and no event is queued for one that lives.  *)
BrokenWillGo ==
    /\ \A d \in Domid : Mapped(d) /\ ~domains[d].alive =>
          \E k \in DOMAIN events : events[k] = Dead(d, domains[d].id)
    /\ \A d \in Domid : \A k \in DOMAIN events :
          events[k] = Dead(d, domains[d].id) => ~domains[d].alive
    /\ \A j, k \in DOMAIN events :
          events[j].kind = "dead" /\ events[j] = events[k] => j = k

(* The shutdown of a domain is announced once, however many interrupts and *)
(* scans find it shut down (dom_exc.cc:115).                               *)
ShutdownToldOnce ==
    /\ \A i \in DOMAIN told : told[i] <= 1
    /\ \A d \in Domid : Mapped(d) /\ domains[d].active => told[domains[d].id] = 0

(* A domain is only removed on request, or because it was found dead, or   *)
(* because a ring broke: its own, or (domain_dead knows but the number,    *)
(* domain_mgr.cc:122) that of an earlier domain with its number that was   *)
(* removed before its event ran.                                           *)
RemovedForCause ==
    [][\A d \in Domid : Mapped(d) /\ domains'[d].id # domains[d].id =>
          \/ Release(d)
          \/ ReleaseLists /\ d \in dead_list
          \/ \E i \in 1 .. domains[d].id : RunDead /\ Head(events) = Dead(d, i)]_vars

(* A domain that ends is removed or its shutdown is announced, unless the  *)
(* hypervisor starts it again first, or an error has switched the handler  *)
(* off (for good: dom_exc.cc:147).                                         *)
EndsAreNoticed == \A d \in Domid : Due(d) ~> ~Due(d) \/ ~exc

=============================================================================
