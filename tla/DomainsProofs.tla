---------------------------- MODULE DomainsProofs ----------------------------
(* Machine-checked proofs about Domains, for any set of domain numbers and *)
(* any number of domain objects.                                           *)
EXTENDS Domains, SequenceTheorems, TLAPS

(* What holds of the callback's locals: its lists exist while it scans.    *)
Locals == pc # "scan" => todo = {} /\ dead_list = {} /\ dying_list = {}

Typed == TypeOK /\ Locals

-----------------------------------------------------------------------------
(* Domain objects.                                                         *)

LEMMA NoObjectIsNone == NoObject \notin Object
  BY DomainsAssumption DEF NoObject, Object

LEMMA WithoutType ==
    ASSUME TypeOK, NEW ds
    PROVE  /\ Without(ds) \in [Domid -> Object \cup {NoObject}]
           /\ \A d \in Domid : Without(ds)[d] = IF d \in ds THEN NoObject ELSE domains[d]
  BY DEF TypeOK, Without

(* One field of an object changes, if there is one.                        *)
LEMMA FieldType ==
    ASSUME TypeOK, NEW d \in Domid, Mapped(d), NEW b \in BOOLEAN
    PROVE  /\ [domains EXCEPT ![d].active = b] \in [Domid -> Object \cup {NoObject}]
           /\ [domains EXCEPT ![d].alive = b] \in [Domid -> Object \cup {NoObject}]
           /\ [domains EXCEPT ![d].late = b] \in [Domid -> Object \cup {NoObject}]
           /\ [domains EXCEPT ![d].active = b][d] # NoObject
           /\ [domains EXCEPT ![d].alive = b][d] # NoObject
           /\ [domains EXCEPT ![d].late = b][d] # NoObject
<1>1. domains \in [Domid -> Object \cup {NoObject}] /\ domains[d] \in Object
    BY DEF TypeOK, Mapped
<1>2. /\ [domains[d] EXCEPT !.active = b] \in Object
      /\ [domains[d] EXCEPT !.alive = b] \in Object
      /\ [domains[d] EXCEPT !.late = b] \in Object
    BY <1>1 DEF Object
<1> QED
    BY <1>1, <1>2, NoObjectIsNone

(* The hypervisor's steps end the history late, of a mapped domain.        *)
LEMMA LateType ==
    ASSUME TypeOK, NEW d \in Domid
    PROVE  /\ [domains EXCEPT ![d].late = FALSE] \in [Domid -> Object \cup {NoObject}]
           /\ \A e \in Domid :
                 LET o == [domains EXCEPT ![d].late = FALSE][e]
                 IN  /\ o # NoObject <=> Mapped(e)
                     /\ o.id = domains[e].id /\ o.alive = domains[e].alive
                     /\ o.active = domains[e].active
                     /\ o.late = IF e = d THEN FALSE ELSE domains[e].late
<1>1. domains \in [Domid -> Object \cup {NoObject}]
    BY DEF TypeOK
<1>2. CASE Mapped(d)
  <2>1. domains[d] \in Object
      BY <1>1, <1>2 DEF Mapped
  <2>2. [domains[d] EXCEPT !.late = FALSE] \in Object
      BY <2>1 DEF Object
  <2>3. [domains[d] EXCEPT !.late = FALSE] # NoObject
      BY <2>2, NoObjectIsNone
  <2>4. LET o == [domains[d] EXCEPT !.late = FALSE]
        IN  o.id = domains[d].id /\ o.alive = domains[d].alive
            /\ o.active = domains[d].active /\ o.late = FALSE
      BY <2>1 DEF Object
  <2>5. [domains EXCEPT ![d].late = FALSE] \in [Domid -> Object \cup {NoObject}]
      BY <1>1, <2>2
  <2>6. [domains EXCEPT ![d].late = FALSE][d] = [domains[d] EXCEPT !.late = FALSE]
      BY <1>1
  <2>7. \A e \in Domid : e # d => [domains EXCEPT ![d].late = FALSE][e] = domains[e]
      BY <1>1
  <2> QED
      BY <1>2, <2>3, <2>4, <2>5, <2>6, <2>7 DEF Mapped
<1>3. CASE ~Mapped(d)
  <2>1. [domains[d] EXCEPT !.late = FALSE] = domains[d] /\ domains[d].late = FALSE
    <3>1. [NoObject EXCEPT !.late = FALSE] = NoObject /\ NoObject.late = FALSE
      <4> DEFINE R == [id : Int, alive : BOOLEAN, active : BOOLEAN, late : BOOLEAN]
                 o == NoObject
      <4>1. o \in R /\ o.late = FALSE
          BY DEF NoObject
      <4> HIDE DEF o
      <4>2. [o EXCEPT !.late = FALSE] = o
          BY <4>1
      <4> QED
          BY <4>1, <4>2 DEF o
    <3> QED
        BY <1>3, <3>1 DEF Mapped
  <2>2. [domains EXCEPT ![d].late = FALSE] = domains
      BY <1>1, <2>1
  <2> QED
      BY <1>1, <2>1, <2>2 DEF Mapped
<1> QED
    BY <1>2, <1>3

-----------------------------------------------------------------------------
(* The event queue.                                                        *)

OnePoll(q) == \E k \in DOMAIN q : \A j \in DOMAIN q : q[j] = Poll <=> j = k

LEMMA Kinds == \A d, i : Dead(d, i) # Poll /\ Dead(d, i) # Virq /\ Poll # Virq
<1>1. \A d, i : Dead(d, i).kind = "dead"
    BY DEF Dead
<1>2. Poll.kind = "poll" /\ Virq.kind = "virq"
    BY DEF Poll, Virq
<1> QED
    BY <1>1, <1>2

(* The queue is never empty; its head is told by its kind.                 *)
LEMMA QueueHead ==
    ASSUME TypeOK
    PROVE  /\ events # <<>> /\ Len(events) > 0 /\ Head(events) = events[1]
           /\ Head(events) \in Event
           /\ Tail(events) \in Seq(Event)
           /\ Head(events).kind = "poll" => Head(events) = Poll
           /\ Head(events).kind = "virq" => Head(events) = Virq
           /\ Head(events).kind = "dead" =>
                 /\ Head(events).dom \in Domid
                 /\ Head(events).id \in 1 .. MaxObjects
                 /\ Head(events) = Dead(Head(events).dom, Head(events).id)
                 /\ Head(events) # Poll /\ Head(events) # Virq
<1>1. events \in Seq(Event) /\ \E k \in DOMAIN events : TRUE
    BY DEF TypeOK
<1>2. Len(events) > 0 /\ events # <<>> /\ Head(events) = events[1]
    BY <1>1
<1>3. Head(events) \in Event /\ Tail(events) \in Seq(Event)
    BY <1>1, <1>2
<1>4. \A e \in Event : /\ e.kind = "poll" => e = Poll
                       /\ e.kind = "virq" => e = Virq
                       /\ e.kind = "dead" => /\ e.dom \in Domid /\ e.id \in 1 .. MaxObjects
                                             /\ e = Dead(e.dom, e.id)
                                             /\ e # Poll /\ e # Virq
    BY DEF Event, Poll, Virq, Dead
<1> QED
    BY <1>2, <1>3, <1>4

LEMMA PollLast ==
    ASSUME NEW s \in Seq(Event), NEW q \in Seq(Event), Len(q) > 0,
           \A j \in 1 .. Len(s) : s[j] # Poll,
           \A j \in 1 .. Len(q) : q[j] = Poll <=> j = Len(q)
    PROVE  s \o q \in Seq(Event) /\ OnePoll(s \o q)
<1>1. /\ s \o q \in Seq(Event) /\ Len(s \o q) = Len(s) + Len(q)
      /\ \A i \in 1 .. Len(s) + Len(q) :
            (s \o q)[i] = IF i <= Len(s) THEN s[i] ELSE q[i - Len(s)]
    BY ConcatProperties
<1>2. DOMAIN (s \o q) = 1 .. Len(s) + Len(q) /\ Len(s) \in Nat /\ Len(q) \in Nat
    BY <1>1
<1>3. Len(s) + Len(q) \in DOMAIN (s \o q)
    BY <1>2
<1>4. ASSUME NEW j \in DOMAIN (s \o q)
      PROVE  (s \o q)[j] = Poll <=> j = Len(s) + Len(q)
  <2>1. CASE j <= Len(s)
      BY <1>1, <1>2, <2>1
  <2>2. CASE j > Len(s)
      BY <1>1, <1>2, <2>2
  <2> QED
      BY <1>2, <2>1, <2>2
<1> QED
    BY <1>1, <1>3, <1>4 DEF OnePoll

LEMMA PollLeaves ==
    ASSUME TypeOK, Head(events) = Poll, NEW q \in {<<Poll>>, <<Virq, Poll>>}
    PROVE  Tail(events) \o q \in Seq(Event) /\ OnePoll(Tail(events) \o q)
<1>1. /\ events \in Seq(Event) /\ Len(events) > 0 /\ events[1] = Poll
      /\ Tail(events) \in Seq(Event)
    BY QueueHead DEF TypeOK
<1>2. \A j \in 2 .. Len(events) : events[j] # Poll
    BY <1>1 DEF TypeOK
<1>3. \A j \in 1 .. Len(Tail(events)) : Tail(events)[j] # Poll
    BY <1>1, <1>2
<1>4. /\ q \in Seq(Event) /\ Len(q) > 0
      /\ \A j \in 1 .. Len(q) : q[j] = Poll <=> j = Len(q)
  <2>1. Poll \in Event /\ Virq \in Event /\ Poll # Virq
      BY Kinds DEF Event
  <2>2. CASE q = <<Poll>>
      BY <2>1, <2>2
  <2>3. CASE q = <<Virq, Poll>>
      BY <2>1, <2>3
  <2> QED
      BY <2>2, <2>3
<1> HIDE DEF TypeOK
<1> DEFINE t == Tail(events)
<1>5. t \in Seq(Event) /\ \A j \in 1 .. Len(t) : t[j] # Poll
    BY <1>1, <1>3
<1> HIDE DEF t
<1>6. t \o q \in Seq(Event) /\ OnePoll(t \o q)
    BY <1>4, <1>5, PollLast
<1> QED
    BY <1>6 DEF t

LEMMA OtherLeaves ==
    ASSUME TypeOK, Head(events) # Poll
    PROVE  Tail(events) \in Seq(Event) /\ OnePoll(Tail(events))
<1>1. /\ events \in Seq(Event) /\ Len(events) > 0 /\ events[1] # Poll
      /\ Tail(events) \in Seq(Event)
    BY QueueHead
<1>2. PICK k \in DOMAIN events : \A j \in DOMAIN events : events[j] = Poll <=> j = k
    BY DEF TypeOK
<1>3. k - 1 \in DOMAIN Tail(events)
    BY <1>1, <1>2
<1>4. \A j \in DOMAIN Tail(events) : j + 1 \in DOMAIN events /\ Tail(events)[j] = events[j + 1]
    BY <1>1
<1>5. \A j \in DOMAIN Tail(events) : Tail(events)[j] = Poll <=> j = k - 1
    BY <1>1, <1>2, <1>4
<1> QED
    BY <1>1, <1>3, <1>5 DEF OnePoll

LEMMA DeadJoins ==
    ASSUME TypeOK, NEW e \in Event, e # Poll
    PROVE  Append(events, e) \in Seq(Event) /\ OnePoll(Append(events, e))
<1>1. events \in Seq(Event)
    BY DEF TypeOK
<1>2. PICK k \in DOMAIN events : \A j \in DOMAIN events : events[j] = Poll <=> j = k
    BY DEF TypeOK
<1>3. k \in DOMAIN Append(events, e)
    BY <1>1, <1>2
<1>4. \A j \in DOMAIN Append(events, e) : Append(events, e)[j] = Poll <=> j = k
    BY <1>1, <1>2
<1> QED
    BY <1>1, <1>3, <1>4 DEF OnePoll

-----------------------------------------------------------------------------
(* The types.                                                              *)

(* What a step that leaves an aspect of the state alone, or the hypervisor *)
(* with its history late, keeps of the types.                              *)
LEMMA TypedByParts ==
    ASSUME Typed,
           host' \in [Domid -> HostState], unsent' \subseteq Domid,
           virq' \in [queued : BOOLEAN, masked : BOOLEAN, pending : BOOLEAN],
           domains' \in [Domid -> Object \cup {NoObject}],
           created' \in 0 .. MaxObjects,
           events' \in Seq(Event), OnePoll(events'),
           exc' \in BOOLEAN, pc' \in {"idle", "scan", "ack", "unmask"},
           todo' \cup dead_list' \cup dying_list' \subseteq Known',
           told' \in [1 .. MaxObjects -> Nat],
           Locals'
    PROVE  Typed'
<1>1. todo' \subseteq Domid /\ dead_list' \subseteq Domid /\ dying_list' \subseteq Domid
    BY DEF Known
<1> QED
    BY <1>1 DEF Typed, TypeOK, OnePoll

(* No locals outside the scan: the map may change then.                    *)
LEMMA NoLocals == Locals' /\ pc' # "scan" => todo' \cup dead_list' \cup dying_list' \subseteq Known'
  BY DEF Locals

LEMMA TypedUnfolded ==
    ASSUME Typed
    PROVE  /\ host \in [Domid -> HostState] /\ unsent \subseteq Domid
           /\ virq \in [queued : BOOLEAN, masked : BOOLEAN, pending : BOOLEAN]
           /\ domains \in [Domid -> Object \cup {NoObject}]
           /\ created \in 0 .. MaxObjects
           /\ events \in Seq(Event) /\ OnePoll(events)
           /\ exc \in BOOLEAN /\ pc \in {"idle", "scan", "ack", "unmask"}
           /\ todo \cup dead_list \cup dying_list \subseteq Known
           /\ told \in [1 .. MaxObjects -> Nat]
           /\ Locals
  BY DEF Typed, TypeOK, OnePoll

LEMMA TypedHost ==
    ASSUME Typed, NEW d \in Domid, HostEnds(d) \/ HostStarts(d)
    PROVE  Typed'
<1> USE TypedUnfolded
<1>1. TypeOK
    BY DEF Typed
<1>2. domains' = [domains EXCEPT ![d].late = FALSE]
    BY DEF HostEnds, HostStarts
<1>3. domains' \in [Domid -> Object \cup {NoObject}] /\ Known' = Known
    BY <1>1, <1>2, LateType DEF Known, Mapped
<1>4. host' \in [Domid -> HostState] /\ unsent' \subseteq Domid
    BY DEF HostEnds, HostStarts, HostState
<1>5. UNCHANGED <<virq, created, events, callback, told>>
    BY DEF HostEnds, HostStarts
<1> QED
    BY <1>3, <1>4, <1>5, TypedByParts DEF callback, Locals

LEMMA TypedInterrupt ==
    ASSUME Typed, NEW d \in Domid, Interrupt(d)
    PROVE  Typed'
<1> USE TypedUnfolded
<1>1. unsent' \subseteq Domid /\ virq' \in [queued : BOOLEAN, masked : BOOLEAN, pending : BOOLEAN]
    BY DEF Interrupt
<1>2. UNCHANGED <<host, domains, created, events, callback, told>>
    BY DEF Interrupt
<1> QED
    BY <1>1, <1>2, TypedByParts DEF callback, Locals, Known, Mapped

LEMMA TypedClients ==
    ASSUME Typed, NEW d \in Domid, Introduce(d) \/ Release(d) \/ Breaks(d)
    PROVE  Typed'
<1> USE TypedUnfolded
<1>1. TypeOK /\ pc = "idle"
    BY DEF Typed, Introduce, Release, Breaks
<1>2. UNCHANGED <<host_vars, virq, callback, told>>
    BY DEF Introduce, Release, Breaks
<1>3. domains' \in [Domid -> Object \cup {NoObject}] /\ created' \in 0 .. MaxObjects
  <2>1. CASE Introduce(d)
    <3>1. created + 1 \in 1 .. MaxObjects
        BY <2>1, DomainsAssumption DEF Introduce
    <3>2. [id |-> created + 1, alive |-> TRUE, active |-> TRUE,
           late |-> host[d] = "shutdown"] \in Object
        BY <3>1 DEF Object
    <3> QED
        BY <2>1, <3>1, <3>2 DEF Introduce
  <2>2. CASE Release(d)
      BY <1>1, <2>2, WithoutType DEF Release
  <2>3. CASE Breaks(d)
    <3>1. Mapped(d)
        BY <2>3 DEF Breaks, Mapped, NoObject
    <3> QED
        BY <1>1, <2>3, <3>1, FieldType DEF Breaks
  <2> QED
      BY <2>1, <2>2, <2>3
<1>4. events' \in Seq(Event) /\ OnePoll(events')
  <2>1. CASE Breaks(d)
    <3>1. domains[d] \in Object
        BY <2>1 DEF Breaks, NoObject
    <3>2. Dead(d, domains[d].id) \in Event
        BY <3>1 DEF Dead, Event, Object
    <3> QED
        BY <1>1, <2>1, <3>2, DeadJoins, Kinds DEF Breaks
  <2>2. CASE ~Breaks(d)
      BY <2>2 DEF Introduce, Release
  <2> QED
      BY <2>1, <2>2
<1>5. Locals' /\ pc' # "scan"
    BY <1>1, <1>2 DEF Locals, callback
<1> QED
    BY <1>2, <1>3, <1>4, <1>5, NoLocals, TypedByParts DEF host_vars, callback

LEMMA TypedRun ==
    ASSUME Typed, Run
    PROVE  Typed'
<1> USE TypedUnfolded
<1>1. TypeOK /\ pc = "idle"
    BY DEF Typed, Run, RunPoll, RunDead, RunVirq, RunNext
<1>2. CASE RunPoll
  <2>1. Head(events) = Poll
      BY <1>1, <1>2, QueueHead DEF RunPoll, RunNext
  <2>2. events' \in Seq(Event) /\ OnePoll(events')
      BY <1>1, <1>2, <2>1, PollLeaves DEF RunPoll
  <2> QED
      BY <1>2, <2>2, TypedByParts DEF RunPoll, host_vars, callback, Locals, Known, Mapped
<1>3. CASE RunDead
  <2>1. Head(events) # Poll
      BY <1>1, <1>3, QueueHead DEF RunDead, RunNext
  <2>2. events' \in Seq(Event) /\ OnePoll(events')
      BY <1>1, <1>3, <2>1, OtherLeaves DEF RunDead
  <2>3. domains' \in [Domid -> Object \cup {NoObject}]
      BY <1>1, <1>3, WithoutType DEF RunDead
  <2>4. Locals' /\ pc' # "scan"
      BY <1>1, <1>3 DEF RunDead, callback, Locals
  <2> QED
      BY <1>3, <2>2, <2>3, <2>4, NoLocals, TypedByParts DEF RunDead, host_vars, callback
<1>4. CASE RunVirq
  <2>1. Head(events) # Poll
      BY <1>1, <1>4, QueueHead, Kinds DEF RunVirq, RunNext
  <2>2. events' \in Seq(Event) /\ OnePoll(events')
      BY <1>1, <1>4, <2>1, OtherLeaves DEF RunVirq
  <2>3. UNCHANGED <<host_vars, virq, domains, created, told>> /\ Known' = Known
      BY <1>4 DEF RunVirq, Known, Mapped
  <2>4. /\ exc' \in BOOLEAN /\ pc' \in {"idle", "scan", "ack", "unmask"} /\ Locals'
        /\ todo' \cup dead_list' \cup dying_list' \subseteq Known
      BY <1>1, <1>4 DEF RunVirq, Disabled, callback, Locals
  <2> QED
      BY <2>2, <2>3, <2>4, TypedByParts DEF host_vars
<1> QED
    BY <1>2, <1>3, <1>4 DEF Run

LEMMA AnnouncedType ==
    ASSUME Typed, Announced
    PROVE  /\ told' \in [1 .. MaxObjects -> Nat]
           /\ \A i \in 1 .. MaxObjects :
                 told'[i] = IF \E d \in dying_list : domains[d].id = i
                            THEN told[i] + 1 ELSE told[i]
<1> told \in [1 .. MaxObjects -> Nat]
    BY TypedUnfolded
<1> QED
    BY DEF Announced

(* A turn of the loop changes at most the flag active of its domain.       *)
LEMMA ScanObjects ==
    ASSUME Typed, NEW d \in Domid, Scan(d)
    PROVE  /\ domains' \in [Domid -> Object \cup {NoObject}]
           /\ Known' = Known
           /\ \A e \in Domid :
                 /\ domains'[e].id = domains[e].id /\ domains'[e].alive = domains[e].alive
                 /\ domains'[e].late = domains[e].late
                 /\ domains'[e].active => domains[e].active
                 /\ e # d => domains'[e] = domains[e]
<1> USE TypedUnfolded
<1>1. CASE ~HostDead(d) /\ domains[d].active /\ host[d] = "shutdown"
  <2>1. domains' = [domains EXCEPT ![d].active = FALSE]
      BY <1>1 DEF Scan
  <2>2. Mapped(d) /\ domains[d] \in Object /\ TypeOK
      BY DEF Scan, Known, Mapped, Typed
  <2>3. /\ [domains[d] EXCEPT !.active = FALSE].id = domains[d].id
        /\ [domains[d] EXCEPT !.active = FALSE].alive = domains[d].alive
        /\ [domains[d] EXCEPT !.active = FALSE].late = domains[d].late
        /\ [domains[d] EXCEPT !.active = FALSE].active = FALSE
      BY <2>2 DEF Object
  <2>4. /\ domains' \in [Domid -> Object \cup {NoObject}]
        /\ domains'[d] = [domains[d] EXCEPT !.active = FALSE] /\ domains'[d] # NoObject
        /\ \A e \in Domid : e # d => domains'[e] = domains[e]
      BY <2>1, <2>2, FieldType
  <2> QED
      BY <2>2, <2>3, <2>4 DEF Known, Mapped
<1>2. CASE ~(~HostDead(d) /\ domains[d].active /\ host[d] = "shutdown")
  <2>1. domains' = domains
      BY <1>2 DEF Scan
  <2> QED
      BY <2>1 DEF Known, Mapped
<1> QED
    BY <1>1, <1>2

LEMMA TypedCallback ==
    ASSUME Typed, Callback
    PROVE  Typed'
<1> USE TypedUnfolded
<1>1. ASSUME NEW d \in Domid, Scan(d)
      PROVE  Typed'
  <2>1. domains' \in [Domid -> Object \cup {NoObject}] /\ Known' = Known
      BY <1>1, ScanObjects
  <2>2. UNCHANGED <<host_vars, virq, created, events, exc, pc, told>>
      BY <1>1 DEF Scan
  <2>3. todo' \cup dead_list' \cup dying_list' \subseteq Known /\ pc = "scan"
      BY <1>1 DEF Scan
  <2> QED
      BY <2>1, <2>2, <2>3, TypedByParts DEF host_vars, Locals
<1>2. CASE ScanFails
    BY <1>2, TypedByParts DEF ScanFails, Disabled, host_vars, Locals
<1>3. CASE ReleaseLists
  <2>1. domains' \in [Domid -> Object \cup {NoObject}]
      BY <1>3, WithoutType DEF ReleaseLists, Typed
  <2>2. told' \in [1 .. MaxObjects -> Nat]
      BY <1>3, AnnouncedType DEF ReleaseLists
  <2> QED
      BY <1>3, <2>1, <2>2, TypedByParts DEF ReleaseLists, host_vars, Locals
<1>4. CASE Ack
    BY <1>4, TypedByParts DEF Ack, Disabled, host_vars, Locals, Known, Mapped
<1>5. CASE Unmask
  <2>1. virq' \in [queued : BOOLEAN, masked : BOOLEAN, pending : BOOLEAN]
    <3>1. virq.pending \in BOOLEAN
        OBVIOUS
    <3>2. [queued |-> virq.pending, masked |-> virq.pending, pending |-> FALSE]
             \in [queued : BOOLEAN, masked : BOOLEAN, pending : BOOLEAN]
        BY <3>1
    <3> QED
        BY <1>5, <3>2 DEF Unmask
  <2> QED
      BY <1>5, <2>1, TypedByParts DEF Unmask, Disabled, host_vars, Locals, Known, Mapped
<1> QED
    BY <1>1, <1>2, <1>3, <1>4, <1>5 DEF Callback

LEMMA TypedInit == Init => Typed
<1> SUFFICES ASSUME Init PROVE Typed
    OBVIOUS
<1>1. events \in Seq(Event) /\ OnePoll(events)
  <2>1. Poll \in Event
      BY DEF Event
  <2> QED
      BY <2>1 DEF Init, OnePoll
<1>2. /\ host \in [Domid -> HostState]
      /\ domains \in [Domid -> Object \cup {NoObject}]
      /\ created \in 0 .. MaxObjects /\ told \in [1 .. MaxObjects -> Nat]
    BY DomainsAssumption DEF Init, HostState
<1> QED
    BY <1>1, <1>2 DEF Init, Typed, TypeOK, OnePoll, Locals

LEMMA TypedNext == Typed /\ [Next]_vars => Typed'
<1> SUFFICES ASSUME Typed, [Next]_vars PROVE Typed'
    OBVIOUS
<1>1. CASE Host
    BY <1>1, TypedHost, TypedInterrupt DEF Host
<1>2. CASE Clients
    BY <1>2, TypedClients DEF Clients
<1>3. CASE Run
    BY <1>3, TypedRun
<1>4. CASE Callback
    BY <1>4, TypedCallback
<1>5. CASE UNCHANGED vars
    BY <1>5 DEF vars, host_vars, callback, Typed, TypeOK, Locals, Known, Mapped
<1> QED
    BY <1>1, <1>2, <1>3, <1>4, <1>5 DEF Next

(* The state of domain_mgr, domain and dom_exc keeps its types: the loop   *)
(* of the callback and its lists stay within the map of domains, and one   *)
(* poll of epoll is queued at any time.                                    *)
THEOREM TypeCorrect == Spec => []TypeOK
<1>1. Typed => TypeOK
    BY DEF Typed
<1> QED
    BY TypedInit, TypedNext, <1>1, PTL DEF Spec

-----------------------------------------------------------------------------
(* No end is missed.                                                       *)

(* At most one interrupt is reported in the queue, ahead of the poll.      *)
NoVirq(q) == \A k \in DOMAIN q : q[k] # Virq
VirqFirst(q) ==
    \A j, k \in DOMAIN q : q[j] = Virq => /\ q[k] = Virq => j = k
                                          /\ q[k] = Poll => j < k

(* As long as the handler works, the interrupt is masked from its arrival  *)
(* to the unmasking, and only then; an interrupt that is reported or being *)
(* handled is the masked one.                                              *)
Armed ==
    exc => /\ virq.queued => virq.masked
           /\ pc = "idle" /\ virq.masked => virq.queued
           /\ pc # "idle" => virq.masked /\ NoVirq(events)
           /\ NoVirq(events) \/ virq.masked
           /\ VirqFirst(events)

(* What is due is going to be announced, or the interrupt waits, or it is  *)
(* pending behind the one being handled, or the loop will come to it, or   *)
(* has found it.                                                           *)
Waiting(d) ==
    \/ d \in unsent
    \/ IF pc = "idle" THEN virq.queued ELSE virq.pending
    \/ d \in todo \cup dead_list
Noticed == exc => \A d \in Domid : Due(d) => Waiting(d)

Watchful == Typed /\ Armed /\ Noticed

LEMMA WatchfulImplies == Watchful => NothingMissed
<1> SUFFICES ASSUME Watchful, pc = "idle", exc, NEW d \in Domid, Due(d)
             PROVE  d \in unsent \/ virq.queued
    BY DEF NothingMissed
<1> QED
    BY TypedUnfolded DEF Watchful, Noticed, Waiting, Locals

(* The queue while the poll, an interrupt or another event runs.           *)
LEMMA VirqQueue ==
    ASSUME TypeOK, VirqFirst(events)
    PROVE  /\ Head(events) = Poll =>
                 /\ NoVirq(Tail(events) \o <<Poll>>)
                 /\ VirqFirst(Tail(events) \o <<Poll>>)
                 /\ VirqFirst(Tail(events) \o <<Virq, Poll>>)
           /\ Head(events) = Virq => NoVirq(Tail(events))
           /\ VirqFirst(Tail(events))
           /\ NoVirq(events) => NoVirq(Tail(events))
<1>1. /\ events \in Seq(Event) /\ Len(events) > 0 /\ Head(events) = events[1]
      /\ Tail(events) \in Seq(Event)
    BY QueueHead DEF TypeOK
<1>2. Len(Tail(events)) \in Nat /\ Len(Tail(events)) = Len(events) - 1
    BY <1>1
<1>3. \A j \in DOMAIN Tail(events) : j + 1 \in DOMAIN events /\ Tail(events)[j] = events[j + 1]
    BY <1>1
<1>4. VirqFirst(Tail(events))
    BY <1>1, <1>2, <1>3 DEF VirqFirst
<1>5. Head(events) = Virq => NoVirq(Tail(events))
    BY <1>1, <1>2, <1>3 DEF VirqFirst, NoVirq
<1>6. NoVirq(events) => NoVirq(Tail(events))
    BY <1>3 DEF NoVirq
<1>7. ASSUME Head(events) = Poll
      PROVE  NoVirq(Tail(events)) /\ \A j \in DOMAIN Tail(events) : Tail(events)[j] # Poll
  <2>1. \A j \in DOMAIN events : events[j] # Virq
      BY <1>1, <1>7 DEF VirqFirst
  <2>2. \A j \in DOMAIN events : events[j] = Poll => j = 1
      BY <1>1, <1>7 DEF TypeOK
  <2> QED
      BY <1>1, <1>2, <1>3, <2>1, <2>2 DEF NoVirq
<1>8. ASSUME NEW s \in Seq(Event), NoVirq(s), \A j \in DOMAIN s : s[j] # Poll
      PROVE  NoVirq(s \o <<Poll>>) /\ VirqFirst(s \o <<Poll>>) /\ VirqFirst(s \o <<Virq, Poll>>)
  <2>1. Poll # Virq /\ Poll \in Event /\ Virq \in Event
      BY Kinds DEF Event
  <2>2. /\ <<Poll>> \in Seq(Event) /\ Len(<<Poll>>) = 1 /\ <<Poll>>[1] = Poll
        /\ <<Virq, Poll>> \in Seq(Event) /\ Len(<<Virq, Poll>>) = 2
        /\ <<Virq, Poll>>[1] = Virq /\ <<Virq, Poll>>[2] = Poll
      BY <2>1
  <2>3. /\ s \o <<Poll>> \in Seq(Event) /\ Len(s \o <<Poll>>) = Len(s) + 1
        /\ \A i \in 1 .. Len(s) + 1 :
              (s \o <<Poll>>)[i] = IF i <= Len(s) THEN s[i] ELSE <<Poll>>[i - Len(s)]
      BY <2>2, ConcatProperties
  <2>4. /\ s \o <<Virq, Poll>> \in Seq(Event) /\ Len(s \o <<Virq, Poll>>) = Len(s) + 2
        /\ \A i \in 1 .. Len(s) + 2 :
              (s \o <<Virq, Poll>>)[i] = IF i <= Len(s) THEN s[i]
                                         ELSE <<Virq, Poll>>[i - Len(s)]
      BY <2>2, ConcatProperties
  <2>5. Len(s) \in Nat /\ DOMAIN s = 1 .. Len(s)
      BY <1>8
  <2>6. /\ DOMAIN (s \o <<Poll>>) = 1 .. Len(s) + 1
        /\ \A i \in 1 .. Len(s) : (s \o <<Poll>>)[i] # Poll /\ (s \o <<Poll>>)[i] # Virq
        /\ (s \o <<Poll>>)[Len(s) + 1] = Poll
      BY <1>8, <2>2, <2>3, <2>5 DEF NoVirq
  <2>7. /\ DOMAIN (s \o <<Virq, Poll>>) = 1 .. Len(s) + 2
        /\ \A i \in 1 .. Len(s) : /\ (s \o <<Virq, Poll>>)[i] # Poll
                                  /\ (s \o <<Virq, Poll>>)[i] # Virq
        /\ (s \o <<Virq, Poll>>)[Len(s) + 1] = Virq
        /\ (s \o <<Virq, Poll>>)[Len(s) + 2] = Poll
      BY <1>8, <2>2, <2>4, <2>5 DEF NoVirq
  <2>8. NoVirq(s \o <<Poll>>)
      BY <2>1, <2>5, <2>6 DEF NoVirq
  <2>9. VirqFirst(s \o <<Virq, Poll>>)
      BY <2>1, <2>5, <2>7 DEF VirqFirst
  <2> QED
      BY <2>8, <2>9 DEF NoVirq, VirqFirst
<1>9. Head(events) = Poll =>
          /\ NoVirq(Tail(events) \o <<Poll>>)
          /\ VirqFirst(Tail(events) \o <<Poll>>)
          /\ VirqFirst(Tail(events) \o <<Virq, Poll>>)
    BY <1>1, <1>7, <1>8
<1> QED
    BY <1>4, <1>5, <1>6, <1>9

LEMMA VirqAppend ==
    ASSUME TypeOK, NEW e \in Event, e # Virq, e # Poll
    PROVE  /\ VirqFirst(events) => VirqFirst(Append(events, e))
           /\ NoVirq(events) => NoVirq(Append(events, e))
<1>1. events \in Seq(Event)
    BY DEF TypeOK
<1> QED
    BY <1>1 DEF VirqFirst, NoVirq

(* What is due after a step of the hypervisor was due before, or is to be  *)
(* announced.                                                              *)
LEMMA DueHost ==
    ASSUME Typed, NEW d \in Domid, HostEnds(d) \/ HostStarts(d), NEW e \in Domid, Due(e)'
    PROVE  e \in unsent' \/ Due(e)
<1>1. domains' = [domains EXCEPT ![d].late = FALSE] /\ TypeOK
    BY DEF HostEnds, HostStarts, Typed
<1>2. /\ Mapped(e)' <=> Mapped(e)
      /\ domains'[e].active = domains[e].active
      /\ domains'[e].late = IF e = d THEN FALSE ELSE domains[e].late
    BY <1>1, LateType DEF Mapped
<1>3. e # d => host'[e] = host[e]
    BY TypedUnfolded DEF HostEnds, HostStarts
<1>4. CASE e # d
    BY <1>2, <1>3, <1>4 DEF Due, HostDead
<1>5. CASE e = d /\ HostEnds(d)
    BY <1>5 DEF HostEnds
<1>6. CASE e = d /\ HostStarts(d)
  <2>1. host'[d] = "running"
      BY <1>6, TypedUnfolded DEF HostStarts, Starts
  <2> QED
      BY <1>6, <2>1 DEF Due, HostDead
<1> QED
    BY <1>4, <1>5, <1>6

LEMMA WatchfulHost ==
    ASSUME Watchful, NEW d \in Domid, HostEnds(d) \/ HostStarts(d)
    PROVE  Armed' /\ Noticed'
<1>1. UNCHANGED <<virq, events, callback>> /\ unsent \subseteq unsent'
    BY DEF HostEnds, HostStarts
<1>2. Armed'
    BY <1>1 DEF Watchful, Armed, callback
<1>3. Noticed'
    BY <1>1, DueHost DEF Watchful, Noticed, Waiting, callback
<1> QED
    BY <1>2, <1>3

LEMMA WatchfulInterrupt ==
    ASSUME Watchful, NEW d \in Domid, Interrupt(d)
    PROVE  Armed' /\ Noticed'
<1>1. /\ UNCHANGED <<host, domains, events, callback>>
      /\ unsent' = unsent \ {d}
      /\ virq' = IF virq.masked THEN [virq EXCEPT !.pending = TRUE]
                 ELSE [virq EXCEPT !.queued = TRUE, !.masked = TRUE]
    BY DEF Interrupt
<1>2. virq \in [queued : BOOLEAN, masked : BOOLEAN, pending : BOOLEAN]
    BY TypedUnfolded DEF Watchful
<1>3. IF virq.masked THEN virq'.pending /\ virq'.masked /\ virq'.queued = virq.queued
                     ELSE virq'.queued /\ virq'.masked /\ virq'.pending = virq.pending
    BY <1>1, <1>2
<1>4. Armed'
    BY <1>1, <1>3 DEF Watchful, Armed, callback
<1>5. Noticed'
    BY <1>1, <1>3 DEF Watchful, Armed, Noticed, Waiting, Due, Mapped, HostDead, callback
<1> QED
    BY <1>4, <1>5

LEMMA DueWithout ==
    ASSUME Typed, NEW ds, domains' = Without(ds), UNCHANGED host, NEW d \in Domid, Due(d)'
    PROVE  Due(d) /\ d \notin ds
  BY WithoutType DEF Typed, Due, Mapped, HostDead

LEMMA WatchfulClients ==
    ASSUME Watchful, NEW d \in Domid, Introduce(d) \/ Release(d) \/ Breaks(d)
    PROVE  Armed' /\ Noticed'
<1> USE TypedUnfolded DEF Watchful
<1>1. UNCHANGED <<host_vars, virq, callback>> /\ pc = "idle" /\ TypeOK
    BY DEF Introduce, Release, Breaks, Typed
<1>2. Armed'
  <2>1. CASE Breaks(d)
    <3>1. domains[d] \in Object
        BY <2>1 DEF Breaks, NoObject
    <3>2. Dead(d, domains[d].id) \in Event
        BY <3>1 DEF Dead, Event, Object
    <3> QED
        BY <1>1, <2>1, <3>2, VirqAppend, Kinds DEF Breaks, Armed, callback
  <2>2. CASE ~Breaks(d)
      BY <1>1, <2>2 DEF Introduce, Release, Armed, callback
  <2> QED
      BY <2>1, <2>2
<1>3. \A e \in Domid : Due(e)' => Due(e)
  <2>1. CASE Introduce(d)
      BY <1>1, <2>1 DEF Introduce, Due, Mapped, HostDead, host_vars
  <2>2. CASE Release(d)
      BY <1>1, <2>2, DueWithout DEF Release, host_vars
  <2>3. CASE Breaks(d)
    <3>1. domains[d] \in Object
        BY <2>3 DEF Breaks, NoObject
    <3>2. /\ domains'[d].active = domains[d].active /\ domains'[d].late = domains[d].late
          /\ \A e \in Domid : e # d => domains'[e] = domains[e]
        BY <2>3, <3>1 DEF Breaks, Object
    <3>3. Mapped(d)
        BY <3>1, NoObjectIsNone DEF Mapped
    <3> QED
        BY <1>1, <3>2, <3>3 DEF Due, Mapped, HostDead, host_vars
  <2> QED
      BY <2>1, <2>2, <2>3
<1>4. Noticed'
    BY <1>1, <1>3 DEF Noticed, Waiting, host_vars, callback
<1> QED
    BY <1>2, <1>4

LEMMA WatchfulRun ==
    ASSUME Watchful, Run
    PROVE  Armed' /\ Noticed'
<1> USE TypedUnfolded DEF Watchful
<1>1. TypeOK /\ pc = "idle" /\ UNCHANGED <<host_vars, virq>>
    BY DEF Typed, Run, RunPoll, RunDead, RunVirq, RunNext
<1>2. CASE RunPoll
  <2>1. Head(events) = Poll
      BY <1>1, <1>2, QueueHead DEF RunPoll, RunNext
  <2>2. Armed'
      BY <1>1, <1>2, <2>1, VirqQueue DEF RunPoll, Armed, callback
  <2>3. Noticed'
      BY <1>1, <1>2 DEF RunPoll, Noticed, Waiting, Due, Mapped, HostDead, host_vars, callback
  <2> QED
      BY <2>2, <2>3
<1>3. CASE RunDead
  <2>1. Armed'
      BY <1>1, <1>3, VirqQueue DEF RunDead, Armed, callback
  <2>2. \A e \in Domid : Due(e)' => Due(e)
      BY <1>1, <1>3, DueWithout DEF RunDead, host_vars
  <2>3. Noticed'
      BY <1>1, <1>3, <2>2 DEF RunDead, Noticed, Waiting, host_vars, callback
  <2> QED
      BY <2>1, <2>3
<1>4. CASE RunVirq
  <2>1. Head(events) = Virq
      BY <1>1, <1>4, QueueHead DEF RunVirq, RunNext
  <2>2. events' = Tail(events) /\ UNCHANGED <<host_vars, virq, domains>>
      BY <1>4 DEF RunVirq
  <2>3. CASE exc'
    <3>1. exc /\ pc' = "scan" /\ todo' = Known
        BY <1>4, <2>3 DEF RunVirq, Disabled, callback
    <3>2. events \in Seq(Event) /\ Len(events) > 0 /\ events[1] = Virq
        BY <1>1, <2>1, QueueHead
    <3>3. virq.masked
        BY <3>1, <3>2 DEF Armed, NoVirq
    <3>4. Armed'
        BY <1>1, <2>1, <2>2, <3>1, <3>3, VirqQueue DEF Armed
    <3>5. Noticed'
        BY <2>2, <3>1 DEF Noticed, Waiting, Due, Known, Mapped
    <3> QED
        BY <3>4, <3>5
  <2>4. CASE ~exc'
      BY <2>4 DEF Armed, Noticed
  <2> QED
      BY <2>3, <2>4
<1> QED
    BY <1>2, <1>3, <1>4 DEF Run

LEMMA WatchfulCallback ==
    ASSUME Watchful, Callback
    PROVE  Armed' /\ Noticed'
<1> USE TypedUnfolded DEF Watchful
<1>1. ASSUME NEW d \in Domid, Scan(d)
      PROVE  Armed' /\ Noticed'
  <2>1. UNCHANGED <<host_vars, virq, events, exc, pc>> /\ pc = "scan" /\ todo' = todo \ {d}
      BY <1>1 DEF Scan
  <2>2. Armed'
      BY <2>1 DEF Armed
  <2>3. \A e \in Domid : Due(e)' => Due(e) /\ (e = d => d \in dead_list')
    <3>1. \A e \in Domid : Due(e)' => Due(e)
        BY <1>1, <2>1, ScanObjects DEF Due, Mapped, Known, HostDead, host_vars
    <3>2. Due(d)' => d \in dead_list'
      <4>1. CASE HostDead(d)
          BY <1>1, <4>1 DEF Scan
      <4>2. CASE ~HostDead(d) /\ domains[d].active /\ host[d] = "shutdown"
        <5>1. domains[d] \in Object
            BY <1>1 DEF Scan, Known, Mapped
        <5>2. ~domains'[d].active
            BY <1>1, <4>2, <5>1 DEF Scan, Object
        <5> QED
            BY <2>1, <4>2, <5>2 DEF Due, HostDead, host_vars
      <4>3. CASE ~HostDead(d) /\ ~(domains[d].active /\ host[d] = "shutdown")
          BY <1>1, <2>1, <4>3 DEF Scan, Due, HostDead, host_vars
      <4> QED
          BY <4>1, <4>2, <4>3
    <3> QED
        BY <3>1, <3>2
  <2>4. dead_list \subseteq dead_list'
      BY <1>1 DEF Scan
  <2>5. Noticed'
      BY <2>1, <2>3, <2>4 DEF Noticed, Waiting, host_vars
  <2> QED
      BY <2>2, <2>5
<1>2. CASE ~exc'
    BY <1>2 DEF Armed, Noticed
<1>3. CASE ReleaseLists
  <2>1. UNCHANGED <<host_vars, virq, events, exc, todo>> /\ todo = {} /\ pc' = "ack" /\ pc = "scan"
      BY <1>3 DEF ReleaseLists
  <2>2. Armed'
      BY <2>1 DEF Armed
  <2>3. \A e \in Domid : Due(e)' => Due(e) /\ e \notin dead_list
      BY <1>3, <2>1, DueWithout DEF ReleaseLists, host_vars
  <2>4. Noticed'
      BY <2>1, <2>3 DEF Noticed, Waiting, host_vars
  <2> QED
      BY <2>2, <2>4
<1>4. CASE Ack /\ exc'
  <2>1. /\ pc = "ack" /\ pc' = "unmask" /\ virq' = [virq EXCEPT !.queued = FALSE]
        /\ UNCHANGED <<host_vars, domains, events, exc, todo, dead_list>>
      BY <1>4 DEF Ack, Disabled
  <2>2. ~virq'.queued /\ virq'.masked = virq.masked /\ virq'.pending = virq.pending
      BY <2>1
  <2>3. Armed'
      BY <2>1, <2>2 DEF Armed
  <2>4. Noticed'
      BY <2>1, <2>2 DEF Noticed, Waiting, Due, Mapped, HostDead, host_vars
  <2> QED
      BY <2>3, <2>4
<1>5. CASE Unmask /\ exc'
  <2>1. /\ pc = "unmask" /\ pc' = "idle"
        /\ virq' = [queued |-> virq.pending, masked |-> virq.pending, pending |-> FALSE]
        /\ UNCHANGED <<host_vars, domains, events, exc, todo, dead_list>>
      BY <1>5 DEF Unmask, Disabled
  <2>2. virq'.queued = virq.pending /\ virq'.masked = virq.pending
      BY <2>1
  <2>3. Armed'
      BY <2>1, <2>2 DEF Armed
  <2>4. Noticed'
      BY <2>1, <2>2 DEF Noticed, Waiting, Due, Mapped, HostDead, host_vars
  <2> QED
      BY <2>3, <2>4
<1>6. CASE ScanFails
    BY <1>2, <1>6 DEF ScanFails, Disabled
<1> QED
    BY <1>1, <1>2, <1>3, <1>4, <1>5, <1>6 DEF Callback

LEMMA WatchfulNext == Watchful /\ [Next]_vars => Watchful'
<1> SUFFICES ASSUME Watchful, [Next]_vars PROVE Watchful'
    OBVIOUS
<1>1. Typed'
    BY TypedNext DEF Watchful
<1>2. CASE Host
    BY <1>1, <1>2, WatchfulHost, WatchfulInterrupt DEF Host, Watchful
<1>3. CASE Clients
    BY <1>1, <1>3, WatchfulClients DEF Clients, Watchful
<1>4. CASE Run
    BY <1>1, <1>4, WatchfulRun DEF Watchful
<1>5. CASE Callback
    BY <1>1, <1>5, WatchfulCallback DEF Watchful
<1>6. CASE UNCHANGED vars
    BY <1>1, <1>6 DEF vars, host_vars, callback, Watchful, Armed, Noticed, Waiting, Due,
       Mapped, HostDead
<1> QED
    BY <1>2, <1>3, <1>4, <1>5, <1>6 DEF Next

LEMMA WatchfulInit == Init => Watchful
<1> SUFFICES ASSUME Init PROVE Watchful
    OBVIOUS
<1>1. NoVirq(events) /\ VirqFirst(events)
    BY Kinds DEF Init, NoVirq, VirqFirst
<1>2. Armed
    BY <1>1 DEF Init, Armed
<1>3. Noticed
    BY DEF Init, Noticed, Due, Mapped
<1> QED
    BY <1>2, <1>3, TypedInit DEF Watchful

(* However the ends of domains, the interrupts and the steps of the scan   *)
(* interleave, between events the interrupt waits or is about to come as   *)
(* long as a domain is due, for any number of domains.                     *)
THEOREM NoEndMissed == Spec => []NothingMissed
  BY WatchfulInit, WatchfulNext, WatchfulImplies, PTL DEF Spec

-----------------------------------------------------------------------------
(* Objects: every number they had is below created, and no two share one.  *)
Numbered ==
    /\ \A d \in Domid : Mapped(d) => domains[d].id \in 1 .. created
    /\ \A d, e \in Domid : Mapped(d) /\ Mapped(e) /\ domains[d].id = domains[e].id => d = e

(* Only an introduction makes an object, and only a broken ring kills one. *)
LEMMA ObjectsKept ==
    ASSUME Typed, [Next]_vars, NEW e \in Domid, Mapped(e)'
    PROVE  \/ Introduce(e)
           \/ /\ Mapped(e) /\ domains'[e].id = domains[e].id
              /\ domains'[e].active => domains[e].active
              /\ ~Breaks(e) => domains'[e].alive = domains[e].alive
              /\ Breaks(e) => ~domains'[e].alive
<1> USE TypedUnfolded
<1>0. TypeOK
    BY DEF Typed
<1>1. ASSUME NEW d \in Domid, HostEnds(d) \/ HostStarts(d)
      PROVE  Mapped(e) /\ domains'[e].id = domains[e].id
             /\ domains'[e].active = domains[e].active /\ domains'[e].alive = domains[e].alive
  <2>1. domains' = [domains EXCEPT ![d].late = FALSE]
      BY <1>1 DEF HostEnds, HostStarts
  <2> QED
      BY <1>0, <2>1, LateType DEF Mapped
<1>2. ASSUME NEW ds, domains' = Without(ds)
      PROVE  domains'[e] = domains[e]
    BY <1>0, <1>2, WithoutType DEF Mapped
<1>3. ASSUME NEW d \in Domid, Introduce(d), e # d
      PROVE  domains'[e] = domains[e]
    BY <1>3 DEF Introduce
<1>4. ASSUME NEW d \in Domid, Breaks(d)
      PROVE  /\ Mapped(e) /\ domains'[e].id = domains[e].id
             /\ domains'[e].active = domains[e].active
             /\ domains'[e].alive = IF e = d THEN FALSE ELSE domains[e].alive
  <2>1. domains[d] \in Object
      BY <1>4 DEF Breaks, NoObject
  <2> QED
      BY <1>4, <2>1, NoObjectIsNone DEF Breaks, Object, Mapped
<1>5. ASSUME NEW d \in Domid, Scan(d)
      PROVE  Mapped(e) /\ domains'[e].id = domains[e].id
             /\ (domains'[e].active => domains[e].active) /\ domains'[e].alive = domains[e].alive
    BY <1>5, ScanObjects DEF Known, Mapped
<1>6. Breaks(e) => pc = "idle" /\ events' # events
  <2> SUFFICES ASSUME Breaks(e) PROVE pc = "idle" /\ events' # events
      OBVIOUS
  <2>1. Len(events') = Len(events) + 1
      BY DEF Breaks
  <2> QED
      BY <2>1 DEF Breaks
<1>7. CASE Host
    BY <1>1, <1>6, <1>7 DEF Host, HostEnds, HostStarts, Interrupt, Mapped
<1>8. CASE Clients
  <2>1. PICK d \in Domid : Introduce(d) \/ Release(d) \/ Breaks(d)
      BY <1>8 DEF Clients
  <2>2. CASE Introduce(d)
      BY <1>3, <1>6, <2>2 DEF Introduce, Mapped
  <2>3. CASE Release(d)
      BY <1>2, <1>6, <2>3 DEF Release, Mapped
  <2>4. CASE Breaks(d)
    <3>1. CASE e = d
        BY <1>4, <2>4, <3>1
    <3>2. CASE e # d
      <4>1. ~Breaks(e)
        <5> SUFFICES ASSUME Breaks(e) PROVE FALSE
            OBVIOUS
        <5>1. domains'[e].alive = FALSE /\ domains[e].alive
            BY <1>4 DEF Breaks
        <5>2. domains'[e].alive = domains[e].alive
            BY <1>4, <2>4, <3>2
        <5> QED
            BY <5>1, <5>2
      <4> QED
          BY <1>4, <2>4, <3>2, <4>1
    <3> QED
        BY <3>1, <3>2
  <2> QED
      BY <2>1, <2>2, <2>3, <2>4
<1>9. CASE Run
  <2>1. domains'[e] = domains[e]
      BY <1>2, <1>9 DEF Run, RunPoll, RunDead, RunVirq
  <2>2. ~Breaks(e)
    <3> SUFFICES ASSUME Breaks(e) PROVE FALSE
        OBVIOUS
    <3>1. domains'[e].alive = FALSE /\ domains[e].alive
        BY <1>4 DEF Breaks
    <3> QED
        BY <2>1, <3>1
  <2> QED
      BY <2>1, <2>2 DEF Mapped
<1>10. CASE Callback
  <2>1. pc # "idle"
      BY <1>10 DEF Callback, Scan, ScanFails, ReleaseLists, Ack, Unmask
  <2>2. CASE \E d \in Domid : Scan(d)
      BY <1>5, <1>6, <2>1, <2>2
  <2>3. CASE ~\E d \in Domid : Scan(d)
      BY <1>2, <1>6, <1>10, <2>1, <2>3
         DEF Callback, ScanFails, ReleaseLists, Ack, Unmask, Mapped
  <2> QED
      BY <2>2, <2>3
<1>11. CASE UNCHANGED vars
    BY <1>6, <1>11 DEF vars, Mapped
<1> QED
    BY <1>7, <1>8, <1>9, <1>10, <1>11 DEF Next

LEMMA CreatedKept ==
    ASSUME Typed, [Next]_vars
    PROVE  \/ \E d \in Domid : Introduce(d)
           \/ created' = created
  BY DEF Next, Host, HostEnds, HostStarts, Interrupt, Clients, Introduce, Release, Breaks,
     Run, RunPoll, RunDead, RunVirq, Callback, Scan, ScanFails, ReleaseLists, Ack, Unmask, vars

LEMMA IntroducedNumber ==
    ASSUME Typed, NEW d \in Domid, Introduce(d)
    PROVE  /\ created' = created + 1 /\ created + 1 \in 1 .. MaxObjects
           /\ ~Mapped(d) /\ Mapped(d)'
           /\ domains'[d].id = created + 1 /\ domains'[d].alive
           /\ \A e \in Domid : e # d => domains'[e] = domains[e]
           /\ pc = "idle" /\ UNCHANGED <<events, callback, told>>
<1> USE TypedUnfolded
<1>1. created + 1 \in 1 .. MaxObjects
    BY DomainsAssumption DEF Introduce
<1>2. domains'[d] = [id |-> created + 1, alive |-> TRUE, active |-> TRUE,
                     late |-> host[d] = "shutdown"]
    BY DEF Introduce
<1>3. domains'[d].id = created + 1 /\ domains'[d].alive
    BY <1>2
<1>4. Mapped(d)'
    BY <1>3 DEF Mapped, NoObject
<1> QED
    BY <1>1, <1>3, <1>4 DEF Introduce

LEMMA NumberedNext ==
    ASSUME Typed, Numbered, [Next]_vars
    PROVE  Numbered'
<1> USE TypedUnfolded
<1>1. ASSUME NEW d \in Domid, Introduce(d)
      PROVE  Numbered'
    BY <1>1, IntroducedNumber DEF Numbered, Mapped
<1>2. CASE ~\E d \in Domid : Introduce(d)
    BY <1>2, ObjectsKept, CreatedKept DEF Numbered
<1> QED
    BY <1>1, <1>2

-----------------------------------------------------------------------------
(* Shutdowns are announced once.                                           *)

ToldInv ==
    /\ \A i \in 1 .. MaxObjects : told[i] <= 1 /\ (i > created => told[i] = 0)
    /\ \A d \in Domid : Mapped(d) /\ domains[d].active => told[domains[d].id] = 0
    /\ \A d \in dying_list : ~domains[d].active /\ told[domains[d].id] = 0

Histories == Typed /\ Numbered /\ ToldInv

LEMMA HistoriesNext ==
    ASSUME Histories, [Next]_vars
    PROVE  Histories'
<1> USE TypedUnfolded DEF Histories
<1>1. Typed' /\ Numbered'
    BY TypedNext, NumberedNext
<1>2. \A d \in dying_list' : d \in Domid /\ Mapped(d)'
    BY <1>1 DEF Typed, TypeOK, Known
<1>3. ASSUME NEW d \in Domid, Introduce(d)
      PROVE  ToldInv'
  <2>1. dying_list' = {} /\ told' = told
      BY <1>3 DEF Introduce, Locals, callback
  <2>2. \A i \in 1 .. MaxObjects : told'[i] <= 1 /\ (i > created' => told'[i] = 0)
      BY <1>3, <2>1, IntroducedNumber DEF ToldInv
  <2>3. ASSUME NEW e \in Domid, Mapped(e)', domains'[e].active
        PROVE  told'[domains'[e].id] = 0
      BY <1>3, <2>1, <2>3, IntroducedNumber DEF ToldInv, Mapped
  <2> QED
      BY <2>1, <2>2, <2>3 DEF ToldInv
<1>4. CASE ReleaseLists
  <2>1. /\ dying_list' = {} /\ created' = created
        /\ \A e \in Domid : Mapped(e)' => Mapped(e) /\ domains'[e] = domains[e]
      BY <1>4, WithoutType DEF ReleaseLists, Typed, Mapped
  <2>2. \A d \in dying_list : d \in Domid /\ Mapped(d)
      BY DEF Known
  <2>3. \A i \in 1 .. MaxObjects :
           told'[i] = IF \E d \in dying_list : domains[d].id = i THEN told[i] + 1 ELSE told[i]
      BY <1>4, AnnouncedType DEF ReleaseLists
  <2>4. \A i \in 1 .. MaxObjects : told'[i] <= 1
      BY <2>3 DEF ToldInv
  <2>5. \A d \in Domid : Mapped(d) => domains[d].id \in 1 .. MaxObjects /\ domains[d].id <= created
      BY DomainsAssumption DEF Numbered
  <2>6. \A i \in 1 .. MaxObjects : i > created' => told'[i] = 0
      BY <2>1, <2>2, <2>3, <2>5 DEF ToldInv
  <2>7. ASSUME NEW e \in Domid, Mapped(e)', domains'[e].active
        PROVE  told'[domains'[e].id] = 0
    <3>1. Mapped(e) /\ domains'[e].id = domains[e].id /\ domains[e].active
        BY <2>1, <2>7
    <3>2. ~\E d \in dying_list : domains[d].id = domains[e].id
        BY <2>2, <3>1 DEF Numbered, ToldInv
    <3> QED
        BY <2>3, <2>5, <3>1, <3>2 DEF ToldInv
  <2> QED
      BY <1>1, <2>1, <2>4, <2>6, <2>7 DEF ToldInv
<1>5. CASE ~ReleaseLists /\ ~\E d \in Domid : Introduce(d)
  <2>1. told' = told
      BY <1>5 DEF Next, Host, HostEnds, HostStarts, Interrupt, Clients, Release, Breaks, Run,
         RunPoll, RunDead, RunVirq, Callback, Scan, ScanFails, Ack, Unmask, vars
  <2>2. created' = created
      BY <1>5, CreatedKept
  <2>3. \A e \in Domid : Mapped(e)' =>
            /\ Mapped(e) /\ domains'[e].id = domains[e].id
            /\ domains'[e].active => domains[e].active
      BY <1>5, ObjectsKept
  <2>4. ASSUME NEW e \in dying_list'
        PROVE  ~domains'[e].active /\ told'[domains'[e].id] = 0
    <3>1. e \in Domid /\ domains'[e].id = domains[e].id /\ (domains'[e].active => domains[e].active)
        BY <1>2, <2>3, <2>4
    <3>2. CASE e \in dying_list
        BY <2>1, <3>1, <3>2 DEF ToldInv
    <3>3. CASE e \notin dying_list
      <4>1. PICK d \in Domid : Scan(d)
          BY <1>5, <2>4, <3>3 DEF Next, Host, HostEnds, HostStarts, Interrupt, Clients, Release,
             Breaks, Run, RunPoll, RunDead, RunVirq, Callback, ScanFails, Ack, Unmask, Disabled,
             vars, callback
      <4>2. /\ e = d /\ domains[e].active
            /\ domains' = [domains EXCEPT ![e].active = FALSE]
          BY <2>4, <3>3, <4>1 DEF Scan
      <4>3. domains[e] \in Object
          BY <4>1, <4>2 DEF Scan, Known, Mapped
      <4>4. ~domains'[e].active
          BY <3>1, <4>2, <4>3 DEF Object
      <4>5. Mapped(e)
          BY <1>2, <2>3, <2>4
      <4> QED
          BY <2>1, <3>1, <4>2, <4>4, <4>5 DEF ToldInv
    <3> QED
        BY <3>2, <3>3
  <2> QED
      BY <1>1, <2>1, <2>2, <2>3, <2>4 DEF ToldInv
<1> QED
    BY <1>1, <1>3, <1>4, <1>5

(* The shutdown of a domain is announced at most once to those who watch,  *)
(* however many interrupts, scans and objects with its number there are.   *)
THEOREM ShutdownsToldOnce == Spec => []ShutdownToldOnce
<1>1. Init => Histories
  <2> SUFFICES ASSUME Init PROVE Histories
      OBVIOUS
  <2>1. \A d \in Domid : ~Mapped(d)
      BY DEF Init, Mapped
  <2>2. Numbered /\ ToldInv
      BY <2>1 DEF Init, Numbered, ToldInv
  <2> QED
      BY <2>2, TypedInit DEF Histories
<1>2. Histories /\ [Next]_vars => Histories'
    BY HistoriesNext
<1>3. Histories => ShutdownToldOnce
    BY TypedUnfolded DEF Histories, ToldInv, ShutdownToldOnce
<1> QED
    BY <1>1, <1>2, <1>3, PTL DEF Spec

-----------------------------------------------------------------------------
(* Broken rings.                                                           *)

HasDead(q, d, i) == \E k \in DOMAIN q : q[k] = Dead(d, i)
OnceDead(q) == \A j, k \in DOMAIN q : q[j].kind = "dead" /\ q[j] = q[k] => j = k

(* Events carry numbers of objects that were; none of them is of a later   *)
(* object than the one there is.                                           *)
Going ==
    /\ \A d \in Domid, i \in 1 .. MaxObjects : HasDead(events, d, i) =>
          /\ i <= created
          /\ Mapped(d) => i <= domains[d].id
          /\ Mapped(d) /\ i = domains[d].id => ~domains[d].alive
    /\ \A d \in Domid : Mapped(d) /\ ~domains[d].alive => HasDead(events, d, domains[d].id)
    /\ OnceDead(events)

Broken == Typed /\ Numbered /\ Going

LEMMA DeadFields == \A d, i : Dead(d, i).kind = "dead" /\ Dead(d, i).dom = d /\ Dead(d, i).id = i
  BY DEF Dead

LEMMA DeadTail ==
    ASSUME TypeOK
    PROVE  /\ OnceDead(events) => OnceDead(Tail(events))
           /\ \A d, i : HasDead(Tail(events), d, i) => HasDead(events, d, i)
           /\ \A d, i : HasDead(events, d, i) /\ Head(events) # Dead(d, i)
                          => HasDead(Tail(events), d, i)
           /\ OnceDead(events) => \A d, i : Head(events) = Dead(d, i)
                                       => ~HasDead(Tail(events), d, i)
<1>1. /\ events \in Seq(Event) /\ Len(events) > 0 /\ Head(events) = events[1]
      /\ Tail(events) \in Seq(Event)
    BY QueueHead DEF TypeOK
<1>2. Len(Tail(events)) \in Nat /\ Len(Tail(events)) = Len(events) - 1
    BY <1>1
<1>3. \A j \in DOMAIN Tail(events) : j + 1 \in DOMAIN events /\ Tail(events)[j] = events[j + 1]
    BY <1>1
<1>4. \A j \in DOMAIN events : j # 1 => j - 1 \in DOMAIN Tail(events) /\ Tail(events)[j - 1] = events[j]
    BY <1>1, <1>2
<1>5. OnceDead(events) => OnceDead(Tail(events))
    BY <1>1, <1>2, <1>3 DEF OnceDead
<1>6. \A d, i : HasDead(Tail(events), d, i) => HasDead(events, d, i)
    BY <1>3 DEF HasDead
<1>7. \A d, i : HasDead(events, d, i) /\ Head(events) # Dead(d, i) => HasDead(Tail(events), d, i)
    BY <1>1, <1>4 DEF HasDead
<1>8. ASSUME OnceDead(events), NEW d, NEW i, Head(events) = Dead(d, i), HasDead(Tail(events), d, i)
      PROVE  FALSE
  <2>1. PICK j \in DOMAIN Tail(events) : Tail(events)[j] = Dead(d, i)
      BY <1>8 DEF HasDead
  <2>2. events[1] = events[j + 1] /\ events[1].kind = "dead" /\ 1 \in DOMAIN events
        /\ j + 1 \in DOMAIN events /\ j \in 1 .. Len(Tail(events))
      BY <1>1, <1>3, <1>8, <2>1, DeadFields
  <2> QED
      BY <1>2, <1>8, <2>2 DEF OnceDead
<1> QED
    BY <1>5, <1>6, <1>7, <1>8

(* Polls and interrupts put no such event into a queue.                    *)
LEMMA DeadConcat ==
    ASSUME NEW s \in Seq(Event), NEW q \in Seq(Event),
           \A j \in 1 .. Len(q) : q[j].kind # "dead"
    PROVE  /\ OnceDead(s) => OnceDead(s \o q)
           /\ \A d, i : HasDead(s \o q, d, i) <=> HasDead(s, d, i)
<1>1. /\ s \o q \in Seq(Event) /\ Len(s \o q) = Len(s) + Len(q)
      /\ \A i \in 1 .. Len(s) + Len(q) :
            (s \o q)[i] = IF i <= Len(s) THEN s[i] ELSE q[i - Len(s)]
    BY ConcatProperties
<1>2. DOMAIN (s \o q) = 1 .. Len(s) + Len(q) /\ Len(s) \in Nat /\ Len(q) \in Nat
      /\ DOMAIN s = 1 .. Len(s)
    BY <1>1
<1>3. \A j \in DOMAIN (s \o q) : (s \o q)[j].kind = "dead"
          => j \in DOMAIN s /\ (s \o q)[j] = s[j]
  <2> SUFFICES ASSUME NEW j \in DOMAIN (s \o q), (s \o q)[j].kind = "dead"
               PROVE  j \in DOMAIN s /\ (s \o q)[j] = s[j]
      OBVIOUS
  <2>1. CASE j <= Len(s)
      BY <1>1, <1>2, <2>1
  <2>2. CASE j > Len(s)
    <3>1. j - Len(s) \in 1 .. Len(q) /\ (s \o q)[j] = q[j - Len(s)]
        BY <1>1, <1>2, <2>2
    <3> QED
        BY <3>1
  <2> QED
      BY <1>2, <2>1, <2>2
<1>4. \A j \in DOMAIN s : j \in DOMAIN (s \o q) /\ (s \o q)[j] = s[j]
    BY <1>1, <1>2
<1> HIDE DEF OnceDead
<1>5. OnceDead(s) => OnceDead(s \o q)
    BY <1>3, <1>4 DEF OnceDead
<1>6. \A d, i : HasDead(s \o q, d, i) <=> HasDead(s, d, i)
    BY <1>3, <1>4, DeadFields DEF HasDead
<1> QED
    BY <1>5, <1>6

LEMMA DeadAppend ==
    ASSUME TypeOK, NEW d, NEW i, ~HasDead(events, d, i)
    PROVE  /\ OnceDead(events) => OnceDead(Append(events, Dead(d, i)))
           /\ \A e, j : HasDead(Append(events, Dead(d, i)), e, j)
                            <=> HasDead(events, e, j) \/ (e = d /\ j = i)
<1> DEFINE q == Append(events, Dead(d, i))
<1>1. events \in Seq(Event)
    BY DEF TypeOK
<1>2. /\ DOMAIN q = 1 .. Len(events) + 1 /\ DOMAIN events = 1 .. Len(events)
      /\ Len(events) \in Nat
      /\ q[Len(events) + 1] = Dead(d, i)
      /\ \A k \in DOMAIN events : q[k] = events[k]
    BY <1>1
<1> HIDE DEF q
<1>3. \A k \in DOMAIN events : q[k] # Dead(d, i)
    BY <1>2 DEF HasDead
<1>4. OnceDead(events) => OnceDead(q)
    BY <1>2, <1>3 DEF OnceDead
<1>5. \A e, j : HasDead(q, e, j) <=> HasDead(events, e, j) \/ (e = d /\ j = i)
  <2> SUFFICES ASSUME NEW e, NEW j
               PROVE  HasDead(q, e, j) <=> HasDead(events, e, j) \/ (e = d /\ j = i)
      OBVIOUS
  <2>1. HasDead(q, e, j) => HasDead(events, e, j) \/ (e = d /\ j = i)
      BY <1>2, DeadFields DEF HasDead
  <2>2. HasDead(events, e, j) => HasDead(q, e, j)
      BY <1>2 DEF HasDead
  <2>3. HasDead(q, d, i)
      BY <1>2 DEF HasDead
  <2> QED
      BY <2>1, <2>2, <2>3
<1> QED
    BY <1>4, <1>5 DEF q

LEMMA BrokenNext ==
    ASSUME Broken, [Next]_vars
    PROVE  Broken'
<1> USE TypedUnfolded DEF Broken
<1>1. Typed' /\ Numbered' /\ TypeOK
    BY TypedNext, NumberedNext DEF Typed
<1>0. /\ \A d \in Domid : Mapped(d) => domains[d].id \in 1 .. MaxObjects
      /\ \A d \in Domid : Mapped(d)' => domains'[d].id \in 1 .. MaxObjects
    BY <1>1 DEF Typed, TypeOK, Mapped, Object
<1>2. ASSUME NEW d \in Domid, Introduce(d)
      PROVE  Going'
  <2>1. events' = events
      BY <1>2, IntroducedNumber
  <2>2. ~HasDead(events, d, created + 1)
    <3>1. HasDead(events, d, created + 1) => created + 1 <= created
        BY <1>2, IntroducedNumber DEF Going
    <3> QED
        BY <3>1
  <2>3. \A e \in Domid, i \in 1 .. MaxObjects : HasDead(events, e, i) =>
            /\ i <= created'
            /\ Mapped(e)' => i <= domains'[e].id
            /\ Mapped(e)' /\ i = domains'[e].id => ~domains'[e].alive
      BY <1>2, <2>2, IntroducedNumber DEF Going, Mapped
  <2>4. \A e \in Domid : Mapped(e)' /\ ~domains'[e].alive => HasDead(events, e, domains'[e].id)
      BY <1>2, IntroducedNumber DEF Going, Mapped
  <2> QED
      BY <2>1, <2>3, <2>4 DEF Going
<1>3. ASSUME NEW d \in Domid, Breaks(d)
      PROVE  Going'
  <2>1. domains[d] \in Object /\ Mapped(d) /\ domains[d].alive
      BY <1>3, NoObjectIsNone DEF Breaks, NoObject, Mapped
  <2>2. /\ created' = created
        /\ Mapped(d)' => domains'[d].id = domains[d].id /\ ~domains'[d].alive
        /\ \A e \in Domid : e # d => domains'[e] = domains[e]
      BY <1>3, <2>1 DEF Breaks, Object
  <2>3. events' = Append(events, Dead(d, domains[d].id)) /\ ~HasDead(events, d, domains[d].id)
      BY <1>3, <1>0, <2>1 DEF Breaks, Going
  <2>4. /\ OnceDead(events')
        /\ \A e, j : HasDead(events', e, j)
                        <=> HasDead(events, e, j) \/ (e = d /\ j = domains[d].id)
      BY <1>1, <2>3, DeadAppend DEF Going
  <2>5. \A e \in Domid, i \in 1 .. MaxObjects : HasDead(events', e, i) =>
            /\ i <= created'
            /\ Mapped(e)' => i <= domains'[e].id
            /\ Mapped(e)' /\ i = domains'[e].id => ~domains'[e].alive
      BY <1>0, <2>1, <2>2, <2>4 DEF Going, Mapped, Numbered
  <2>6. \A e \in Domid : Mapped(e)' /\ ~domains'[e].alive => HasDead(events', e, domains'[e].id)
      BY <2>1, <2>2, <2>4 DEF Going, Mapped
  <2> QED
      BY <2>4, <2>5, <2>6 DEF Going
<1>4. ASSUME ~\E d \in Domid : Introduce(d) \/ Breaks(d)
      PROVE  /\ created' = created
             /\ \A e \in Domid : Mapped(e)' => /\ Mapped(e) /\ domains'[e].id = domains[e].id
                                              /\ domains'[e].alive = domains[e].alive
    BY <1>4, ObjectsKept, CreatedKept
<1>5. ASSUME ~\E d \in Domid : Introduce(d) \/ Breaks(d),
             OnceDead(events'),
             \A d, i : HasDead(events', d, i) => HasDead(events, d, i),
             \A d \in Domid : Mapped(d)' /\ HasDead(events, d, domains[d].id)
                                => HasDead(events', d, domains[d].id)
      PROVE  Going'
    BY <1>4, <1>5 DEF Going
<1>6. ASSUME Run PROVE ~\E d \in Domid : Introduce(d) \/ Breaks(d)
  <2>1. Len(events) > 0 /\ events \in Seq(Event)
      BY <1>1, QueueHead
  <2>2. CASE RunPoll
    <3>1. ASSUME NEW d \in Domid, Introduce(d) PROVE FALSE
        BY <2>2, <3>1, IntroducedNumber DEF RunPoll, Mapped
    <3>2. ASSUME NEW d \in Domid, Breaks(d) PROVE FALSE
      <4>1. domains[d] \in Object /\ domains[d].alive
          BY <3>2 DEF Breaks, NoObject
      <4>2. ~domains'[d].alive
          BY <3>2, <4>1 DEF Breaks, Object
      <4> QED
          BY <2>2, <4>1, <4>2 DEF RunPoll
    <3> QED
        BY <3>1, <3>2
  <2>3. CASE RunDead \/ RunVirq
    <3>1. Len(events') = Len(events) - 1
        BY <2>1, <2>3 DEF RunDead, RunVirq
    <3>2. ASSUME NEW d \in Domid, Introduce(d) \/ Breaks(d)
          PROVE  FALSE
      <4>1. Len(events') \in {Len(events), Len(events) + 1}
          BY <2>1, <3>2 DEF Introduce, Breaks
      <4> QED
          BY <2>1, <3>1, <4>1
    <3> QED
        BY <3>2
  <2> QED
      BY <1>6, <2>2, <2>3 DEF Run
<1>7. CASE RunPoll
  <2>1. PICK q \in {<<Poll>>, <<Virq, Poll>>} : events' = Tail(events) \o q
      BY <1>7 DEF RunPoll
  <2>2. q \in Seq(Event) /\ \A j \in 1 .. Len(q) : q[j].kind # "dead"
    <3>1. Poll \in Event /\ Virq \in Event /\ Poll.kind # "dead" /\ Virq.kind # "dead"
        BY DEF Event, Poll, Virq
    <3>2. CASE q = <<Poll>>
        BY <3>1, <3>2
    <3>3. CASE q = <<Virq, Poll>>
        BY <3>1, <3>3
    <3> QED
        BY <3>2, <3>3
  <2>3. Head(events).kind # "dead" /\ Tail(events) \in Seq(Event)
      BY <1>1, <1>7, QueueHead DEF RunPoll, RunNext
  <2>4. \A d, i : Head(events) # Dead(d, i)
      BY <2>3, DeadFields
  <2>5. /\ OnceDead(events')
        /\ \A d, i : HasDead(events', d, i) <=> HasDead(Tail(events), d, i)
      BY <1>1, <2>1, <2>2, <2>3, DeadConcat, DeadTail DEF Going
  <2>6. \A d, i : HasDead(Tail(events), d, i) <=> HasDead(events, d, i)
      BY <1>1, <2>4, DeadTail
  <2> QED
      BY <1>1, <1>5, <1>6, <1>7, <2>5, <2>6 DEF Run
<1>8. CASE RunVirq
  <2>1. Head(events).kind # "dead" /\ events' = Tail(events)
      BY <1>8 DEF RunVirq, RunNext
  <2>2. \A d, i : Head(events) # Dead(d, i)
      BY <2>1, DeadFields
  <2>3. OnceDead(events') /\ \A d, i : HasDead(events', d, i) <=> HasDead(events, d, i)
      BY <1>1, <2>1, <2>2, DeadTail DEF Going
  <2> QED
      BY <1>1, <1>5, <1>6, <1>8, <2>3 DEF Run
<1>9. CASE RunDead
  <2>1. events' = Tail(events) /\ domains' = Without({Head(events).dom})
      BY <1>9 DEF RunDead
  <2>2. OnceDead(events') /\ \A d, i : HasDead(events', d, i) => HasDead(events, d, i)
      BY <1>1, <2>1, DeadTail DEF Going
  <2>3. ASSUME NEW d \in Domid, Mapped(d)', HasDead(events, d, domains[d].id)
        PROVE  HasDead(events', d, domains[d].id)
    <3>1. d # Head(events).dom
        BY <1>1, <2>1, <2>3, WithoutType DEF Mapped
    <3>2. Head(events) # Dead(d, domains[d].id)
        BY <3>1, DeadFields
    <3> QED
        BY <1>1, <2>1, <2>3, <3>2, DeadTail
  <2> QED
      BY <1>1, <1>5, <1>6, <1>9, <2>2, <2>3 DEF Run
<1>10. CASE ~Run /\ ~\E d \in Domid : Introduce(d) \/ Breaks(d)
  <2>1. events' = events
      BY <1>10 DEF Next, Host, HostEnds, HostStarts, Interrupt, Clients, Release, Callback, Scan,
         ScanFails, ReleaseLists, Ack, Unmask, vars
  <2> QED
      BY <1>1, <1>5, <1>10, <2>1 DEF Going
<1> QED
    BY <1>1, <1>2, <1>3, <1>7, <1>8, <1>9, <1>10 DEF Run

LEMMA BrokenInit == Init => Broken
<1> SUFFICES ASSUME Init PROVE Broken
    OBVIOUS
<1>1. \A d \in Domid : ~Mapped(d)
    BY DEF Init, Mapped
<1>2. \A d, i : ~HasDead(events, d, i)
    BY Kinds DEF Init, HasDead
<1>3. OnceDead(events)
    BY DEF Init, OnceDead
<1>4. Numbered
    BY <1>1 DEF Numbered
<1> QED
    BY <1>1, <1>2, <1>3, <1>4, TypedInit DEF Broken, Going

(* A domain whose ring broke is deleted by one event of its own, and no    *)
(* such event waits for a domain that lives, for any number of domains.    *)
THEOREM BrokenGoes == Spec => []BrokenWillGo
<1>1. Broken => BrokenWillGo
  <2> SUFFICES ASSUME Broken PROVE BrokenWillGo
      OBVIOUS
  <2> USE TypedUnfolded DEF Broken
  <2>1. \A d \in Domid : Mapped(d) /\ ~domains[d].alive =>
            \E k \in DOMAIN events : events[k] = Dead(d, domains[d].id)
      BY DEF Going, HasDead
  <2>2. ASSUME NEW d \in Domid, NEW k \in DOMAIN events, events[k] = Dead(d, domains[d].id)
        PROVE  ~domains[d].alive
    <3>1. CASE Mapped(d)
      <4>1. domains[d].id \in 1 .. MaxObjects
          BY <3>1 DEF Mapped, Object
      <4> QED
          BY <2>2, <3>1, <4>1 DEF Going, HasDead
    <3>2. CASE ~Mapped(d)
        BY <3>2 DEF Mapped, NoObject
    <3> QED
        BY <3>1, <3>2
  <2>3. OnceDead(events)
      BY DEF Going
  <2> QED
      BY <2>1, <2>2, <2>3 DEF BrokenWillGo, OnceDead
<1> QED
    BY <1>1, BrokenInit, BrokenNext, PTL DEF Spec

(* The causes for which a domain is removed, as an action of the module.   *)
CausedRemoval ==
    \A d \in Domid : Mapped(d) /\ domains'[d].id # domains[d].id =>
          \/ Release(d)
          \/ ReleaseLists /\ d \in dead_list
          \/ \E i \in 1 .. domains[d].id : RunDead /\ Head(events) = Dead(d, i)

LEMMA RemovalCaused == Broken /\ Next => CausedRemoval
<1> SUFFICES ASSUME Broken, Next, NEW d \in Domid, Mapped(d), domains'[d].id # domains[d].id
             PROVE  \/ Release(d)
                    \/ ReleaseLists /\ d \in dead_list
                    \/ \E i \in 1 .. domains[d].id : RunDead /\ Head(events) = Dead(d, i)
    BY DEF CausedRemoval
<1> USE TypedUnfolded DEF Broken
<1>1. TypeOK
    BY DEF Typed
<1>2. ~Mapped(d)'
    BY ObjectsKept DEF Introduce
<1>3. domains[d].id \in 1 .. MaxObjects /\ domains[d] \in Object
    BY DEF Mapped, Object
<1>4. ASSUME NEW e \in Domid, HostEnds(e) \/ HostStarts(e) \/ Interrupt(e)
      PROVE  FALSE
  <2>1. domains' = domains \/ domains' = [domains EXCEPT ![e].late = FALSE]
      BY <1>4 DEF HostEnds, HostStarts, Interrupt
  <2>2. [domains EXCEPT ![e].late = FALSE][d].id = domains[d].id
      BY <1>1, LateType
  <2> QED
      BY <2>1, <2>2
<1>5. ASSUME NEW e \in Domid, Introduce(e) PROVE FALSE
    BY <1>2, <1>5, IntroducedNumber DEF Mapped
<1>6. ASSUME NEW e \in Domid, Release(e) PROVE Release(d)
  <2>1. d \in {e}
      BY <1>1, <1>2, <1>6, WithoutType DEF Release, Mapped
  <2> QED
      BY <1>6, <2>1
<1>7. ASSUME NEW e \in Domid, Breaks(e) PROVE FALSE
  <2>1. domains' = [domains EXCEPT ![e].alive = FALSE]
      BY <1>7 DEF Breaks
  <2>2. CASE e = d
    <3>1. domains'[d] = [domains[d] EXCEPT !.alive = FALSE]
        BY <2>1, <2>2
    <3> QED
        BY <1>3, <3>1 DEF Object
  <2>3. CASE e # d
      BY <2>1, <2>3
  <2> QED
      BY <2>2, <2>3
<1>8. CASE Run
  <2>1. RunDead /\ d = Head(events).dom
    <3>1. ~(RunPoll \/ RunVirq)
        BY <1>2 DEF RunPoll, RunVirq, Mapped
    <3>2. RunDead
        BY <1>8, <3>1 DEF Run
    <3>3. domains' = Without({Head(events).dom})
        BY <3>2 DEF RunDead
    <3>4. d \in {Head(events).dom}
        BY <1>1, <1>2, <3>3, WithoutType DEF Mapped
    <3> QED
        BY <3>2, <3>4
  <2>2. /\ Head(events) = Dead(d, Head(events).id) /\ Head(events).id \in 1 .. MaxObjects
        /\ Head(events) = events[1] /\ 1 \in DOMAIN events
      BY <1>1, <2>1, QueueHead DEF RunDead, RunNext
  <2>3. Head(events).id <= domains[d].id
      BY <2>2 DEF Going, HasDead
  <2>4. Head(events).id \in 1 .. domains[d].id
      BY <1>3, <2>2, <2>3
  <2> QED
      BY <2>1, <2>2, <2>4
<1>9. CASE Callback
  <2>1. ASSUME NEW e \in Domid, Scan(e) PROVE FALSE
      BY <2>1, ScanObjects
  <2>2. ReleaseLists /\ d \in dead_list
      BY <1>1, <1>2, <1>9, <2>1, WithoutType
         DEF Callback, ScanFails, ReleaseLists, Ack, Unmask, Mapped
  <2> QED
      BY <2>2
<1> QED
    BY <1>4, <1>5, <1>6, <1>7, <1>8, <1>9 DEF Next, Host, Clients

(* A domain is only removed on request, because it was found dead, or by   *)
(* an event of its own ring or of an earlier domain with its number.       *)
THEOREM RemovalsHaveCause == Spec => RemovedForCause
<1>1. Broken /\ [Next]_vars => [CausedRemoval]_vars
    BY RemovalCaused
<1>2. Spec => [][CausedRemoval]_vars
    BY <1>1, BrokenInit, BrokenNext, PTL DEF Spec
<1> QED
    BY <1>2 DEF RemovedForCause, CausedRemoval

=============================================================================
