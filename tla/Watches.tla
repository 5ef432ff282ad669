------------------------------ MODULE Watches ------------------------------
(***************************************************************************)
(* Watches: the event queue that drives the daemon (event_mgr, epoll), the *)
(* clients it serves, the watch manager (watch_mgr) and the xenstore       *)
(* facade, which turns successful store operations into watch events.      *)
(*                                                                         *)
(* Everything runs in one thread: event_mgr::run executes the event at the *)
(* head of the queue and erases it when it returns.  A readable client's   *)
(* event stays at the head while process_rx handles its requests, one      *)
(* action per request.  What the store answers is left open here (module   *)
(* MStore says when an operation succeeds): an action stands for an        *)
(* operation that succeeded, and one that failed changes nothing.          *)
(***************************************************************************)
EXTENDS Integers, FiniteSets, Sequences, SequencesExt

CONSTANTS
    Path,      \* path strings, split at '/': "/a" is <<"", "a">>, "/" <<"", "">>
    Socket,    \* clients connected to a unix socket
    Domain,    \* guest domains, which talk through a shared ring
    DomPath,   \* xs_proto_base::dom_path of every client
    Watch,     \* the addresses a watch_cb can live at
    Tid,       \* transaction ids other than 0, which means none
    MaxEvents, \* bound: length of the event queue and of a transaction's list
    MaxChanges \* bound: changes made in one transaction

Client == Socket \cup Domain

(* The names that announce domains.                                        *)
Introduced == <<"@introduceDomain">>
Released == <<"@releaseDomain">>
Special == {Introduced, Released}

ASSUME PathAssumption ==
    /\ Path \subseteq Seq(STRING) \ {<<>>}
    /\ \A p \in Path : \A n \in 1 .. Len(p) : SubSeq(p, 1, n) \in Path
    /\ Special \subseteq Path
ASSUME OtherAssumption ==
    /\ DomPath \in [Client -> Seq(STRING) \ {<<>>}]
    /\ Socket \cap Domain = {}
    /\ Watch \subseteq Nat
    /\ IsFiniteSet(Watch) /\ IsFiniteSet(Client)
    /\ MaxEvents \in Nat /\ MaxChanges \in Nat

VARIABLES
    active,   \* event_mgr::active
    events,   \* event_mgr::events
    clients,  \* every client object: "none", "alive", or "dead" (connection lost)
    watches,  \* the watch_cb at every address, held by its client's watch_map
    db,       \* watch_mgr::db: what is registered under every path
    tdb,      \* watch_mgr::tdb: events a transaction fires when it commits
    changes,  \* what every open transaction changed, and who watched then
    trans,    \* the open transactions of the store
    owed      \* history: how many changes of a path each watch was not told of yet

vars == <<active, events, clients, watches, db, tdb, changes, trans, owed>>

-----------------------------------------------------------------------------
(* Data.                                                                   *)

NoWatch == [client |-> "none"]
WatchCb == [client : Client, path : Path, relative : BOOLEAN]

WatchEvent == [kind : {"watch"}, key : Path, cb : Watch, path : Path]
Event == WatchEvent \cup [kind : {"poll", "accept", "expired"}]
                    \cup [kind : {"io", "dead"}, client : Client]

(* How many elements of the sequence s are in S.                           *)
Count(s, S) == Cardinality({i \in DOMAIN s : s[i] \in S})

Live(w) == watches[w] # NoWatch
LiveWatches == {w \in Watch : Live(w)}

(* The store reads "/a/" as "/a", and "/" as "" (the root).                *)
Norm(p) == IF Len(p) > 1 /\ Last(p) = "" THEN Front(p) ELSE p

-----------------------------------------------------------------------------
(* The watch manager.                                                      *)

(* db after watch w is added on path p, or removed from it.                *)
Registered(p, w) ==
    [k \in Path |->
        [path     |-> db[k].path \cup (IF k = p THEN {w} ELSE {}),
         children |-> db[k].children \cup
                          (IF IsStrictPrefix(k, p) THEN {w} ELSE {})]]

(* A faulty Unregistered that forgets the parents.                         *)
UnregisteredBelow(ws) ==
    [k \in Path |-> [path     |-> db[k].path \ ws,
                     children |-> db[k].children]]

Unregistered(ws) ==
    [k \in Path |-> [path     |-> db[k].path \ ws,
                     children |-> db[k].children \ ws]]

(* A faulty FireUpwards that stops at the path itself.                     *)
FireHere(d, p) ==
    {[kind |-> "watch", key |-> p, cb |-> w, path |-> p] : w \in d[p].path}

(* fire and fire_parents, when d is registered: the watches on p and on    *)
(* its parents, as basename() peels them off.                              *)
FireUpwards(d, p) ==
    UNION {{[kind |-> "watch", key |-> k, cb |-> w, path |-> p] : w \in d[k].path} :
              k \in {q \in Path : IsPrefix(q, p)}}

(* fire_children.                                                          *)
FireChildren(d, p) ==
    {[kind |-> "watch", key |-> p, cb |-> w, path |-> watches[w].path] :
        w \in d[p].children}

(* Events in the order they are queued: from a path to its parents, and    *)
(* those of one path by address, as a std::set of pointers is traversed.   *)
Before(e, f) ==
    \/ Len(e.key) > Len(f.key)
    \/ Len(e.key) = Len(f.key) /\ e.cb < f.cb

InOrder(es) ==
    [i \in 1 .. Cardinality(es) |->
        CHOOSE e \in es : Cardinality({f \in es : Before(f, e)}) = i - 1]

(* What the facade fires after a change of p: store_write, store_mkdir and *)
(* store_set_perms, or store_rm.                                           *)
Fires(d, p, rm) ==
    InOrder(FireUpwards(d, p)) \o (IF rm THEN InOrder(FireChildren(d, p)) ELSE <<>>)

(* Watches on a path with a trailing '/', the root's "/" among them, are   *)
(* registered under that very string: the README says what they miss.      *)
Plain(w) == Live(w) /\ watches[w].path = Norm(watches[w].path)

(* Which path a change of p is news about, to a watch on r: p itself when  *)
(* r is p or above it, and r, which went away, when p was removed above it *)
(* (above that very string: the manager does not strip a final '/').       *)
Concerns(p, rm, r, q) ==
    \/ IsPrefix(r, Norm(p)) /\ q = Norm(p)
    \/ rm /\ IsStrictPrefix(p, r) /\ q = r

Concerned(p, rm) ==
    {x \in Watch \X Path : Plain(x[1]) /\ Concerns(p, rm, watches[x[1]].path, x[2])}

-----------------------------------------------------------------------------
(* The event loop.                                                         *)

Running(kind) == active /\ events # <<>> /\ Head(events).kind = kind
Room(s) == Len(s) <= MaxEvents

Io(c) == [kind |-> "io", client |-> c]
Dead(c) == [kind |-> "dead", client |-> c]
Alive == {c \in Client : clients[c] = "alive"}

(* A faulty Poll that puts what is ready, and itself, ahead of the queue.  *)
PollFirst ==
    /\ Running("poll")
    /\ \E s \in SetToAllKPermutations({Io(c) : c \in Alive} \cup {[kind |-> "accept"]}) :
          events' = s \o <<[kind |-> "poll"]>> \o Tail(events)
    /\ Room(events')
    /\ UNCHANGED <<active, clients, watches, db, tdb, changes, trans, owed>>

(* A faulty Poll that does not come back when nothing was ready.            *)
PollOnce ==
    /\ Running("poll")
    /\ \E s \in SetToAllKPermutations({Io(c) : c \in Alive} \cup {[kind |-> "accept"]}) :
          events' = Tail(events) \o (IF s = <<>> THEN <<>> ELSE s \o <<[kind |-> "poll"]>>)
    /\ Room(events')
    /\ UNCHANGED <<active, clients, watches, db, tdb, changes, trans, owed>>

(* epoll::handle: queue what epoll_wait returned, then itself.             *)
Poll ==
    /\ Running("poll")
    /\ \E s \in SetToAllKPermutations({Io(c) : c \in Alive} \cup {[kind |-> "accept"]}) :
          events' = Append(Tail(events) \o s, [kind |-> "poll"])
    /\ Room(events')
    /\ UNCHANGED <<active, clients, watches, db, tdb, changes, trans, owed>>

(* unix_sock_server::callback: a new client.                               *)
Accept ==
    /\ Running("accept")
    /\ \/ \E c \in Socket : /\ clients[c] = "none"
                            /\ clients' = [clients EXCEPT ![c] = "alive"]
       \/ clients' = clients
    /\ events' = Tail(events)
    /\ UNCHANGED <<active, watches, db, tdb, changes, trans, owed>>

(* The connection of c fails; its death is queued.                         *)
Dies(c) == clients' = [clients EXCEPT ![c] = "dead"]

(* process_rx runs out of requests, or the connection was dead already.    *)
IoDone ==
    /\ Running("io") \/ Running("expired")
    /\ events' = Tail(events)
    /\ UNCHANGED <<active, clients, watches, db, tdb, changes, trans, owed>>

(* The connection fails while it is read or answered.                      *)
IoFails ==
    /\ Running("io")
    /\ LET c == Head(events).client
       IN  /\ clients[c] = "alive"
           /\ Dies(c)
           /\ events' = Append(Tail(events), Dead(c))
    /\ UNCHANGED <<active, watches, db, tdb, changes, trans, owed>>

(* watch_mgr::callback: tell the client, if the watch is still registered. *)
Deliverable(e) == e.cb \in db[e.key].path \cup db[e.key].children

Settle(w, p) ==
    owed' = [owed EXCEPT ![<<w, Norm(p)>>] = IF @ = 0 THEN 0 ELSE @ - 1]

(* A faulty RunWatch that reports a dead connection dead again.            *)
RunWatchAgain ==
    /\ Running("watch")
    /\ LET e == Head(events)
           c == watches[e.cb].client
       IN  IF Deliverable(e)
           THEN /\ Settle(e.cb, e.path)
                /\ \/ clients' = clients /\ events' = Tail(events)
                   \/ /\ Dies(c)
                      /\ events' = Append(Tail(events), Dead(c))
           ELSE UNCHANGED <<owed, clients>> /\ events' = Tail(events)
    /\ UNCHANGED <<active, watches, db, tdb, changes, trans>>

RunWatch ==
    /\ Running("watch")
    /\ LET e == Head(events)
           c == watches[e.cb].client
       IN  IF Deliverable(e)
           THEN /\ Settle(e.cb, e.path)
                /\ \/ clients' = clients /\ events' = Tail(events)
                   \/ /\ clients[c] = "alive"
                      /\ Dies(c)
                      /\ events' = Append(Tail(events), Dead(c))
           ELSE UNCHANGED <<owed, clients>> /\ events' = Tail(events)
    /\ UNCHANGED <<active, watches, db, tdb, changes, trans>>

Owe(xs) == owed' = [x \in Watch \X Path |-> owed[x] + (IF x \in xs THEN 1 ELSE 0)]

(* A watch goes away: it leaves the database, the allocator may reuse its  *)
(* address, and nothing is owed to it any more.  The others may be owed    *)
(* something at the same time: the pairs of told.                          *)
DropWatches(ws, told) ==
    /\ watches' = [w \in Watch |-> IF w \in ws THEN NoWatch ELSE watches[w]]
    /\ db' = Unregistered(ws)
    /\ changes' = [t \in Tid |-> [i \in DOMAIN changes[t] |->
                                     [changes[t][i] EXCEPT !.watchers = @ \ ws]]]
    /\ owed' = [x \in Watch \X Path |->
                   IF x[1] \in ws THEN 0 ELSE owed[x] + (IF x \in told THEN 1 ELSE 0)]

(* The object of a client is deleted.                                      *)
Destroyed(c) == clients' = [clients EXCEPT ![c] = "none"]

(* What epoll queued for c does nothing any more once c is deleted: the    *)
(* weak pointer of its connection expired (sock_conn_cb::callback).        *)
Expire(c) ==
    [i \in DOMAIN events |->
        IF events[i] = Io(c) THEN [kind |-> "expired"] ELSE events[i]]

(* A faulty RunDead: the client is deleted and its watches are left behind.*)
RunDeadLeaving ==
    /\ Running("dead")
    /\ clients' = [clients EXCEPT ![Head(events).client] = "none"]
    /\ events' = Tail(events)
    /\ UNCHANGED <<active, watches, db, tdb, changes, trans, owed>>

(* client_dead, domain_dead: delete the client, whose destructor removes   *)
(* its watches.                                                            *)
RunDead ==
    /\ Running("dead")
    /\ LET c == Head(events).client
       IN  /\ Destroyed(c)
           /\ DropWatches({w \in LiveWatches : watches[w].client = c}, {})
           /\ events' = Tail(Expire(c))
    /\ UNCHANGED <<active, tdb, trans>>

(* domain_mgr::create, unless the domain is there.                         *)
Created(d) ==
    /\ clients[d] = "none"
    /\ clients' = [clients EXCEPT ![d] = "alive"]

(* SIGINT: event_mgr::disable.                                             *)
Disable ==
    /\ active
    /\ active' = FALSE
    /\ UNCHANGED <<events, clients, watches, db, tdb, changes, trans, owed>>

-----------------------------------------------------------------------------
(* Requests of client c, whose event is at the head of the queue.          *)

Requests(c) ==
    /\ Running("io")
    /\ Head(events).client = c
    /\ clients[c] = "alive"

(* op_watch and watch_mgr::add: a new watch is told its own path at once.  *)
OpWatch(c, p, relative) ==
    /\ Requests(c)
    /\ relative => IsStrictPrefix(DomPath[c], p)
    /\ \A w \in LiveWatches : ~(watches[w].client = c /\ watches[w].path = p)
    /\ \E w \in Watch \ LiveWatches :
          /\ watches' = [watches EXCEPT ![w] =
                            [client |-> c, path |-> p, relative |-> relative]]
          /\ db' = Registered(p, w)
          /\ events' = Append(events, [kind |-> "watch", key |-> p, cb |-> w, path |-> p])
          /\ Owe({<<w, Norm(p)>>})
    /\ Room(events')
    /\ UNCHANGED <<active, clients, tdb, changes, trans>>

(* op_unwatch.                                                             *)
OpUnwatch(c, p) ==
    /\ Requests(c)
    /\ \E w \in LiveWatches :
          /\ watches[w].client = c /\ watches[w].path = p
          /\ DropWatches({w}, {})
    /\ UNCHANGED <<active, events, clients, tdb, trans>>

(* An operation that changed p, outside any transaction.                   *)
OpChange(c, p, rm) ==
    /\ Requests(c)
    /\ events' = events \o Fires(db, p, rm)
    /\ Room(events')
    /\ Owe(Concerned(p, rm))
    /\ UNCHANGED <<active, clients, watches, db, tdb, changes, trans>>

(* op_introduce: domain_mgr::create and the announcement.                  *)
OpIntroduce(c, d) ==
    /\ Requests(c)
    /\ Created(d)
    /\ events' = events \o Fires(db, Introduced, FALSE)
    /\ Room(events')
    /\ Owe(Concerned(Introduced, FALSE))
    /\ UNCHANGED <<active, watches, db, tdb, changes, trans>>

(* op_release of another domain: domain_mgr::destroy and the announcement, *)
(* which finds the watches of d gone.  An event that reports d dead stays  *)
(* in the queue, for it is bound to the number of the domain.              *)
OpRelease(c, d) ==
    LET ws == {w \in LiveWatches : watches[w].client = d}
        told == {x \in Concerned(Released, FALSE) : x[1] \notin ws}
    IN  /\ Requests(c)
        /\ c # d /\ clients[d] # "none"
        /\ Destroyed(d)
        /\ DropWatches(ws, told)
        /\ events' = Expire(d) \o Fires(Unregistered(ws), Released, FALSE)
        /\ Room(events')
        /\ UNCHANGED <<active, tdb, trans>>

(* A faulty OpTransChange that does not wait for the commit.               *)
OpTransChangeNow(c, t, p, rm) ==
    /\ Requests(c)
    /\ t \in trans
    /\ events' = events \o Fires(db, p, rm)
    /\ Room(events')
    /\ UNCHANGED <<active, clients, watches, db, tdb, changes, trans, owed>>

(* The same operation inside transaction t.                                *)
OpTransChange(c, t, p, rm) ==
    /\ Requests(c)
    /\ t \in trans
    /\ tdb' = [tdb EXCEPT ![t] = @ \o Fires(db, p, rm)]
    /\ Room(tdb'[t])
    /\ Len(changes[t]) < MaxChanges
    /\ changes' = [changes EXCEPT ![t] =
                      Append(@, [path |-> p, rm |-> rm, watchers |-> LiveWatches])]
    /\ UNCHANGED <<active, events, clients, watches, db, trans, owed>>

(* op_transaction_start.                                                   *)
OpTransactionStart(c, t) ==
    /\ Requests(c)
    /\ t \notin trans
    /\ trans' = trans \cup {t}
    /\ UNCHANGED <<active, events, clients, watches, db, tdb, changes, owed>>

EndTransaction(t) ==
    /\ trans' = trans \ {t}
    /\ changes' = [changes EXCEPT ![t] = <<>>]

(* How many changes of transaction t are news to the watch and path of x.  *)
Noted(t, x) ==
    Cardinality({i \in DOMAIN changes[t] :
                    /\ x[1] \in changes[t][i].watchers
                    /\ x \in Concerned(changes[t][i].path, changes[t][i].rm)})

(* op_transaction_end, when the store merged the transaction.              *)
OpCommit(c, t) ==
    /\ Requests(c)
    /\ t \in trans
    /\ events' = events \o tdb[t]
    /\ Room(events')
    /\ tdb' = [tdb EXCEPT ![t] = <<>>]
    /\ owed' = [x \in Watch \X Path |-> owed[x] + Noted(t, x)]
    /\ EndTransaction(t)
    /\ UNCHANGED <<active, clients, watches, db>>

(* A faulty OpAbort that keeps the list of the transaction.                *)
OpAbortKeeping(c, t) ==
    /\ Requests(c)
    /\ t \in trans
    /\ EndTransaction(t)
    /\ UNCHANGED <<active, events, clients, watches, db, tdb, owed>>

(* op_transaction_end, when it aborted or the merge met a conflict.        *)
OpAbort(c, t) ==
    /\ Requests(c)
    /\ t \in trans
    /\ tdb' = [tdb EXCEPT ![t] = <<>>]
    /\ EndTransaction(t)
    /\ UNCHANGED <<active, events, clients, watches, db, owed>>

-----------------------------------------------------------------------------
Init ==
    /\ active = TRUE
    /\ events = <<[kind |-> "poll"]>>
    /\ clients = [c \in Client |-> "none"]
    /\ watches = [w \in Watch |-> NoWatch]
    /\ db = [k \in Path |-> [path |-> {}, children |-> {}]]
    /\ tdb = [t \in Tid |-> <<>>]
    /\ changes = [t \in Tid |-> <<>>]
    /\ trans = {}
    /\ owed = [x \in Watch \X Path |-> 0]

(* The paths a request can name start with '/' or '@'.                     *)
Named == {p \in Path : Len(p) > 1}

Request(c) ==
    \/ \E p \in Named \cup Special, rel \in BOOLEAN : OpWatch(c, p, rel)
    \/ \E p \in Named \cup Special : OpUnwatch(c, p)
    \/ \E p \in Named, rm \in BOOLEAN : OpChange(c, p, rm)
    \/ \E d \in Domain : OpIntroduce(c, d) \/ OpRelease(c, d)
    \/ \E t \in Tid, p \in Named, rm \in BOOLEAN : OpTransChange(c, t, p, rm)
    \/ \E t \in Tid : OpTransactionStart(c, t)
    \/ \E t \in Tid : OpCommit(c, t)
    \/ \E t \in Tid : OpAbort(c, t)

(* The events that return by themselves, the end of process_rx included.   *)
RunNext == Poll \/ Accept \/ IoDone \/ RunWatch \/ RunDead

Next == RunNext \/ IoFails \/ Disable \/ \E c \in Client : Request(c)

Spec == Init /\ [][Next]_vars

(* The loop keeps running while it is active, and a client is not always   *)
(* ahead of the daemon with yet another request.                           *)
FairSpec == Spec /\ WF_vars(RunNext)

(* The allocator does not hand out an address that an event refers to.     *)
RefersTo(s, w) == \E i \in DOMAIN s : s[i].kind = "watch" /\ s[i].cb = w
FreshAddresses ==
    \A w \in Watch : watches[w] = NoWatch /\ watches'[w] # NoWatch =>
        ~RefersTo(events, w) /\ \A t \in Tid : ~RefersTo(tdb[t], w)

FreshNext == Next /\ FreshAddresses
FreshSpec == Init /\ [][FreshNext]_vars /\ WF_vars(RunNext)

-----------------------------------------------------------------------------
(* Properties.                                                             *)

TypeOK ==
    /\ active \in BOOLEAN
    /\ events \in Seq(Event)
    /\ Count(events, {[kind |-> "poll"]}) = 1
    /\ clients \in [Client -> {"none", "alive", "dead"}]
    /\ watches \in [Watch -> WatchCb \cup {NoWatch}]
    /\ db \in [Path -> [path : SUBSET Watch, children : SUBSET Watch]]
    /\ tdb \in [Tid -> Seq(WatchEvent)]
    /\ changes \in [Tid -> Seq([path : Path, rm : BOOLEAN, watchers : SUBSET Watch])]
    /\ trans \subseteq Tid
    /\ owed \in [Watch \X Path -> Nat]

(* The database holds raw pointers: they are exactly the watches that      *)
(* exist, each under its path and under every parent of it, so that no     *)
(* event reaches a watch_cb that was freed (watch_mgr::add, del).          *)
RegistrationsExact ==
    \A k \in Path :
        /\ db[k].path = {w \in LiveWatches : watches[w].path = k}
        /\ db[k].children = {w \in LiveWatches : IsStrictPrefix(k, watches[w].path)}

(* A watch_cb refers to the protocol object of its client: it never        *)
(* outlives it (the destructor of xs_proto).                               *)
WatchesHaveClients == \A w \in LiveWatches : clients[watches[w].client] # "none"

(* A lost connection is queued for deletion: no client leaks.  The client  *)
(* of a socket is queued once and never deleted twice (conn_dead,          *)
(* client_dead); a domain may be, when it was released in between.         *)
Deaths(c) == Count(events, {Dead(c)})
DeathQueued ==
    /\ \A c \in Client : clients[c] = "dead" => Deaths(c) > 0
    /\ \A c \in Socket : Deaths(c) = (IF clients[c] = "dead" THEN 1 ELSE 0)

(* Only open transactions hold events, so that an id used again never      *)
(* fires what an aborted transaction did (abort_transaction).              *)
OnlyOpenTransactionsFire == \A t \in Tid : tdb[t] # <<>> => t \in trans

(* The events that tell watch w about path q, and how many are on their    *)
(* way.                                                                    *)
News(w, q) == {e \in WatchEvent : e.cb = w /\ Norm(e.path) = q /\ Deliverable(e)}
Pending(w, q) == Count(events, News(w, q))

(* A watch is never left with an outdated view of the store: for every     *)
(* change that took effect and that it was not told of, an event is on its *)
(* way (watch_mgr::fire and its siblings).                                 *)
ToldOfChanges ==
    \A w \in Watch, q \in Path :
        Plain(w) => Pending(w, q) >= owed[w, q]

(* Every change is told exactly once to each watch it concerns: none is    *)
(* lost, repeated, or announced before its transaction commits.  That is   *)
(* so as long as no watch takes the address of one that an event in the    *)
(* queue still refers to.                                                  *)
ToldExactlyOnce ==
    \A w \in Watch, q \in Path :
        Plain(w) => Pending(w, q) = owed[w, q]

(* Every change is eventually told, unless the watch or the daemon goes    *)
(* away: as long as a watch is owed something, its turn in the queue keeps *)
(* coming, for the queue is first in, first out and the poll of the        *)
(* connections waits for its own turn (event_mgr::run, epoll::handle).     *)
Tells(w, q) == RunWatch /\ Head(events).cb = w /\ Norm(Head(events).path) = q
ChangesAreTold ==
    \A w \in Watch, q \in Path :
        \/ []<>(~active \/ ~Plain(w) \/ owed[w, q] = 0)
        \/ []<><<Tells(w, q)>>_vars

(* When a relative watch is called back, the path begins with the domain   *)
(* path that the callback cuts off (watch.cc).                             *)
RelativePathsHaveDomPath ==
    Running("watch") /\ Deliverable(Head(events)) =>
        LET cb == watches[Head(events).cb]
        IN  cb.relative => IsPrefix(DomPath[cb.client], Head(events).path)

=============================================================================
