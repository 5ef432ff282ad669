# LiXS: specifications, model checking and proofs

LiXS is a xenstore daemon: it keeps a tree of small values that the toolstack
and the guest domains of a Xen host share, lets clients change it directly or
in optimistic transactions, and tells them of changes through watches. This
directory models the daemon in TLA+, checks the models with TLC on small
instances and proves the central invariants with TLAPS for all instances.
Everything is translated from the code; paths below are relative to the
repository, and `lixs/` stands for `lib/lixs/` with its headers in `inc/lixs/`.

## The system

The daemon is one thread around one queue of closures (`lixs/event_mgr.cc`).
`run` executes the closure at the head and erases it when it returns. Two
activities of the daemon therefore interleave only between events, but a
request, the event it queues, the connection's failure and the deletion of the
client are separate events, and anything may happen between them.

| Component | State | Operations | Talks to |
|---|---|---|---|
| `mstore` (`lixs/mstore/*`) | tree of records, open transactions, `next_tid` | create, read, update, del, children, perms; branch, merge, abort | called by the facade |
| `watch_mgr` | watches per path and per ancestor (raw pointers), event lists per transaction | add, del, fire, fire_parents, fire_children, fire_transaction, abort_transaction, callback | queues events, calls watch_cb |
| `xenstore` facade | none | store_*, transaction_*, watch_*, domain_introduce/release | mstore, watch_mgr |
| `event_mgr`, `os_linux/epoll` | queue, `active`, callbacks per descriptor | run, enqueue_event, disable; add, set, rem, handle | everything |
| `xs_proto_v1` | message being read, reply queue, the client's watches | process_rx, process_tx, one op_ per request | facade, domain_mgr, connection |
| `sock_conn`, `sock_client`, `unix_sock_server` | socket, alive flag, client map | accept, read, write, callback, client_dead | event_mgr, epoll |
| `ring_conn`, `xenbus` | shared ring indices, event channel | read_chunk, write_chunk, callback | hypervisor, epoll |
| `domain_mgr`, `domain` | domain map, active flag | create, destroy, domain_dead | ring_conn, xs_proto |
| `os_linux/dom_exc` | alive flag | callback on VIRQ_DOM_EXC | domain_mgr, facade |
| `app`, `log`, `util` | options | start-up, output, path splitting | - |

What is hard: optimistic validation that compares sequence numbers which other
operations reset; recursion along a tree whose consistency earlier operations
established; raw pointers in the watch database and in queued closures; events
collected while a transaction runs and fired when it commits; ids and
addresses that are used again; a connection found broken in several places; and
the one queue that polling, requests, events and deletions share.

What makes each part correct:

- mstore: a transaction commits only on current data, reads in it repeat, its
  work is invisible until then and all-or-nothing, unrelated transactions do
  not disturb each other, a lost race stays lost, deletion loops end, the tree
  stays a tree, nothing of a finished transaction remains.
- watches: pointers are exactly the live watches, each change is told once to
  each watch it concerns and eventually, only committed changes are told.
- clients: a broken connection is deleted exactly once, its watches with it.
- rings: bytes arrive once and in order, the daemon is called back while it has
  something to do and never waits for a notification that cannot come, no
  request stays unread.
- sockets: every request is answered once, in order, however reads and writes
  break off, and a socket found broken in several places is reported once.
- domains: no end of a domain is missed, its shutdown is announced once, a domain
  whose ring broke goes, and whatever is removed was removed for a cause.

## Modules

| Module | Role |
|---|---|
| `StoreTree` | paths, permissions, access checks and the sets of paths an operation visits; what `MStore` and the serial specification share |
| `MStore` | the store: state, operations, properties, faulty variants of some operations |
| `MStoreTree` | the store with a history variable of what commits deleted; the shape of the tree |
| `MCMStore`, `MCMStoreTree` | their instances: bounded specifications, the VIEW |
| `MStoreProofs` | theorems about a state: types, and that validation is sound; and about a step: what it may not do to the transactions that are open |
| `MStoreTreeProofs` | theorems about the tree, which rest on what each transaction's copies say of it |
| `SerialTree` | what each request answers and does on a plain tree, without copies or numbers |
| `SerialStore` | the abstract specification: one tree, transactions that happen at their commit |
| `MStoreSerial`, `MCMStoreSerial` | `MStore` with the history that maps it to `SerialStore`; its instance |
| `MStoreSerialProofs` | the theorem that it implements `SerialStore` |
| `Watches` | event queue, clients, watch manager, facade: state, actions, properties |
| `MCWatches`, `WatchesProofs` | instances and a specification that stops at SIGINT; theorems |
| `Domains`, `DomainsProofs` | `domain_mgr`, `domain` and `dom_exc` against a hypervisor; theorems |
| `Wire`, `WireProofs` | messages as both kinds of connection transfer them: header, body, bytes still to come; lemmas about a pipe of such bytes |
| `RingConn` | a guest's connection: rings, event channel, the protocol's state machines, the guest |
| `MCRingConn`, `RingConnProofs` | the VIEW of its safety runs; theorems |
| `SockConn`, `SockConnProofs` | a dom0 client's connection: socket, the protocol's state machines, the client; theorems |

The models compose where the parts interact: `MStore` uses `StoreTree`, and
implements `SerialStore`, which uses `SerialTree`; `RingConn` and `SockConn` both
run the state machines of `xs_proto` over `Wire`, one on rings and one on a
stream; `Watches` holds the event queue, the clients, the watch manager and the
facade together, because its hazards are about what is in the queue when
something else goes away. The store's answers reach `Watches` as "something
changed at these paths".

Definitions of the form `CanMergeRecUnread` or `RunDeadLeaving`, introduced by
"A faulty ...", are what a bug in that spot would look like. No specification
uses them; each was substituted for the correct definition to see that the
property it threatens is violated.

### MStore

`db` maps every path to a record: the entry, the copy (`tentry`) of every
transaction, and `next_seq`. A path absent from the code's map is the default
record, which is what `db[path]` would create. A request runs to completion,
so each store operation is one action: `SimpleCreate`, `SimpleUpdate`,
`SimpleDel`, `SimpleSetPerms` (`simple_access.cc`), the `Trans*` actions
(`transaction.cc`), `Branch`, `Merge`, `Abort` (`store.cc`). Requests that only
read outside transactions change nothing and are left out; inside a
transaction they reference and fetch, so `TransRead` and `TransGetChildren`
are actions. The recursions of `ensure_branch` and `delete_branch` are written
in closed form, as the sets of paths they visit (`Missing`, `Registrars`,
`Subtree`), with the same effect on every sequence number comparison.

Deleting outside transactions has a guard that is not in the code: every
listed descendant is valid. Where it fails the code loops for ever
(`delete_branch`, `simple_access.cc:318`). `ListedChildrenExist` says that it
never does, and `EveryDelReturns` proves that the guard leaves no deletion out.

`MStoreTree` adds one history variable, `undead`: entries deleted by a commit
and still valid (finding 1). `TreeConsistent` says that they are the only entries
that hang off nothing, so that it can be stated of a store with deletion in
transactions.

### SerialStore, and how the store implements it

`SerialStore` is what a xenstore daemon's transactions promise: one tree (`contents`);
clients outside transactions change it by whole requests; a transaction that
commits does so as if all of it had run, at that moment, on the tree as it is
then. It has no copies, numbers or validation. What it keeps of an open
transaction is `worlds`: the pairs of a tree it may have started from and what its
requests would have made of that tree, of which only those survive that give the
very answers the transaction got. A commit needs a world that starts from the
present tree; an abort changes nothing.

`MStoreSerial` adds `worlds` to `MStore` as a history variable, computed from the
answers the copies give (`Found`), and maps the tree to the valid entries
(`Visible`). `Serializable == Serial!Spec` is then checked as a property of the
detailed specification, and proved of it for all constants (`SpecSerializable`). One line of the abstract specification is the code's and
not the promise's: an entry that a transaction leaves deleted keeps its node
(`Committed`), which is finding 1; take it away and the run shows the finding.
A transaction that validation would refuse may have got answers that fit no
world (it read at different moments), and `Inside` allows that: what is required
is that it does not commit.

### Watches

| Code | Model |
|---|---|
| `event_mgr::events`, `active` | `events` (a sequence), `active` |
| closures in the queue | records of kind poll, accept, io, watch, dead; expired for an io whose client is gone (`Expire`) |
| client objects, weak pointers to their connections | `clients`: none, alive, dead |
| `watch_cb` objects in each client's map | `watches`, indexed by address |
| `watch_mgr::db`, `tdb` | `db`, `tdb` |
| keys of `store::trans` | `trans` |

`process_rx` handles requests until nothing is left to read, in one event: its
`io` event stays at the head, each request is an action (`OpWatch`,
`OpUnwatch`, `OpChange`, `OpIntroduce`, `OpRelease`, `OpTransChange`,
`OpTransactionStart`, `OpCommit`, `OpAbort`), and `IoDone` or `IoFails` ends
it. Requests that fail change nothing here. Two variables are history: `changes`
remembers what each open transaction changed and who watched then, and `owed`
counts, for each watch and path, the changes that took effect and that it was
not told of yet. They are computed from the meaning of a watch (`Concerned`),
not from the manager's tables, so that comparing `owed` with the queue says
something about the tables.

### Domains

The hypervisor changes the state of domains while the daemon runs, so here too
the daemon has a program counter, within the one handler where it matters.

| Code | Model |
|---|---|
| what `xc_domain_getinfo` says of each number | `host` |
| changes that VIRQ_DOM_EXC is still to announce; the interrupt | `unsent`, `virq` |
| `domain_mgr::domains`, `domain::active`, the ring's `alive` | `domains`, with `id` and `late` as history |
| queued `domain_dead` | `Dead(d, i)` in `events`: bound to the number; `i` is history |
| `dom_exc::alive`, the loop of `callback`, its two lists | `exc`, `pc`, `todo`, `dead_list`, `dying_list` |

`Scan(d)` asks about one domain; `ReleaseLists` deletes the dead and announces;
`Ack` and `Unmask` end the callback. `op_introduce` and `op_release` are
`Introduce` and `Release`; a broken ring is `Breaks`, which queues the deletion.
`told` counts announcements per object, so that a number introduced again counts
anew. Two domains' ends may be found in either order; the code walks a map, and
the order is not constrained because nothing depends on it.

### SockConn

The same two state machines as in `RingConn`, over a stream socket: `Recv` and
`Send` are one system call each and move any number of bytes up to what is there
or fits; `TxNext` is `prepare_tx` with `build_body`'s length limit (`Built`);
`Handle` answers a request; `WatchEvent` is an event of another client's change
delivered between events or between a poll and its callback. `Poll` fixes what
epoll reported; the callback reads it later, when the connection may be dead. The
client runs concurrently: it may have several requests on their way, reads and
writes in pieces, and closes at any point. A byte is known by its place in its
message.

### RingConn

A guest writes and reads the shared page while the daemon does, so here a
request is not atomic. The daemon has a program counter, and a step for every
look at the page or at the event channel:

| Code | Model |
|---|---|
| `interface->req`, `rsp` and their indices | `req`, `rsp`: data, `prod`, `cons` modulo `IdxMod` |
| event channel: readable, masked, bit set meanwhile | `evtchn` |
| `rx_state`, `rx_buff`, `rx_bytes`, `rx_msg`; `tx_*` | `rx`, `tx`: part, bytes left, message |
| `ring_conn_base::read`, `write` | `RxChunk` once or twice, then `RxDone`; `TxChunk`, `TxDone` |
| `process_rx`, `process_tx`, `prepare_tx` | the ways out of `RxDone`, `TxDone`; `TxNext`; `back` is where `process_tx` returns to |
| `ring_conn_cb::callback` | `Callback`, then `rx` and/or `tx`, `Ack` (`xc_evtchn_pending`), `Unmask` |
| `watch_cb::operator()` | `WatchEvent`, between events or between a poll and its callback |

`RxDone` contains the setting of `ev_read`, the notification of the guest, which
may fail and kill the connection, and the continuation in `process_rx`; these
touch only the daemon's own state, so one step is enough. A byte is known by its
place in its message; what it encodes plays no part. A reply's length is chosen
when its request is handled.

The guest is external code. It is modelled as Xen's own drivers behave: it moves
an index after copying, notifies after each chunk, and before the next one in
the same ring. A guest that notified more rarely (for space, only when the ring
had been full) could make the daemon wait longer than these runs show. The event
channel is external too: a notification makes it readable and masks it, further
ones set a bit that is delivered at the unmask, and it is always writable.

## What the runs check

| Run | Instance | Properties | Shows |
|---|---|---|---|
| `store_record` | one path, clients 0 and 1, a guest permission list, ids 0..2 | CommittableReadsAreCurrent, RecordsSound, RepeatableReads, DoomedStaysDoomed | validation and cleanup on a record, exhaustively |
| `store_tree` | root, /a, /a/b; ids 0..1 | TypeOK, ListedChildrenExist, NoClosedTransactionInRecords, TreeConsistent, DeletedRecordsReclaimed, UncommittedIsInvisible | the recursions, the shape of the tree, bookkeeping, id wrap, isolation |
| `store_serial` | root, /a; two values; ids 1 and 2, each used once | Serializable, DoomedOnlyByConflict | two transactions and outside changes racing: the store implements `SerialStore` |
| `store_del` | root, /a; ids 0..1 | CommittedDeleteRemoves, violated | finding 1 |
| `watch_reuse` | a socket client, a domain, one watch address, one transaction | TypeOK, WatchesHaveClients, DeathQueued, OnlyOpenTransactionsFire, ToldOfChanges | failures and reuse of addresses at any point |
| `watch_once` | a socket client, two watch addresses, "/" and nested paths | RegistrationsExact, ToldExactlyOnce, ChangesAreTold | exact delivery, and delivery in the end |
| `watch_aba` | a domain with relative watches | RelativePathsHaveDomPath, violated | finding 2 |
| `domains` | two numbers, two domain objects | TypeOK, NothingMissed, BrokenWillGo, ShutdownToldOnce, RemovedForCause, EndsAreNoticed | the interrupt against a hypervisor that does not wait |
| `ring` | rings of 2 bytes, indices modulo 4, a guest with a request, a watch event | TypeOK, BytesInOrder, InterestExact, DiesOnce, AckReturns | the connection under every interleaving |
| `ring_sync` | the same without watch events, headers of 2, bodies of 0 or 1 byte | NoLostWakeup, RequestsAnswered | a guest that waits for each reply is served |
| `ring_lost` | as `ring` | NoLostWakeup, violated | finding 3 |
| `sock` | a socket of 2 bytes, headers of 2, bodies of 0 or 1, two requests at a time, answers of 0 or 2 (too long), a watch event | TypeOK, BytesInOrder, RequestsAccounted, InterestExact, DiesOnce, RequestsAnswered | pipelined requests over every partial read and write |

Every property of a passing run was seen to fail when one definition of its model
is replaced by a faulty one (`PROJECT.json`, "mutants").

### Bounds, and why they are enough

*Sequence numbers* grow without bound, but the store only ever compares two
numbers of the same record, and none of its decisions depends on how far apart
they are. `View` in `MCMStore` keeps the outcome of every comparison an
operation can make and drops the numbers, so `store_record` and `store_del`
have no bound on steps at all. On trees the number of orders
explodes, so `store_tree` and `store_serial` also bound the sum of
`next_seq` over all paths (`MaxStamps`). Under a bound the View makes them a
search of the shortest way to every distinguishable situation, not a full
enumeration: 16 stamps on three paths (188,572 states) and 11 on two (69,446) are
enough to create, delete, recreate and merge a branch in a transaction against
outside changes of it. The conditions of `can_merge` are evaluated record by
record, which is why one path suffices for validation, and why more is only
needed for the tree.

*Transaction ids.* Id 0 means "no transaction", so ids modulo 2 leave one usable
transaction and modulo 3 two at a time; both wrap constantly, which the real
counter does after 2^32. Two usable ids give every pairwise race; a third
transaction can only act on a record in ways the second already can. In
`store_serial` each id is used once (`IdsOnce`): what it looks for is two
transactions racing, and ids that are used again are the subject of
`store_record` and `store_tree`.

*Starting worlds.* `World` in `MCMStoreSerial` is every assignment of nodes to the
paths, plausible or not, so that a transaction's history is not helped by knowing
which trees can occur.

*The root stays* in the tree runs (`RootStays`): a client with access to "/"
can delete it, and `store_record` includes that for the record; with the tree
it only multiplies cases in which everything is missing.

*Watches.* `MaxEvents` bounds the queue and a transaction's list, `MaxChanges`
the changes per transaction. An event acts on the queue's head and tail only,
so longer queues repeat the same situations at greater distance. `watch_reuse`
stops at SIGINT (`RunningSpec`), after which nothing happens; the other runs
include it.

*Rings.* A message of a header byte and a body of two does not fit a ring of two
bytes, so every message is cut, fills the ring, and starts at either place in it
(in `ring_sync` it is the header that is cut);
indices modulo 4 wrap within two messages and still tell a full ring from an
empty one, as 2^32 does for 1024. A chunk is copied in one step: while the daemon
copies, the guest can only add to what is readable, or to the space. The lengths
do not depend on the ring's size otherwise. `MaxOutstanding` is one request;
`MaxQueue` lets one watch event be queued at a time, any number in sequence.
`View` leaves out ring data already consumed and variables that are set before
they are read again; liveness is checked without it.

*Domains.* `MaxObjects` bounds how often a domain is introduced: two objects can
hold both numbers, or one number after the other, which is what a stale
`domain_dead` needs (456,992 states). The hypervisor's changes are not bounded.

*Sockets.* A header of two bytes in a socket of two is cut at every place, and so
is what follows it; an answer of two bytes exceeds the payload limit of one, so
each answer is either empty or replaced by an error. Two identifiers allow two
requests at a time, so that one can be received while another is being answered;
`MaxQueue` one lets a watch event in whenever the queue is empty (560,610
states).

### Fairness

`ChangesAreTold` assumes weak fairness of `RunNext`: an event at the head of the
queue eventually returns. For the events of the daemon's own making that is
what `event_mgr::run` does. For a readable client it assumes that `process_rx`
ends, that is, that a client is not for ever ahead of the daemon with one more
request: the code has no limit there, and a client that manages it stops the
daemon from serving anyone else. Nothing else is assumed; in particular that a
later event is reached is a consequence of the queue's order, and a poll that
put itself and what is ready ahead of the queue breaks it.

`RequestsAnswered`, in `RingConn` and in `SockConn`, assumes that the daemon goes
on with what it has begun (`Working`), that a poll and a callback get their turn
however many watch events come between (strong fairness of `Poll` and `Callback`,
which the FIFO queue gives), and that the peer finishes what it writes and reads
what is there (a guest also notifies). The peer may stop sending requests at any
time. Nothing requires it to send further ones, which would hide a lost
notification.

`EndsAreNoticed` assumes that the hypervisor delivers the interrupts it owes
(`Interrupt(d)`), that the queue goes on (`Run`), and that the callback does
(`Callback`). The conclusion is that a domain that ended does not stay as it
is, or that an error has switched the handler off, after which the code never
listens again.

The bound on the queue could disable an action that the code would take. It
never disables `RunNext`: `Poll` may report no client at all, which does not
lengthen the queue.

## Findings

1. **A delete in a transaction does not delete** (`store_del`;
   `mstore/transaction.cc:373`). `do_merge` stamps the deletion on the
   transaction's copy, which it erases next, never on the entry. After the commit
   the entry is unlinked from its parent but still valid: it can be read, and
   `create` finds it existing and does not list it again.
2. **An event can reach a later watch at the same address** (`watch_aba`;
   `watch_mgr.cc:122`). The callback checks that the pointer is registered under
   the key, not that it is still the same watch. If the new watch is relative, the
   path does not begin with the domain path that the callback cuts off. A spurious
   event is harmless in other cases, which is why `ToldOfChanges` holds in
   `watch_reuse` with addresses reused freely, while `ToldExactlyOnce` is checked
   under `FreshSpec`, where an address is not reused while an event refers to it.

3. **A request can stay unread** (`ring_lost`; `ring_conn.cc:243`). The callback
   fetches a notification even if it was called for writing only, waiting for
   one if there is none. With the response ring full and a watch event being
   sent, such a callback can fetch the notification of a new request; it does
   not read. When the event is written, the write interest goes, and nothing is
   left that would make the daemon look at the request. The guest that waits for
   the reply waits for ever, unless a later event or request makes it notify
   again. The project's `README.md:3-4` promises "compatibility with the upstream
   xenstore protocol", in which every request is answered. Without watch
   events, and with one request at a time, this cannot happen (`ring_sync`).

## What is proved

For all values of the constants that satisfy the named assumptions of the
modules (`NameAssumption`, `PathAssumption`, `DataAssumption`, `TidAssumption`,
`OtherAssumption`, `DomainsAssumption`, `HdrAssumption`, `SizeAssumption`,
`ConnAssumption`), without any of the runs' bounds:

**The store, a state** (`MStoreProofs`).

- `TypeCorrect`: the store keeps its types.
- `ValidationSound`: `CommittableReadsAreCurrent`. It is not
  inductive: a transaction doomed now could become committable with an outdated
  copy if numbers were reset or reused. The inductive invariant is
  `IInv == TypeOK /\ RecordsSound` (`SpecIInv`), which adds, for each record,
  that every number in use is below `next_seq` (so that a new stamp is later than
  all of them) and that each copy agrees with its entry as long as `can_merge`
  has no objection. The proof goes by record, not by tree: each helper of the
  store (`GetTentry`, `FetchData`, `WriteEntry`, `MergeRec`, `Cleanup`, ...)
  preserves `RecordSound` of a single record, and every action is shown to
  transform each record by a composition of helpers. The access checks, the
  values and the shape of the tree play no part.
- `RecordsAlwaysSound`: that invariant itself.

**The store, a step** (`MStoreProofs`). Every helper is shown to be of one of
three kinds: it stamps the entry with later numbers and touches no copy
(`Outside`), it changes one transaction's copy without losing what that fetched
and no entry (`Own`), or it ends one transaction (`Ended`). `StepKinds` then says
that every step of the specification is of one kind on all paths, or begins a
transaction. The invariant is `StepInv`: `IInv`, plus that only transactions that
reference a record have a copy of it (`Clean`), plus
`NoClosedTransactionInRecords`; the last two need each other, because a copy left
behind would be taken up by the next transaction with that id.

- `NoTraceOfClosed`: `NoClosedTransactionInRecords`.
- `ReadsRepeat`: `RepeatableReads`.
- `NotSeenBeforeMerge`: `UncommittedIsInvisible`.
- `LostStaysLost`: `DoomedStaysDoomed`. While a transaction is open the numbers it
  compares with only grow: `Cleanup` and `MarkDeleted`, which reset them, do so
  only for records nobody references (the second disjunct of `Outside`, and the
  guard in `Ended`).
- `DoomNeedsConflict`: `DoomedOnlyByConflict`. What a merge stamps is what the
  transaction wrote and no more (`CommitOutside`), so a transaction that does not
  conflict is spared (`MergeSpares`).

**The store, its tree** (`MStoreTreeProofs`). What the entries say of the tree
after a merge depends on what the transaction's copies said before, so the
invariant `TreeInv` adds to `StepInv`

- `Shape` of every transaction: a child that a copy adds, the transaction has
  written; a child that it removes, it has deleted; an entry that the transaction
  made exist has a parent that is valid in it and adds it (`CopyJoins`);
- `Listed`: a child that an entry lists is valid;
- `Tidy`: a record marked deleted is referenced by a transaction, and the numbers
  of an entry are equal only while both are 0 (`Apart`).

Each part relates one path and its parent, which is all that `Missing`,
`Registrars` and `Subtree` have to be taken apart for (`MissingRegistered`,
`RegisteredMissing`, `SubtreeStep`); no induction along the tree is needed. A
merge keeps the entries' part because of the copies' part and because can_merge
guarantees that what was created did not exist (`CopyCurrent`).

- `ListedExist`: `ListedChildrenExist`.
- `EveryDelReturns`: the guard of `SimpleDel` that is not in the code always holds,
  also for an entry the tree has lost.
- `DeletedReclaimed`: `DeletedRecordsReclaimed`.
- `TreeStaysConsistent`: `TreeConsistent`, for `TreeSpec`. The invariant there is
  `TreeInv` with `Hung(db, undead)`; every step but a merge leaves the entries that
  hang off nothing as they were (`StaysHung`), and a merge adds at most what it
  deleted (`MergeTree`).

**The store and its abstract specification** (`MStoreSerialProofs`).

- `SpecSerializable`: `Serializable`, so `MStoreSerial` implements `SerialStore`,
  step by step. Its hypothesis is that `World`, from which a transaction's worlds
  are taken, holds every tree (`Tree`); the run's `MCWorld` holds those in which
  the root exists and lists only paths in use, which is where the run stays.

A transaction's copies are read as a function of trees: `Seen(te, n)` is the node
the transaction would find, had it started from node `n`, and `Fits` says that
`n` is, in all that the copy relies on, like the entry. The invariant `SerialInv`
adds to `TreeInv`, for each open transaction that can_merge would accept
(`Traced`): every tree that fits all its copies is still one of its worlds, and
what became of it there is what the copies make of it (`SeenDb`). Two more facts
are needed for deletions, which go by what the copies list: an entry that does not
exist in the transaction lists nothing in it (`Emptied`), and one that the
transaction deleted is on its parent's list of removed children (`Unlinked`).

- Operations of the transaction (`InsideServes`): what fits afterwards fitted
  before; the request has the same answer there as it got from the copies, and the
  copies make of the tree what the request makes of it (`Serves`). Creating and
  deleting a branch visit the same paths on the copies as on the tree
  (`TCreateBranchSees`, `TDeleteBranchSees`).
- Steps of others (`ForeignTraced`): if can_merge still has no objection, what fits
  has not changed. Data that did change is stamped with a number the transaction
  has not seen (`Stamped`), which can_merge would have found.
- A commit (`CommitServes`): the tree itself fits, by validation (`EntryFits`), and
  `MergeRec` makes of each entry what `Committed` makes of each node.
- Operations outside (`OutsideServes`) are one request on the tree.

**Watches** (`WatchesProofs`).

- `PointersExact` and `ClientsOutliveWatches`: registrations are
  exactly the live watches, and no watch outlives its client. Proved together
  (`Registry`) with the shape of the state they mention, because dropping a
  client's watches removes exactly those pointers only if the database was exact.
- `NoStaleLists`: only open transactions hold events.
- `TypeCorrect`: the types, among them that the poll is in the queue exactly once,
  and that what a poll or a change queues is well formed (`Typed`).
- `DeathsAreQueued`: `DeathQueued`. It counts each client's deletion in the queue
  through every way a connection fails, is deleted or is found broken again.
- `ChangesAreAnnounced`: `ToldOfChanges`, under `Spec`, where addresses are reused
  freely; and `ChangesAreToldOnce`: `ToldExactlyOnce`, under `FreshSpec`. Both
  balance what a watch is owed (history, from the meaning of a watch) with how many
  events say so (from the manager's tables): `FiresNews`, that a change fires one
  event for each watch it concerns and no other, is where the tables and the
  meaning meet, by `RegistrationsExact`. `Told` is what each action does to the
  balance of one watch and path, in the queue and in each transaction's list. The
  invariants are `Accounts` and its exact counterpart: `Typed`, that nothing is owed
  to a watch that is gone, the property, and the same for the lists of the open
  transactions (`ListsTell`, `ListsTellOnce`), which a commit moves to the queue.

**Domains** (`DomainsProofs`), for any number of domain numbers and objects.

- `TypeCorrect`, `ShutdownsToldOnce`, `BrokenGoes`, `RemovalsHaveCause`, and
- `NoEndMissed`: `NothingMissed`. Between events it says that something due has an
  interrupt coming; the invariant says what is true inside the callback, where the
  interrupt that was fetched may be the only one: a domain that is due is still to
  be visited, or already on a list, or a further interrupt is owed or pending.

**Connections** (`RingConnProofs`, `SockConnProofs`), for any ring, index type,
socket buffer, message lengths and limits.

- `DeathsReportedOnce`: `DiesOnce`, and `InterestIsExact`: `InterestExact`, for
  rings and for sockets. The invariant (`Control`) follows the daemon's control
  only: `Deaths`, where a dead connection can still be found; `WriteInterest`, that
  inside `process_tx` interest is never set between two messages; `ReadInterest`.
- `RingConnProofs!TypeCorrect`: the types, and that neither side's index overtakes
  the other's however often they wrap. `Consumed` and `Produced` reduce the
  arithmetic modulo the index type to distances of at most one ring; a chunk is
  never longer than what is readable or free (`ChunkLengths`), on either side.
- `FetchReturns`: `AckReturns`. A callback for reading has a notification of its
  own (`ForReading`), and one for writing only has put something into the response
  ring or found it full (`ForWriting`, `ChunkFills`), which the guest will answer;
  no notification is lost on the way, because the channel is masked and nothing
  waits only between fetching and unmasking (`Channels`).
- `SockConnProofs!TypeCorrect`: the types, that no message exceeds the payload
  limit whatever an answer was to say, and that the socket never holds more than it
  can (`Shapes` strengthens the types: what is being received and sent is at a
  place its message has).
- `BytesKeepOrder`, of each: `BytesInOrder`. A pipe is `Lined` up if its bytes lead
  one by one from the reader's position to the writer's (`WireProofs`): the reader
  stays lined up whatever it reads of a part (`ReadOn`), and the writer whatever it
  writes (`WriteOn`). The invariant, `Aligned`, says so of both directions, and that
  the peer is never left between a part and the next (`Amid`). For the rings what
  is unread is first shown to be a stretch of the ring that starts at the reader's
  index masked and goes on around the end (`FirstUnread`, `RingReads`,
  `RingWrites`).
- `SockConnProofs!RequestsAreAccounted`: `RequestsAccounted`. The identifiers a
  client awaits are, in this order, those of the answers on their way, the one being
  sent, those queued, the request being handled, and those on their way to the
  daemon and still being written (`Flight`); every step moves one to the next place
  (`FlightMoves`), and identifiers are `Distinct`, so that an answer is taken off at
  the head. A request counts by its last byte (`Ending`).

- `RequestsAreNoticed`: `NoLostWakeup`, for a guest with one client that waits for
  each response and has no watches (`MaxOutstanding = 1`, `MaxQueue = 0`), whatever
  the sizes of the rings, of the indices and of the messages. The two conditions are
  hypotheses of the theorem and not assumptions of the model: without the second the
  property is false (`ring_lost`, finding 3), so a proof has to say where it uses
  them. They make the two sides take turns (`Turns`): there is one message, request
  or response, on its way in only one of the rings (`Single`), so that the other
  ring is empty and a step can be judged by who waits for whom. `Wakeful` then says
  where the notification of a request is, place by place: after a callback for
  reading has emptied the ring it is pending or will be (`AfterReading`), because
  the channel was fetched before; in a callback for writing only, `Ack` may fetch
  the notification of a request, but the guest notifies once for consuming the
  reply and once for the request, and one of the two is left (`AfterWriting`).

The library's induction theorems take an operator as a parameter, which the
provers cannot instantiate. The proofs about pipes use a form of induction over
sets of numbers instead (`Inductive` in `WireProofs`), derived from the
well-foundedness of finite sets under inclusion.

Only model-checked:

- `CommittedDeleteRemoves`, `RelativePathsHaveDomPath` and, for a guest with watches
  (`ring_lost`), `NoLostWakeup` are false.
- `ChangesAreTold`, `EndsAreNoticed` and `RequestsAnswered` are liveness, which the
  prover does not reach.

## What is not modelled, and limits of what is

- A trailing '/' is stripped by the store and not by the watch manager: a watch
  on "/" or "/a/" does not hear of changes below it and removing "/a/" does not
  tell the watches below. The history variable leaves such watches out (`Plain`),
  so the delivery properties say nothing about them.
- Watches fired by a transaction are those present at the operation; one set
  between the operation and the commit is not told. The history variable
  follows the code.
- A client that dies leaves its transactions open. Both models let
  transactions outlive clients.
- A record that a transaction merely looked for stays when it aborts:
  `abort` tests `delete_seq > write_seq`, and both are 0 for an entry that never
  existed (`transaction.cc:257`). So does the record of a missing parent that an
  undead entry is unregistered from. `DeletedRecordsReclaimed` leaves them out.
- A domain releasing itself deletes the object that handles the request;
  `OpRelease` excludes it.
- Empty records that lookups leave in the watch database are not observable and
  are not represented.
- A domain number that is given to another domain on the host between two scans
  is, for the daemon, the same domain; `host` goes through "dying" and "none", and
  the daemon may see neither. It follows the code, which compares numbers only.
  A domain introduced when it is already shut down is not announced until the
  hypervisor says something new (`late`).
- A ring that breaks removes its domain without `@releaseDomain` (`Breaks`), and
  an error of the interrupt's handler switches it off for good (`Disabled`).
  Nothing says that either should be otherwise.
- Failing `epoll_ctl` and `epoll_wait` calls, a server socket that fails and is
  disabled, opening and mapping the daemon's own ring (`xenbus`): start-up, or
  I/O errors that leave nothing to relate. The connection of a `xenbus` is a
  `ring_conn` and is in `RingConn`.
- Parsing of arguments, the text of answers and the layout of headers (`wire.cc`):
  the models know messages by kind, identifier and length. Quotas (there are
  none), logging, option parsing and the sequence of start-up in `app`.
- External, modelled from how the code uses them: the hypervisor (`host`, event
  channels, VIRQ_DOM_EXC), a guest's driver, a client's library.

Hazards without a property, each with its reason in `PROJECT.json`: a client that
dies leaves its transactions open; a domain releases itself; trailing
slashes; events collected at the operation; a broken ring that is not announced;
an error reported together with readable data (`SockConn` has it, nothing says
whether the requests should be served); a watch event too long for a message; a
client that never pauses, or never reads (`tx_queue` has no limit).

## What remains

- Larger rings, and two requests at a time from a guest: `Ack` loses wake-ups then
  even without watch events (finding 3 has another way in).
- A composition of `SockConn` and `Watches`, in which a watch event is queued by
  another connection's request.
