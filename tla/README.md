# spaceless: a verification project

spaceless is a file sharing system in C++17: a *client* talks to a *resource
server*, which knows users, groups and the tree of shared files, and forwards
the contents of files, fragment by fragment, to *storage nodes*. All three are
built on `foundation/`: one network thread (a Poco reactor) and one worker
thread per process, joined by two queues.

This directory holds TLA+ modules translated from the source, the TLC
configurations that check them and proofs checked by TLAPS.

## Inventory

Paths are relative to `src/`.

| Component | State | Operations | Interacts with |
| --- | --- | --- | --- |
| transaction engine (`foundation/worker.cpp`, `transaction.cpp`) | registered multiply phase transactions, bind list (package to transaction), next id | take a message, start, activate or end a transaction, send, bind, wait with a timer, time out | queues, package list, timers |
| package list and actor queues (`foundation/package.cpp`, `actor_message.cpp`, `delegation.cpp`) | packages by id (one list for both threads), IN and OUT queue | register, find, remove; push, pop | both threads, each object behind a mutex of its own |
| timer manager (`foundation/worker.cpp:372-463`) | heap of timers by expiry | register, remove, process one expired timer per turn | worker only |
| network reactor (`foundation/details/network_impl.cpp:787-1008`) | connections, listeners | take OUT messages, create, remove and stop connections | OUT queue, connections, services |
| connection and handshake (`network_impl.cpp:105-784`) | receive state, send list, two pending lists, opening/closing flags, key | accept, read, write, send, close, security setting, key exchange | the peer over TCP, package list, IN queue |
| service manager (`foundation/network.cpp:108-212`) | services, the connection of a service and back | register, remove, find, (re)connect on demand | reactor |
| scheduler (`foundation/scheduler.cpp`, `worker.cpp:330-369`) | run state, stop flag | start, stop, signal handlers | both threads |
| users and logins (`resource_server/core.cpp:157-342`) | users, login list by connection, heartbeat times | register, remove, login, heartbeat, kick out idle users | groups, connections, timers |
| sharing groups and file tree (`core.cpp:350-1043`) | groups with owner, managers, members; directories and files; files with a use count | create, join, assign roles, kick out, create and remove paths, add files | users, storage nodes |
| storage node manager and file sessions (`core.cpp:1046-1423`, `storage_node/`) | nodes with their use, sessions of puts and gets by group and path, sessions of the storage node by file name | start and continue a put or a get, remove a path | three processes, the engine's waits |
| serialization and boot (`core.cpp:1426-1492`, `main.cpp`) | the file `data.json`, written every five seconds | save, load | all managers of the resource server |
| client (`client/`) | its sessions, heartbeat timer | login, put and get a file in fragments | resource server |
| helpers (`monitor`, `configuration`, `exception`, `log`, `protocol`, `crypto`, `lights`) | none that others rely on | reporting, parsing, formatting, encryption | all |

What is hard here, and what makes each component correct:

* **engine**: answers, timeouts, errors and strays race; bindings and timers
  outlive what they refer to. A request is replied to at most once, every
  transaction ends, only the answer to the current phase moves it, every package
  is owned by one queue and removed once.
* **connection**: workers send during the handshake, sockets write parts,
  ends close at any moment and then do not read. The ends agree on the encryption, nothing overtakes,
  nothing goes out in plain text, packages do not leak.
* **scheduler**: two threads and signal handlers on either of them share two
  flags. A stop ends the worker and returns.
* **users, groups, tree**: long sequences of legal calls; identities that change
  on a connection; roles that exclude one another; removed things that others
  still refer to.
* **transfer**: sessions on three processes, fragments, failures and retries on
  either hop, restarts. A finished put stores the whole file; a get reads what
  was put.
* **serialization**: a crash between a change and the save, or inside it; the
  table of files stays sound, and a restart finds the last save.
* **services**: nodes, services and connections are numbered by two threads that
  tell each other by messages. A node gets the service of its own address, and an
  answer is taken for the node that was asked, over every reconnection.
* **timers**: the heap changes while a timer's action runs. Each turn runs the
  first that is due, and no timer is lost or kept waiting.

`PROJECT.json` lists each hazard at its line with the properties that cover it.

## Plan

1. `Transactions`, its promise `RequestReply`, and the proofs of its safety (done).
2. `Scheduler` and its proofs (done).
3. `Connection`, its promise `Channel`, and their proofs (done).
4. `Sharing` and its promise `Roles`, and their proofs (done).
5. `Transfer` and its promise `FragmentStream`, and their proofs (done).
6. `FileTree` with saving and restarts, its promise `PathStore`, and the proof that
   the table stays sound (done).
7. `Services` and `Timers` and their proofs (done).
8. What an undisturbed put and get promise, `FinishedIsWhole` and `GotIsWhole`, for
   any number of fragments (done).
9. `ImplementsPathStore` for spellings of which `FilePath` leaves no empty name, from
   what is proved of the table (done).

How the modules fit together: `Connection` is the wire below `Transactions`,
which sees of it only that packages of one connection come in order or not at
all; `Services` says which connection that is; `Timers` is what `Transactions`
abstracts to a list in the order of expiry. `Transfer` is written over the
engine: a wait ends by its answer or its timer, once. `Sharing` decides who may
call the handlers of `FileTree` and `Transfer`, which take a fixed set of
managers and members.

## Modules

### Transactions

One action is one handler run. The worker (`Worker::run`) takes one message of
the IN queue and runs it to the end of `trigger_transaction`, or runs one
expired timer; the network thread takes one message of the OUT queue; the peers
send packages. Only the queues and the package list are shared between the
threads, each behind a mutex, so these are the steps that interleave.

| Variable | Code |
| --- | --- |
| `packages`, `nextPackage` | `PackageManager::m_package_list`, `m_next_id` |
| `inQueue`, `outQueue` | `ActorMessageQueue` |
| `transactions`, `bound`, `nextTrans` | `MultiplyPhaseTransactionManager::m_trans_list`, `m_bind_list`, `m_next_id` |
| `timers` | `TimerManager::m_timer_queue`, in the order of expiry (every handler waits for the default time) |
| `atPeer`, `requests`, `strays` | the clients and the storage nodes |
| `replies`, `asked`, `lost` | history, read by properties only |

An application handler is abstracted to what the engine sees of it: it throws,
replies, ends silently, or sends a request and waits for the answer. The last
two are `StartAndEnd`/`StartAndWait` for `on_init` and
`ActiveAndEnd`/`ActiveAndWait` for `on_active`; `send_protocol` may give up
(`SendNothing`), because the message is too large. No handler of this commit
waits a second time (all waits are in `resource_server/transaction.cpp`); the
engine is written for any number, and `MaxPhases = 2` checks what it does then.

`RequestReply` is the promise: a request is received, perhaps open for a while,
closed, and replied to at most once and only when it is closed; and it is closed
some day. `Stage` maps the state of the engine to it.

### Scheduler

Each thread is a stack of stages; a signal pushes the stages of
`Scheduler::stop` on the thread it interrupts, also on top of another handler.
One action is one access to `run_state`, `stop_flag` or the reactor's flag.

### Connection

Two ends, from the state in which the active end is connected and the passive
end has yet to accept. One action is one run of a socket handler or one call
from the OUT queue. A package is on the wire once its last byte is written, so
that a partial write leaves it at the head of `sendList`; the bytes themselves,
the keys and the contents are left out, and a package carries only whether it is
encrypted. The wire is the buffers of the two sockets: it takes `Room` packages that
nobody has read, then a write leaves the rest in `sendList` until the other end reads. `secure` and `sameVersion` are fixed at the start, one value for each
behaviour: one run checks all four combinations.

`Channel` is the promise: what arrives is what was sent, in order, at most once,
and everything arrives as long as neither end closes. TCP is assumed to be
reliable while both ends live; `Lost` may end either end at any moment.

Not modelled: a peer that breaks the protocol (the branches that close on a
second security setting), since both ends run the same program, and an
exception in the constructor of a connection.

### Sharing

Users, logins, heartbeats, groups, roles and storage nodes. All of it belongs to
the one worker thread, which runs a handler to its end, so that one action is
one handler that changes something; a handler that throws has changed nothing
before. What is hard is the length of the sequences: ids of removed users stay
in lists, two lists of one group are looked at by different checks, and an erase
takes the first entry only.

| Variable | Code |
| --- | --- |
| `users`, `nextUser`, `rootUsers`, `logins` | `UserManager::m_user_list`, `m_next_id`, `m_root_user_list`, `m_login_user_list` |
| `beat`, `now` | `User::last_hearbeat`, the clock |
| `nextGroup`, `owner`, `managers`, `members`, `groupNode` | `SharingGroupManager::m_next_id` and the fields of `SharingGroup`; a list is a count for each user, since its order is nowhere looked at |
| `nodes`, `nextNode`, `use` | `StorageNodeManager::m_node_list`, `m_next_id`, `StorageNode::use_counting` |

`Init` is the state `main` leaves, in two versions: a first start, where root
and its group are registered before any node is (`get_fit_node` then uses the
entry behind the end of an empty map, which this build finds where `m_next_id`
lies), and a start from `data.json`, where the list of root users is empty and
the heartbeat of root is whatever the memory held. `KickOutOffline` erases from
the list it walks over: what the walk still finds after the first erasure is a
nondeterministic choice.

Left out: names and passwords (a taken name or a wrong password is one more
reason to fail), `User::conn_id` (written, never read) and root directories.
`remove_group` and `remove_node` do not occur: the handler of the first is not
registered in `main.cpp`, and nothing calls the second.

`Roles` is the promise: the owner has both roles for ever, and everybody else
joins, rises, falls or leaves as a whole. Lists are mapped to the sets of those
they hold.

### Transfer

Clients, the resource server and one storage node, over queues in order. One
action is one handler; only the console of a client is a thread beside its
handlers, so `put_file` is two steps (`PutCommand`, `PutRequest`) between which
`on_active` answers may come and read half a session.

| Variable | Code |
| --- | --- |
| `put`, `get`, `local`, `meta` | `SharingFileManager::m_put_session`, `m_get_session` of the client, the local file and its `.meta` file |
| `sessions`, `index` | `FileSessionManager` of the resource server: `m_session_list` with `m_next_id`, and the list by group and path |
| `tree`, `online` | what `FileTree` and `Sharing` say in full: whether a path exists, who is logged in |
| `waits`, `nextTrans` | the multiply phase transactions that wait for the node |
| `nodeSessions` | `FileSessionManager` of the storage node, which starts from 1 when it is started again |
| `opened`, `files`, `disk` | `m_file_cache`, the files and their fragments |
| `c2s`, `s2c`, `s2n`, `n2s` | what is on the connections |
| `calm`, `failed`, `unanswered`, `finished`, `acked`, `forwarded`, `written` | history, read by properties only |

Sessions are numbered on without end, as in the code: `sessions` and `nodeSessions`
are sequences, in which an ended session keeps its place with the type `"none"`.
A fragment is the file it was read from and its index: what matters is whose it
is and where it lands. Faults are a broken connection to the node, a node that is
stopped in order and started again, and users who are kicked out; timeouts may
come at any moment and late answers after them.

`calm` says that nothing was lost, late or at the same time: no fault, no late answer,
and each command entered when no client has anything under way. For a get it says two
things more. Its local file is new, since a second get appends to it; and the session
it will find on the node has the size of the file (`SizeIsKnown`). The second is no
matter of course. The sessions of the node are found by file name alone
(`storage_node/transaction.cpp:25` and `:78`), and a put that has nothing (more) to
send, of an empty file or of one that is complete, opens a session there that no
fragment ever ends. A later get of that name, entered by a single client and much
later, is told the number of fragments of that put, and its copy is what is stored only
if the file under that name has this size. Without this condition TLC finds a get,
with nothing lost and nothing at the same time, whose last fragment leaves a copy that
differs from the stored file.

Left out: several nodes (each put has one), a restart of the resource server
(its sessions are gone with it, its table is in `FileTree`), the progress that is
printed, and the error a refused remove is answered with. A local path stands
for each remote one.

`FragmentStream` is the promise of the two servers: a fragment is written at most
once, in order, after it was forwarded.

### FileTree

The table of files of all groups, its paths, and the data file.

| Variable | Code |
| --- | --- |
| `files`, `next` | `SharingFileManager::m_file_list`, `m_next_id` |
| `root`, `node` | `SharingGroup::m_root_dir_id`, `m_node_id` |
| `disk`, `torn` | `data.json`; opened, cut off and not yet written |
| `phase` | whether the process runs, is inside `serialize` or is down |

A spelling is the sequence a path is split into at `/`, so that `a//b` is
`<<"a", "", "b">>`; `Squeeze`, `FilePath` and `DirectoryPath` do to it what the
code does to the string. The empty path is an input like any other, since
`directory_path` yields it for every path in the root: `front()` and `back()` of
an empty `std::string` find a zero byte in this build. Blanks and backslashes
are left out.

A handler runs to its end and the save is a timer of the same thread; a crash may
come between any two of these, or between the opening of the file, which empties
it, and the end of the writing. `Boot` reads what is there: an empty file is no
data, and `main` then registers the official group anew; a part of one does not
parse, and `main` returns until somebody has emptied it.

`PathStore` is the promise: a set of paths for each group, which a crash takes
back to the last save. The run takes spellings of which `FilePath` leaves no empty
name. With `a///b` beside `a/b` the promise is broken, as listed below: a put of
`a///b` makes a second entry `b` in `a`, which comes to light when the first is removed.

### Services

| Variable | Code |
| --- | --- |
| `nodes` | `StorageNodeManager::m_node_list`: `ip`, `port` and `service_id` |
| `services`, `connOf`, `serviceOf` | `NetworkServiceManager::m_service_list`, `m_conn_list`, `m_conn_service_list` |
| `conns`, `closing`, `peer` | `NetworkManagerImpl::m_conn_list`, `m_is_closing`, the address a connection was opened to |
| `in`, `out` | the actor queues, with delegations and packages |
| `asked`, `atPeer` | history of requests; what has reached a node |

One action is one message of a queue or one event of a connection. `Init` is what
`main` leaves: the delegations of the stored nodes and of those configured nodes
that `find_node` does not know, which do not include one that is only under way.
Connecting may fail at any time, and the package is then lost (`SendNothing`).

### Timers

| Variable | Code |
| --- | --- |
| `queue`, `front` | `TimerManager::m_timer_queue`: a heap, of which only the front is ever looked at |
| `nextId`, `now` | `m_next_id`, the clock |
| `heartbeat` | `HeartbeatManager::m_timer_id` of the client |
| `ran`, `done` | history |

What `make_heap` and `pop_heap` leave in front is any timer that expires first;
`push_heap` moves a new one to the front only if it expires earlier than the one
there. That is what makes `process_expiry_timer` right, which runs a copy of the
front and then takes off whatever is in front: an action registers timers that
expire later than now, and none removes a timer.

### The proof modules

`TransactionsProofs`, `SchedulerProofs`, `ConnectionProofs`, `SharingProofs`,
`TransferProofs`, `FileTreeProofs`, `ServicesProofs` and `TimersProofs`, see Proofs.
Each extends the module it is about, and nothing is proved of a bounded instance:
the constants are those of the module.

## Runs

| Run | Configuration | Shows |
| --- | --- | --- |
| `engine` | `MCTransactions.cfg` | type, timers, bindings, ownership of packages, every transaction ends, `RequestReply` is implemented |
| `strays` | `MCTransactionsStray.cfg` | one reply per request and only own answers move a transaction, with a stray package |
| `stop` | `MCScheduler.cfg` | what the run state says is true, a worker ends |
| `start_returns` | `MCSchedulerReturns.cfg` | violation, see below |
| `connection` | `MCConnection.cfg` | agreement, encryption, ownership, `Channel` is implemented, a closing end ends unless both close with full sockets |
| `sharing` | `MCSharing.cfg` | owners keep their roles, nobody is listed twice, roles change by right, newcomers inherit nothing, the first silent login goes |
| `groups` | `MCSharingGroups.cfg` | type, every group has a node, `Roles` is implemented |
| `transfer` | `MCTransfer.cfg` | what is acknowledged is stored, undisturbed puts and gets are whole, a crash needs a failed session, every request is answered, `FragmentStream` is implemented |
| `resume` | `MCTransferResume.cfg` | violation, see below |
| `tree` | `MCFileTree.cfg` | the table of files is sound, `PathStore` is implemented, with a save and crashes |
| `services` | `MCServices.cfg` | nodes, services and connections match, answers fit, every node is served |
| `timers` | `MCTimers.cfg` | the first due timer runs and only it is taken off, every timer runs |

Bounds. Two requests are the least at which two transactions, their timers and
their packages can be confused; two phases the least at which a binding or a
timer of an earlier phase can meet a later one; two connections of one service
the least at which an answer can come over another connection than the request.
`strays` has one connection less, so that a stray package can be added to two
requests. Four signals nest two handlers on each thread. Three packages from
each end fill both pending lists, the send list and the wire at the same time,
and room for two lets a socket be full while more wait.
Three users are the least with an owner, a manager and one on whom they act, or
a newcomer beside a removed user; three connections let a walk over the logins
find one before and one behind the silent one; the clock passes the limit of
silence before it stops. Two groups and two nodes let a group be registered
before, between and after the nodes.
Two commands are the least at which puts, gets and removals disturb one another,
on two paths whose files have one name on the node; a file of two fragments can
lose its first, and one fault of any kind may come at any moment beside any
number of timeouts. Five file ids hold two groups, a directory and a put, or a
removal and what comes after it; one save and two crashes let a restart find the
first state, the saved one or a torn file, and crash again. Two stored nodes and
three connections let a service be reconnected while another is first connected.
Four timers of three lengths overtake each other in the heap, and the clock runs
past the shortest three times.
All runs say `CHECK_DEADLOCK FALSE`: the bounds end every behaviour, and the
processes may rest for ever.

Fairness. `Worker::run` looks at the IN queue and at one timer in every turn, and
a timer expires when its time has come; the reactor calls `process_out_message`
when it is idle, busy and on timeout: weak fairness of each. In `Connection` the
reactor serves a socket that has something to read or room to write. Room comes
from the other end's reading, which an open end does and a closing one does not, so
that nothing is assumed of a full socket whose reader is closing; a write to an end
that is gone throws, so that no progress is assumed there either. In `Sharing` the
worker looks at its timers in every turn, and the timer of
`kick_out_offline_users` is a frequent one: weak fairness of `KickOutOffline`.
In `Transfer` every worker takes its messages and its timers, and the timer of a
wait expires some day. In `Services` both threads take what is in their queues;
nothing is assumed of connections. In `Timers` time goes on and the worker turns.
The peers, clients, signals, crashes and closes are never assumed to happen.

## What disagrees with the code's own words

Two runs show it with a counterexample:

* `start_returns`: `scheduler.h:23` promises to return on a signal. Three things
  break it: a signal before the worker is STARTED is dropped; the worker can end
  between the two stores of `WorkerScheduler::stop` and then counts as running
  for ever; and a second SIGINT can run its handler on the worker thread, which
  then waits for its own end.
* `resume`: `README.md:6` of the repository promises to transfer from the point of
  interruption; `next_fragment` counts what was forwarded, so that a put that is
  asked for again goes on behind the fragment that was lost.

The rest was met while modelling; the actions are in the models, and no property
states it:

* `worker.cpp:242` says a closed connection leads to no leak; the timeout removes
  the transaction and leaves its entry in `m_bind_list`.
* `network.h:17` forbids exceptions; `get_connection_id` throws after the message
  was popped, and its package stays in the list.
* `worker.cpp:220` wants no other peer to interrupt a wait; a package that does
  not fit removes the binding (line 280), so that the true answer is unknown.
* `network_impl.cpp:183` removes "all package that own by this connection", but
  not those that wait for the handshake in the two pending lists.
* `network_impl.cpp:296` wants everything in the send list to be sent before a closing
  connection is deleted. A closing end does not read (line 303): if both ends close
  while their sockets are full, neither becomes writable again, and both stay for ever
  with what they have to send. Without `Jammed`, TLC refutes `CloseEnds` with this
  behaviour; with it, `CloseEnds` says that this is the only case, apart from a peer
  that is gone.
* The observer of `network_impl.cpp:57` that is to check that a connection still
  lives copies an id that is not assigned yet, and Poco clones it as its base
  class, so that the check never runs.
* `resource_server/core.h:228` says the list of members includes all members;
  `assign_as_manager` takes the new manager out of it, and `on_list_file` and the
  gets refuse it until it joins again.
* The timer of an earlier phase also ends a later one (no handler waits twice).
* A storage node opens a file that is not in its cache with `wb+`: after a restart
  the first get, or the first fragment of a put that goes on, empties it. Hence
  `AckedIsStored` speaks of one life of the node.
* Two puts of one path by one user share a session; when the request of one fails
  the session is removed and the answer of the other dereferences a null pointer
  (`CrashNeedsFailure` says that a failure must come first).
* A put session is never removed: a put after a removal of the path finds the old
  one complete and sends nothing. A shorter put leaves the tail of a longer one.
  A client prints that a put is finished when its last fragment is answered, also
  when one before it failed. The last fragment of a get ends the node's session of
  a put of that name. A second get into one local file appends.
* The path of a put exists before the node has agreed; when it fails the retry
  finds it there. A put below a general file throws after both files of the table
  are registered and leaves them there, as does the removal of a directory its
  entries: they are saved for ever.
* `a///b` keeps an empty name after `FilePath`, and `directory_path` loses it: the
  entry is made in `a`, the path is never found, and a second put makes a second
  entry of the same name. (`///` alone the code makes the empty path, the model one
  empty name: neither is among the plain spellings.)
* Nothing is saved at an orderly stop, and a crash inside a save leaves a file
  with which the server does not start.
* Every answer to a login starts one more heartbeat timer, of which only the last
  can be stopped.
* A successful removal is never answered, and `RspRemoveGroup` is registered by
  nobody.

## Proofs

`TransactionsProofs` holds for every set of connections and services and all
bounds, from `ConstantsAssumption` alone:

* `TypeCorrect`: `Spec => []TypeOK`, one lemma for the peers, the network thread,
  the messages and the timers.
* `WaitsAreTimed`: `EveryWaitIsTimed` is inductive with `TypeOK`. Every action is
  first abstracted to what it does to `transactions` and `timers`: nothing,
  removes a transaction, takes a timer and its transaction, or arms one.
* `TimersMeetTheirs`: `TimersMeetTheirTransaction` speaks of transactions that
  exist, and needs in addition that every id is smaller than `nextTrans`
  (`IdsGiven`), or a new transaction could meet an old timer.
* `RepliedOnce`: `AtMostOneReply` is far from inductive. The invariant says that a
  request is in one place only: its package is once in the IN queue
  (`RequestQueued`, `QueueOnce`), or one transaction carries it (`RequestOpen`),
  and in both cases it has no reply yet; otherwise it has at most one.
* `PackagesOwnedOnce`: `OwnedOnce` counts messages; the invariant (`Owners`) says
  instead that each queue names a package at most once (`NamesOnce`), that a
  registered package is in the one queue, in the other or lost, exactly one of the
  three, and that no message names a package that was removed. What the two threads
  do is abstracted to taking the first message of a queue and appending one for a
  new package.
* `BoundToItsPhase` and `MovedByTheirAnswer`: a transaction asks once in each of its
  phases, no binding is for a transaction still to be created, and none is for a
  later phase than the one reached (`PhaseInv`). The second is an action property:
  what moves a transaction is a message whose package is bound to it, and by the
  invariant that is the answer to what it asked in this phase.
* `IsRequestReply`: every step of the engine is a step of `RequestReply` or a stutter,
  its safety part `Abstract!Init /\ [][Abstract!Next]_(Abstract!vars)`. A step moves
  one request at most (`OnlyMoves`): an answer that ends a transaction carries no
  request itself (`Anonymous`), what the network thread removes is not in the IN queue
  (`Owners`), and the transaction that goes is the only one of its id and of its
  request (`TransOnce`, `RequestOpen`).

`SchedulerProofs` holds for any set of threads that signals may interrupt and any
number of signals, from `SchedulerAssumption` alone. `StoppedMeansEnded` relates
the flag to a stack of stages that signals may push upon at any place; the
invariant says that what a thread began with is at the bottom of its stack and
nowhere else (`BottomOnly`), so that only the thread itself moves it, and that no
worker exists before main has spawned it (`NotYetSpawned`).

`ConnectionProofs` holds for any number of packages and any room in the sockets, from
`ConnectionAssumption` alone.

* `EndsAlwaysAgree`: the invariant says what the reader of each flow has yet to
  learn (`Controls`): the setting and the request of a key, the request alone, the
  response, or nothing, as the state of the two ends has it; and that the flow (the
  wire followed by the send list) is those control packages and then packages of
  the worker, encrypted if they have to be and numbered without a gap (`OneFlow`).
  What waits for the handshake follows on. All of that is for ends of one version;
  `Handshake`, `WaitingApps` and `Sealed` hold of both versions, and
  `SecureLeavesEncrypted` follows from `Sealed`.
* `IsChannel`: every step of `Connection` is a step of `Channel` or a stutter, its
  safety part `InOrder!Init /\ [][InOrder!Next]_(InOrder!vars)`. A read package is
  the next one, because the flow is numbered on from what was delivered.
* `OwnedAlwaysOnce`: the registered packages of a living end are exactly those in
  the line of its three lists, each once (`Holds`), and all have been made
  (`Made`), so that a new one is none of them.

`SharingProofs` holds for any numbers of users, groups, nodes and connections,
from `SharingAssumption` alone. First lemmas say what `PushBack` and
`EraseFirst` do to a list and to the set of those it holds. The invariant is
`TypeOK` with

* `Issued`: whoever is in a list of logins or of a group has an id below
  `nextUser`. Removal leaves ids behind, so only this keeps a newcomer apart from
  them; `NewcomersInheritNothing` follows at once.
* `Founded`: a group has an owner exactly when its id is below `nextGroup`, and a
  group that is not founded has empty lists.
* `OwnerListed`, `ListedOnce` and `GroupsHaveNodes` themselves. The last holds
  because node ids are given in order (`nodes = 1 .. nextNode - 1`, in `Issued`):
  the node that a group was given too early is the one registered next.

From it follow `OwnerKeepsRoles`, `NobodyTwice`, `EveryGroupHasANode`,
`RolesChangeByRight`, and `ListsImplementRoles`, the refinement of `Roles`: once
a list holds a user at most once, erasing the first entry is removing from a
set, so that each handler is one step of `Roles` and everything else stutters.

`TransferProofs` holds for any users, paths, names, files and numbers of commands
and faults, from `TransferAssumption` alone.

* `TransferInvariant`: the types of the messages on all four links, of the sessions
  and of the waits. Types alone are not inductive: a handler reads the fields of the
  answer its own transaction waits for, so that the invariant says that transactions
  are numbered and each message of one is of its kind (`Matched`), and that nothing
  of a get is under way for a client without a path (`GetsAsked`).
* `TransferTypeCorrect`: `unanswered` never falls below zero, because it is at least
  the number of the requests of the client under way, of its waits and of the answers
  to it (`Counted`).
* `CrashAlwaysNeedsFailure`: while no request has failed, every wait still has the
  session it was made for, of its kind (`Healthy`).
* `IsFragmentStream`: `Transfer` implements `FragmentStream`, for any numbers. The
  invariant (`InStream`) says that a session counts what was forwarded and that the
  orders of one session on the way to the node are in order and behind all that was
  written.
* `AckedAlwaysStored`: what was acknowledged is on the disk of the node, under the
  name the server means and at its index, until the node is started again. A fragment
  is sent under its own index (`Fragments`); a session of the server is found under
  its own path, also while a transaction waits (`PathsFit`); and until a restart a
  session of the node is for the name of the server's session, an order asks of the
  right session, and a result that says a fragment is stored is about one that is
  (`Kept`). A file that the node has not opened is empty before the first restart:
  that is what fails afterwards, since opening it then empties it.
* `FinishedAlwaysWhole` and `GotAlwaysWhole`: the two promises of undisturbed work. The
  invariant (`Undisturbed`) says of a calm state that nothing is under way and what
  was finished is whole (`Resting`), or that one client alone is served (`Serves`), and
  how far it is: its put is entered but not asked for (`Typed`), its removal (`Removes`)
  or its request for a session is on the way to the server (`Asks`), to the node
  (`Ordered`), back from there (`Resulted`) or to the client (`IsAnswered`), or the
  fragments of a file are under way (`Puts`, `Gets`). For these, four numbers
  h <= i <= j <= f say where each fragment is (`Flow`): those from f on have not
  reached the server, those from j on the node, those from i on are on their way back
  to the server and those from h on to the client, all numbered without a gap, with a
  wait for each one between i and f. A handler moves the first of one queue to the end
  of the next, that is, adds one to one of the four (`FlowRequest`, `FlowNode`,
  `FlowAnswer`, `FlowRead`). Of a put, the fragments below j are stored; of a get,
  those below h are copied. When h reaches the number of fragments nothing is left on
  the way, and both promises are what the invariant then says.

`FileTreeProofs` holds for any names, spellings, groups, nodes and numbers of files,
saves and crashes, from `FileTreeAssumption` alone. `TableAlwaysSound` is `TableIsSound`
in every state. The invariant (`Sound`) is stated of any table and holds of two, the
one in memory and the one in the data file, which is why a restart keeps it:

* `Table`: files are records of their kinds, and ids from `next` on are free.
* `Trees`: an entry is a directory or a general file, younger than its directory, and
  in one place only. That ids are never given twice makes a new entry a new place.
* `Storages`: a general file has a storage file that is no other's.
* `Roots`: the root of a group is a directory and no entry.
* `Owners`: each file that exists can be ascribed to one group, that of its
  directory, and what it stores is on the node of that group. Paths are not enough for
  this: a removed directory leaves entries behind that no path leads to, and a put
  below a general file leaves two files in no directory.

What a lookup finds on its way (`FoundHolds`, `FoundPrefix`, `FoundOwned`) and what
is left of a list (`WithoutIs`) is defined recursively; that these functions exist is
proved once (`Iterated`), from the least length for which there would be none. Puts
and new directories are both a table that grows (`GrownSound`).

`TableIsPathStore` is the refinement: under `PlainSpellings` every step of the table
is one of `PathStore` or changes no path. `PlainSpellings` says that there are
spellings and that `FilePath` leaves no empty name of any; those of the run are of
this kind. It is needed twice: `DirectoryPath(p)` is then `p` without its last name
(`FilePathIs`), so that the directory a put takes is the one the new path leads
through, and so no directory gets two entries of one name (`OneName`), the one thing
the invariant (`NInv`) adds to the table in memory and to the one in the data file.
With it, a lookup is a chain of entries that is the only one for its names (`Exact`,
`LookupExact`), and two paths that lead to one file are one path (`OnePath`). What a
handler does to the entries is one of two things: it adds a chain of new entries, one
for each of the last names of a path, below a directory that has no entry of the first
of them (`HasMore`: two files of a put, the directories of `create_path`), or it takes
one entry out together with all the entries it has (`HasLess`). From these two the
paths follow (`MorePaths`, `LessPaths`), whatever else is in the table. Why a put
below a general file is no step of `PathStore`: the two files it registers are in no
directory (`PutNone`).

`ServicesProofs` holds for any stored and configured nodes and any bounds, from
`ServicesAssumption` alone. `ServicesMatch` and `AnswersFit` need that each
message of the queues fits the tables of both threads: a registration under way
is of the address its node has, or of one that no node has, and of a service that
no other message registers (`RegistrationsFit`); the connection of a service leads
back to it (`ConnectionsFit`); a package on the way out, at the peer or on the way
in is for the address that was asked (`PackagesFit`). The nodes `main` registers
are computed by a recursive function over the configuration (`NewAmong`): that its
result is a list of new addresses, each once, is proved by the least counterexample
(`LeastNumber`).

`TimersProofs` holds for any number of timers, any lengths above zero and any
clock, from `TimersAssumption` alone. The invariant is `TypeOK` with
`HeapInOrder`: the front is one of the timers that expire first
(`HeapStaysInOrder`). `RunsTheFirst` (theorem `TurnsRunTheFirst`) needs one thing
more, that a turn registers only timers that expire later than now (`TurnCases`):
a due front stays in front while its action runs, so that what is taken off is
what ran (`TurnTakesTheFront`). `TypeOK` and `HeapInOrder` are proved and not
among the properties of the run, which states what they are for.

TLC alone checks the other properties, which are liveness under fairness
(`FirstSilentGoes`, `TransactionsEnd`, `EveryRequestAnswered` and the like, and the
liveness parts of `RequestReply` and `Channel`): that is out of the prover's reach.

## Not modelled

* Lengths of packages: the growth of `PackageBuffer`, the limit of
  `send_protocol`, the padding of AES and a negative `m_send_len`; file sizes
  beyond what an `int` or a `float` holds.
* The saving of users and nodes: `Sharing` starts from both states that a restart
  leaves. A second login on one connection is modelled as the code treats it, but
  no property says what it should mean.
* `stop_all` (the end of the process), `remove_node`, `remove_service` and
  `remove_group` (no caller or not registered).
* The command line of the client and its commands that only send one request.
* Monitors, configuration, exceptions and logging, the `lights` library: they keep
  no state that other parts rely on. The protocol is generated, the ciphers are an
  external library, the command generator is a build tool. Generated and vendored
  code is the larger part of the repository's lines.
