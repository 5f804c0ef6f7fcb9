---------------------------- MODULE Transactions ----------------------------
(***************************************************************************)
(* The transaction engine of foundation/: how the worker thread turns the  *)
(* packages of the IN queue into transactions, how a transaction of        *)
(* several phases waits for an answer (bind list and timer), and how the   *)
(* network thread carries the packages of the OUT queue away.              *)
(*                                                                         *)
(* One action is one handler run: the worker takes a message or runs an    *)
(* expired timer to its end before it looks at anything else, the network  *)
(* thread takes one message of the OUT queue.  The two threads share only  *)
(* the queues and the package list, each behind its own mutex.             *)
(*                                                                         *)
(* What an application handler does is abstracted to what the engine sees  *)
(* of it: it throws, it replies, it ends silently, or it sends a request   *)
(* and waits.  A payload is left out; a command is one of Commands.        *)
(***************************************************************************)
EXTENDS Naturals, Sequences

CONSTANTS
    Conns,        \* the network connections
    Services,     \* the network services, i.e. the storage nodes
    ServiceOf,    \* the service behind a connection, None for a client's
    None,         \* stands for the id 0
    MaxRequests,  \* bound: requests the clients send
    MaxPhases,    \* bound: phases of one transaction
    MaxStrays     \* bound: packages that name a package they do not answer

ASSUME ConstantsAssumption ==
    /\ None \notin Conns \cup Services
    /\ Conns \cap Services = {}
    /\ ServiceOf \in [Conns -> Services \cup {None}]
    /\ MaxRequests \in Nat
    /\ MaxPhases \in Nat \ {0}
    /\ MaxStrays \in Nat

VARIABLES
    packages,      \* PackageManager::m_package_list
    inQueue,       \* ActorMessageQueue, IN_QUEUE: network thread to worker
    outQueue,      \* ActorMessageQueue, OUT_QUEUE: worker to network thread
    transactions,  \* MultiplyPhaseTransactionManager::m_trans_list
    bound,         \* MultiplyPhaseTransactionManager::m_bind_list
    timers,        \* TimerManager::m_timer_queue in the order of expiry
    nextPackage,   \* PackageManager::m_next_id
    nextTrans,     \* MultiplyPhaseTransactionManager::m_next_id
    atPeer,        \* requests that reached a peer and are not answered yet
    requests,      \* number of requests the clients have sent
    strays,        \* number of stray packages the peers have sent
    replies,       \* history: replies sent to each request
    asked,         \* history: which transaction and phase sent a package
    lost           \* packages whose OUT message was popped and then dropped

engine == <<packages, inQueue, outQueue, transactions, bound, timers,
            nextPackage, nextTrans>>
vars == <<packages, inQueue, outQueue, transactions, bound, timers,
          nextPackage, nextTrans, atPeer, requests, strays, replies, asked, lost>>

Requests == 1 .. MaxRequests

\* Commands with a one phase handler, with a multiply phase handler, the
\* answers the latter wait for, and commands nobody registered.
Commands == {"one", "multiply", "answer", "unknown"}

Package == [id : Nat, cmd : Commands, self : Nat, trigger : Nat]
InMessage == [conn : Conns, service : Services \cup {None}, package : Nat]
\* A message goes to a connection, or to a service when conn is None.
Target == [conn : Conns, service : {None}] \cup [conn : {None}, service : Services]
OutMessage == [to : Target, package : Nat]
Transaction == [id : Nat, phase : Nat, firstConn : Conns, firstPackage : Nat,
                waitFor : Target]
Timer == [trans : Nat, phase : Nat]

TypeOK ==
    /\ packages \subseteq Package
    /\ inQueue \in Seq(InMessage)
    /\ outQueue \in Seq(OutMessage)
    /\ transactions \subseteq Transaction
    /\ bound \subseteq [package : Nat, trans : Nat]
    /\ timers \in Seq(Timer)
    /\ nextPackage \in Nat \ {0}
    /\ nextTrans \in Nat \ {0}
    /\ atPeer \subseteq [package : Nat, conn : Conns]
    /\ requests \in 0 .. MaxRequests
    /\ strays \in 0 .. MaxStrays
    /\ replies \in [Requests -> Nat]
    /\ asked \subseteq [package : Nat, trans : Nat, phase : Nat]
    /\ lost \subseteq Nat

Init ==
    /\ packages = {}
    /\ inQueue = <<>>
    /\ outQueue = <<>>
    /\ transactions = {}
    /\ bound = {}
    /\ timers = <<>>
    /\ nextPackage = 1
    /\ nextTrans = 1
    /\ atPeer = {}
    /\ requests = 0
    /\ strays = 0
    /\ replies = [r \in Requests |-> 0]
    /\ asked = {}
    /\ lost = {}

-----------------------------------------------------------------------------
(* The peers, and the network thread's way in *)

\* A complete package arrived on c: it gets an id of this process, whatever
\* its header says of the sender's ids, and a message in the IN queue.
Receive(c, cmd, self, trigger) ==
    /\ packages' = packages \cup
          {[id |-> nextPackage, cmd |-> cmd, self |-> self, trigger |-> trigger]}
    /\ inQueue' = Append(inQueue,
          [conn |-> c, service |-> ServiceOf[c], package |-> nextPackage])
    /\ nextPackage' = nextPackage + 1
    /\ UNCHANGED <<outQueue, transactions, bound, timers, nextTrans, replies,
                   asked, lost>>

ClientRequest(c, cmd) ==
    /\ ServiceOf[c] = None
    /\ requests < MaxRequests
    /\ requests' = requests + 1
    /\ Receive(c, cmd, requests + 1, 0)
    /\ UNCHANGED <<atPeer, strays>>

\* A storage node answers a request over the connection that brought it.
PeerAnswer(request) ==
    /\ atPeer' = atPeer \ {request}
    /\ Receive(request.conn, "answer", 0, request.package)
    /\ UNCHANGED <<requests, strays>>

\* A package that names an earlier package of this process and does not answer
\* it: another peer sent it, or it has another command, or it is a repetition.
StrayPackage(c, cmd, trigger) ==
    /\ strays < MaxStrays
    /\ \A p \in packages : p.id # trigger
    /\ strays' = strays + 1
    /\ Receive(c, cmd, 0, trigger)
    /\ UNCHANGED <<atPeer, requests>>

-----------------------------------------------------------------------------
(* The network thread's way out *)

TakeOut ==
    /\ outQueue # <<>>
    /\ outQueue' = Tail(outQueue)
    /\ UNCHANGED <<inQueue, transactions, bound, timers, nextPackage, nextTrans,
                   requests, strays, replies, asked>>

WithoutPackage(id) == {p \in packages : p.id # id}

\* The connection, or one of the service, is open: the package is written.
SendPackage(c) ==
    /\ TakeOut
    /\ LET m == Head(outQueue)
           expectsAnswer == \E b \in asked : b.package = m.package
       IN  /\ IF m.to.conn # None THEN c = m.to.conn ELSE ServiceOf[c] = m.to.service
           /\ atPeer' = IF expectsAnswer
                        THEN atPeer \cup {[package |-> m.package, conn |-> c]}
                        ELSE atPeer
           /\ packages' = WithoutPackage(m.package)
    /\ UNCHANGED lost

\* Mutant of DropPackage: the package of a closed connection stays in the list.
MutantDropPackageKeeps == TakeOut /\ UNCHANGED <<packages, atPeer, lost>>

\* The connection is closed or closing: the package is removed.
DropPackage ==
    /\ TakeOut
    /\ packages' = WithoutPackage(Head(outQueue).package)
    /\ UNCHANGED <<atPeer, lost>>

\* get_connection_id cannot connect to the service and throws through
\* process_out_message, which has popped the message already.
LosePackage ==
    /\ TakeOut
    /\ Head(outQueue).to.conn = None
    /\ lost' = lost \cup {Head(outQueue).package}
    /\ UNCHANGED <<packages, atPeer>>

-----------------------------------------------------------------------------
(* What the worker's handlers do with the engine *)

\* send_protocol gives up before it registers a package when the message is
\* too large; the caller is not told.
SendNothing(done) ==
    /\ packages' = WithoutPackage(done)
    /\ UNCHANGED <<outQueue, nextPackage, replies, asked>>

Push(done, to, cmd, trigger) ==
    /\ packages' = WithoutPackage(done) \cup
          {[id |-> nextPackage, cmd |-> cmd, self |-> nextPackage, trigger |-> trigger]}
    /\ outQueue' = Append(outQueue, [to |-> to, package |-> nextPackage])
    /\ nextPackage' = nextPackage + 1

\* Mutant of Reply: the message names the connection as its service as well.
MutantReplyNamesService(done, conn, request) ==
    \/ SendNothing(done)
    \/ /\ Push(done, [conn |-> conn, service |-> conn], "answer", request)
       /\ replies' = IF request \in Requests
                     THEN [replies EXCEPT ![request] = @ + 1] ELSE replies
       /\ UNCHANGED asked

\* send_back_protocol: a reply or a RspError turned into the reply's command,
\* to the connection and the package that started it.
Reply(done, conn, request) ==
    \/ SendNothing(done)
    \/ /\ Push(done, [conn |-> conn, service |-> None], "answer", request)
       /\ replies' = IF request \in Requests
                     THEN [replies EXCEPT ![request] = @ + 1] ELSE replies
       /\ UNCHANGED asked

\* A request to a peer, bound to the transaction that sends it.
Ask(done, to, t, phase) ==
    \/ SendNothing(done)
    \/ /\ Push(done, to, "one", 0)
       /\ asked' = asked \cup {[package |-> nextPackage, trans |-> t, phase |-> phase]}
       /\ UNCHANGED replies

Bind(t) ==
    IF nextPackage' = nextPackage THEN {}
    ELSE {[package |-> nextPackage, trans |-> t]}

WithoutTransaction(t) == {x \in transactions : x.id # t}

\* Mutant of AskAndWait: only the first wait of a transaction arms a timer.
MutantAskAndWaitTimedOnce(done, trans, to) ==
    /\ trans.phase < MaxPhases
    /\ Ask(done, to, trans.id, trans.phase + 1)
    /\ transactions' = WithoutTransaction(trans.id) \cup
          {[trans EXCEPT !.phase = @ + 1, !.waitFor = to]}
    /\ timers' = IF trans.phase = 0
                 THEN Append(timers, [trans |-> trans.id, phase |-> trans.phase + 1])
                 ELSE timers

\* Mutant of AskAndWait: only a wait for a connection arms a timer.
MutantAskAndWaitServiceUntimed(done, trans, to) ==
    /\ trans.phase < MaxPhases
    /\ Ask(done, to, trans.id, trans.phase + 1)
    /\ transactions' = WithoutTransaction(trans.id) \cup
          {[trans EXCEPT !.phase = @ + 1, !.waitFor = to]}
    /\ timers' = IF to.conn = None THEN timers
                 ELSE Append(timers, [trans |-> trans.id, phase |-> trans.phase + 1])

\* send_protocol and wait_next_phase as the last two calls of a handler: the
\* transaction goes on to its next phase and arms a timer.
AskAndWait(done, trans, to) ==
    /\ trans.phase < MaxPhases
    /\ Ask(done, to, trans.id, trans.phase + 1)
    /\ transactions' = WithoutTransaction(trans.id) \cup
          {[trans EXCEPT !.phase = @ + 1, !.waitFor = to]}
    /\ timers' = Append(timers, [trans |-> trans.id, phase |-> trans.phase + 1])

-----------------------------------------------------------------------------
(* The worker thread *)

FindTransaction(t) == {x \in transactions : x.id = t}
FindBound(package) ==
    {x \in transactions : \E b \in bound : b.package = package /\ b.trans = x.id}

\* The worker takes the first message of the IN queue.
Take(m, p) ==
    /\ inQueue # <<>>
    /\ m = Head(inQueue)
    /\ p.id = m.package
    /\ inQueue' = Tail(inQueue)
    /\ UNCHANGED <<atPeer, requests, strays, lost>>

\* A package that names no bound package, or one whose transaction is gone,
\* starts a new transaction.
StartsNew(p) == p.trigger = 0 \/ FindBound(p.trigger) = {}

OnePhase(m, p) ==
    /\ Take(m, p)
    /\ StartsNew(p)
    /\ p.cmd = "one"
    /\ Reply(p.id, m.conn, p.self)
    /\ UNCHANGED <<transactions, bound, timers, nextTrans>>

UnknownCommand(m, p) ==
    /\ Take(m, p)
    /\ StartsNew(p)
    /\ p.cmd \notin {"one", "multiply"}
    /\ SendNothing(p.id)
    /\ UNCHANGED <<transactions, bound, timers, nextTrans>>

\* on_init threw, so on_error replies; or it ended without waiting.  In both
\* cases the transaction is removed in the handler run that registered it.
StartAndEnd(m, p) ==
    /\ Take(m, p)
    /\ StartsNew(p)
    /\ p.cmd = "multiply"
    /\ Reply(p.id, m.conn, p.self)
    /\ nextTrans' = nextTrans + 1
    /\ UNCHANGED <<transactions, bound, timers>>

\* Mutant of StartAndWait: the next transaction gets the same id.
MutantStartAndWaitReusesId(m, p, to) ==
    /\ Take(m, p)
    /\ StartsNew(p)
    /\ p.cmd = "multiply"
    /\ AskAndWait(p.id, [id |-> nextTrans, phase |-> 0, firstConn |-> m.conn,
                         firstPackage |-> p.self, waitFor |-> to], to)
    /\ bound' = bound \cup Bind(nextTrans)
    /\ UNCHANGED nextTrans

StartAndWait(m, p, to) ==
    /\ Take(m, p)
    /\ StartsNew(p)
    /\ p.cmd = "multiply"
    /\ AskAndWait(p.id, [id |-> nextTrans, phase |-> 0, firstConn |-> m.conn,
                         firstPackage |-> p.self, waitFor |-> to], to)
    /\ bound' = bound \cup Bind(nextTrans)
    /\ nextTrans' = nextTrans + 1

\* The check of trigger_transaction that the package comes from where the
\* transaction waits, and is what it waits for.
FitsWait(m, p, trans) ==
    /\ IF trans.waitFor.conn # None
       THEN m.conn = trans.waitFor.conn
       ELSE m.service = trans.waitFor.service
    /\ p.cmd = "answer"

WithoutBound(package) == {b \in bound : b.package # package}

\* on_active replied, or threw and on_error replied: the transaction ends.
ActiveAndEnd(m, p, trans) ==
    /\ Take(m, p)
    /\ p.trigger # 0
    /\ trans \in FindBound(p.trigger)
    /\ FitsWait(m, p, trans)
    /\ Reply(p.id, trans.firstConn, trans.firstPackage)
    /\ transactions' = WithoutTransaction(trans.id)
    /\ bound' = WithoutBound(p.trigger)
    /\ UNCHANGED <<timers, nextTrans>>

\* Mutant of ActiveAndWait: the package of the phase before stays bound.
MutantActiveAndWaitKeepsBound(m, p, trans, to) ==
    /\ Take(m, p)
    /\ p.trigger # 0
    /\ trans \in FindBound(p.trigger)
    /\ FitsWait(m, p, trans)
    /\ AskAndWait(p.id, trans, to)
    /\ bound' = bound \cup Bind(trans.id)
    /\ UNCHANGED nextTrans

ActiveAndWait(m, p, trans, to) ==
    /\ Take(m, p)
    /\ p.trigger # 0
    /\ trans \in FindBound(p.trigger)
    /\ FitsWait(m, p, trans)
    /\ AskAndWait(p.id, trans, to)
    /\ bound' = (bound \cup Bind(trans.id)) \ {b \in bound : b.package = p.trigger}
    /\ UNCHANGED nextTrans

\* The package does not fit: only a log line, but the binding goes as well.
NotFit(m, p, trans) ==
    /\ Take(m, p)
    /\ p.trigger # 0
    /\ trans \in FindBound(p.trigger)
    /\ ~FitsWait(m, p, trans)
    /\ SendNothing(p.id)
    /\ bound' = WithoutBound(p.trigger)
    /\ UNCHANGED <<transactions, timers, nextTrans>>

\* The timer of wait_next_phase: it knows the transaction, not the phase.
TakeTimer ==
    /\ timers # <<>>
    /\ timers' = Tail(timers)
    /\ UNCHANGED <<inQueue, bound, nextTrans, atPeer, requests, strays, lost>>

\* Mutant of Timeout: the transaction is replied to, and stays registered.
MutantTimeoutKeeps(trans) ==
    /\ TakeTimer
    /\ trans \in FindTransaction(Head(timers).trans)
    /\ Reply(0, trans.firstConn, trans.firstPackage)
    /\ UNCHANGED transactions

Timeout(trans) ==
    /\ TakeTimer
    /\ trans \in FindTransaction(Head(timers).trans)
    /\ Reply(0, trans.firstConn, trans.firstPackage)
    /\ transactions' = WithoutTransaction(trans.id)

TimerOfEnded ==
    /\ TakeTimer
    /\ FindTransaction(Head(timers).trans) = {}
    /\ SendNothing(0)
    /\ UNCHANGED transactions

-----------------------------------------------------------------------------

WaitTargets == {to \in Target : to.conn # None => ServiceOf[to.conn] # None}

Peers ==
    \/ \E c \in Conns, cmd \in {"one", "multiply", "unknown"} : ClientRequest(c, cmd)
    \/ \E request \in atPeer : PeerAnswer(request)
    \/ \E c \in Conns, cmd \in {"answer", "unknown"}, b \in asked :
          StrayPackage(c, cmd, b.package)

NetworkThread == (\E c \in Conns : SendPackage(c)) \/ DropPackage \/ LosePackage

ProcessMessage(m, p) ==
    \/ OnePhase(m, p)
    \/ UnknownCommand(m, p)
    \/ StartAndEnd(m, p)
    \/ \E to \in WaitTargets : StartAndWait(m, p, to)
    \/ \E trans \in transactions :
          \/ ActiveAndEnd(m, p, trans)
          \/ \E to \in WaitTargets : ActiveAndWait(m, p, trans, to)
          \/ NotFit(m, p, trans)

WorkerMessage ==
    /\ inQueue # <<>>
    /\ \E p \in packages : ProcessMessage(Head(inQueue), p)

WorkerTimer == (\E trans \in transactions : Timeout(trans)) \/ TimerOfEnded

Next == Peers \/ NetworkThread \/ WorkerMessage \/ WorkerTimer

\* The loop of Worker::run looks at the IN queue and at the timers in every
\* turn, and the reactor at the OUT queue in every turn of its own.  The peers
\* and the clients owe nothing.
Fairness == WF_vars(NetworkThread) /\ WF_vars(WorkerMessage) /\ WF_vars(WorkerTimer)

Spec == Init /\ [][Next]_vars
FairSpec == Spec /\ Fairness

-----------------------------------------------------------------------------
(* What the engine promises *)

\* A transaction that is registered between two handler runs has a timer armed
\* for the very phase it waits in, so that no transaction can wait for ever
\* (worker.cpp:242-245 rests on it: remove on timeout).
EveryWaitIsTimed ==
    \A x \in transactions : \E i \in DOMAIN timers :
        timers[i] = [trans |-> x.id, phase |-> x.phase]

\* A registered transaction has at most one package bound to it, that of the
\* phase it is in: the binding of the phase before is gone once the next one
\* waits, so a late answer cannot find the transaction (worker.cpp:280).
BoundToCurrentPhase ==
    \A b \in bound, x \in transactions :
        b.trans = x.id =>
            [package |-> b.package, trans |-> x.id, phase |-> x.phase] \in asked

\* A request of a client is replied to at most once, whatever answers,
\* timeouts, errors and strays come in whatever order.
AtMostOneReply == \A r \in Requests : replies[r] <= 1

InQueueOf(id) == {i \in DOMAIN inQueue : inQueue[i].package = id}
OutQueueOf(id) == {i \in DOMAIN outQueue : outQueue[i].package = id}

\* Every package of the package list is owned once: by one message of one of the
\* two queues, or it was lost; and no message names a removed package, so that
\* neither thread removes what the other one still uses.
OwnedOnce ==
    /\ \A i \in DOMAIN inQueue : \E p \in packages : p.id = inQueue[i].package
    /\ \A i \in DOMAIN outQueue : \E p \in packages : p.id = outQueue[i].package
    /\ \A i, j \in DOMAIN inQueue : inQueue[i].package = inQueue[j].package => i = j
    /\ \A i, j \in DOMAIN outQueue : outQueue[i].package = outQueue[j].package => i = j
    /\ \A p \in packages :
          \/ InQueueOf(p.id) # {} /\ OutQueueOf(p.id) = {} /\ p.id \notin lost
          \/ InQueueOf(p.id) = {} /\ OutQueueOf(p.id) # {} /\ p.id \notin lost
          \/ InQueueOf(p.id) = {} /\ OutQueueOf(p.id) = {} /\ p.id \in lost

\* A timer that outlives its transaction never meets another one under the same
\* id, and none is armed for a phase the transaction has yet to reach.
TimersMeetTheirTransaction ==
    \A i \in DOMAIN timers :
        /\ timers[i].trans < nextTrans
        /\ \A x \in transactions : x.id = timers[i].trans => timers[i].phase <= x.phase

\* Only the answer to the request of the current phase moves a transaction on:
\* an answer to an earlier phase, or to another transaction, never does.
MovedByOwnAnswer ==
    [][\A x \in transactions, p \in packages :
         /\ inQueue # <<>> /\ Head(inQueue).package = p.id
         /\ inQueue' = Tail(inQueue)
         /\ x \notin transactions'
         => [package |-> p.trigger, trans |-> x.id, phase |-> x.phase] \in asked]_vars

\* Every transaction ends: its answer comes, or its timer does.
TransactionsEnd ==
    \A t \in Requests : (FindTransaction(t) # {}) ~> (FindTransaction(t) = {})

InQueueAs(r) ==
    \E i \in DOMAIN inQueue, p \in packages :
        p.id = inQueue[i].package /\ p.self = r

\* How far a request has come: its package waits in the IN queue, or the
\* transaction it started is registered, or it is done with.
Stage(r) ==
    IF r > requests THEN "unsent"
    ELSE IF InQueueAs(r) THEN "received"
    ELSE IF \E x \in transactions : x.firstPackage = r THEN "open"
    ELSE "closed"

Abstract == INSTANCE RequestReply WITH stage <- [r \in Requests |-> Stage(r)]

\* The engine keeps the promise of RequestReply: every request is closed once,
\* replied to at most once and only then, and none stays open for ever.
ImplementsRequestReply == Abstract!Spec

=============================================================================
