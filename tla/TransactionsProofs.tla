------------------------- MODULE TransactionsProofs -------------------------
(***************************************************************************)
(* Theorems about Transactions, for every set of connections and services  *)
(* and every bound.                                                        *)
(***************************************************************************)
EXTENDS Transactions, TLAPS

-----------------------------------------------------------------------------
(* Types *)

LEMMA InitTypeOK == Init => TypeOK
  <1> SUFFICES ASSUME Init
               PROVE  TypeOK
    OBVIOUS
  <1>1. replies \in [Requests -> Nat]
    BY DEF Init
  <1>2. requests \in 0 .. MaxRequests /\ strays \in 0 .. MaxStrays
    BY ConstantsAssumption DEF Init
  <1>3. inQueue \in Seq(InMessage) /\ outQueue \in Seq(OutMessage) /\ timers \in Seq(Timer)
    BY DEF Init
  <1>4. /\ packages \subseteq Package /\ transactions \subseteq Transaction
        /\ bound \subseteq [package : Nat, trans : Nat]
        /\ atPeer \subseteq [package : Nat, conn : Conns]
        /\ asked \subseteq [package : Nat, trans : Nat, phase : Nat]
        /\ lost \subseteq Nat
    BY DEF Init
  <1>5. nextPackage \in Nat \ {0} /\ nextTrans \in Nat \ {0}
    BY DEF Init
  <1> QED
    BY <1>1, <1>2, <1>3, <1>4, <1>5 DEF TypeOK

\* Receive, the common part of the three ways a package comes in.
LEMMA ReceiveTypeOK ==
  ASSUME TypeOK, NEW c \in Conns, NEW cmd \in Commands, NEW self \in Nat,
         NEW trigger \in Nat, Receive(c, cmd, self, trigger)
  PROVE  /\ packages' \subseteq Package
         /\ inQueue' \in Seq(InMessage)
         /\ nextPackage' \in Nat \ {0}
  <1>1. [id |-> nextPackage, cmd |-> cmd, self |-> self, trigger |-> trigger] \in Package
    BY DEF TypeOK, Package
  <1>2. [conn |-> c, service |-> ServiceOf[c], package |-> nextPackage] \in InMessage
    BY ConstantsAssumption DEF TypeOK, InMessage
  <1>3. QED
    BY <1>1, <1>2 DEF TypeOK, Receive

\* Reply and Ask, the two ways a handler sends.
SendTypes ==
    /\ packages' \subseteq Package
    /\ outQueue' \in Seq(OutMessage)
    /\ nextPackage' \in Nat \ {0}
    /\ replies' \in [Requests -> Nat]
    /\ asked' \subseteq [package : Nat, trans : Nat, phase : Nat]

LEMMA PushTypeOK ==
  ASSUME TypeOK, NEW done, NEW to \in Target, NEW cmd \in Commands,
         NEW trigger \in Nat, Push(done, to, cmd, trigger)
  PROVE  /\ packages' \subseteq Package
         /\ outQueue' \in Seq(OutMessage)
         /\ nextPackage' \in Nat \ {0}
  <1>1. [id |-> nextPackage, cmd |-> cmd, self |-> nextPackage, trigger |-> trigger]
          \in Package
    BY DEF TypeOK, Package
  <1>2. [to |-> to, package |-> nextPackage] \in OutMessage
    BY DEF TypeOK, OutMessage
  <1>3. QED
    BY <1>1, <1>2 DEF TypeOK, Push, WithoutPackage

LEMMA NothingTypeOK ==
  ASSUME TypeOK, NEW done, SendNothing(done)
  PROVE  SendTypes
  BY DEF TypeOK, SendNothing, SendTypes, WithoutPackage

LEMMA ReplyTypeOK ==
  ASSUME TypeOK, NEW done, NEW conn \in Conns, NEW request \in Nat,
         Reply(done, conn, request)
  PROVE  SendTypes
  <1>1. CASE SendNothing(done)
    BY <1>1, NothingTypeOK
  <1>2. CASE /\ Push(done, [conn |-> conn, service |-> None], "answer", request)
             /\ replies' = IF request \in Requests
                           THEN [replies EXCEPT ![request] = @ + 1] ELSE replies
             /\ asked' = asked
    <2>1. [conn |-> conn, service |-> None] \in Target
      BY DEF Target
    <2>2. /\ packages' \subseteq Package
          /\ outQueue' \in Seq(OutMessage)
          /\ nextPackage' \in Nat \ {0}
      BY <1>2, <2>1, PushTypeOK DEF Commands
    <2>3. replies' \in [Requests -> Nat]
      BY <1>2 DEF TypeOK
    <2>4. QED
      BY <1>2, <2>2, <2>3 DEF SendTypes, TypeOK
  <1>3. QED
    BY <1>1, <1>2 DEF Reply

LEMMA AskTypeOK ==
  ASSUME TypeOK, NEW done, NEW to \in Target, NEW t \in Nat, NEW phase \in Nat,
         Ask(done, to, t, phase)
  PROVE  SendTypes
  <1>1. CASE SendNothing(done)
    BY <1>1, NothingTypeOK
  <1>2. CASE /\ Push(done, to, "one", 0)
             /\ asked' = asked \cup
                   {[package |-> nextPackage, trans |-> t, phase |-> phase]}
             /\ replies' = replies
    <2>1. /\ packages' \subseteq Package
          /\ outQueue' \in Seq(OutMessage)
          /\ nextPackage' \in Nat \ {0}
      BY <1>2, PushTypeOK DEF Commands
    <2>2. asked' \subseteq [package : Nat, trans : Nat, phase : Nat]
      BY <1>2 DEF TypeOK
    <2>3. QED
      BY <1>2, <2>1, <2>2 DEF SendTypes, TypeOK
  <1>3. QED
    BY <1>1, <1>2 DEF Ask

LEMMA AskAndWaitTypeOK ==
  ASSUME TypeOK, NEW done, NEW trans \in Transaction, NEW to \in Target,
         AskAndWait(done, trans, to)
  PROVE  /\ SendTypes
         /\ transactions' \subseteq Transaction
         /\ timers' \in Seq(Timer)
         /\ Bind(trans.id) \subseteq [package : Nat, trans : Nat]
  <1>1. trans.id \in Nat /\ trans.phase + 1 \in Nat
    BY DEF Transaction
  <1>2. SendTypes
    BY <1>1, AskTypeOK DEF AskAndWait
  <1>3. [trans EXCEPT !.phase = @ + 1, !.waitFor = to] \in Transaction
    <2>1. [trans EXCEPT !.phase = @ + 1] \in Transaction
      BY DEF Transaction
    <2>2. \A x \in Transaction : [x EXCEPT !.waitFor = to] \in Transaction
      BY DEF Transaction
    <2>3. [trans EXCEPT !.phase = @ + 1, !.waitFor = to]
            = [[trans EXCEPT !.phase = @ + 1] EXCEPT !.waitFor = to]
      BY DEF Transaction
    <2>4. QED
      BY <2>1, <2>2, <2>3
  <1>4. transactions' \subseteq Transaction
    BY <1>3 DEF AskAndWait, TypeOK, WithoutTransaction
  <1>5. timers' \in Seq(Timer)
    BY <1>1 DEF AskAndWait, TypeOK, Timer
  <1>6. Bind(trans.id) \subseteq [package : Nat, trans : Nat]
    BY <1>1 DEF Bind, TypeOK
  <1>7. QED
    BY <1>2, <1>4, <1>5, <1>6

\* Take, the common part of the worker's handling of a message.
LEMMA TakeTypeOK ==
  ASSUME TypeOK, NEW m, NEW p \in packages, Take(m, p)
  PROVE  /\ m \in InMessage
         /\ m.conn \in Conns
         /\ p \in Package
         /\ p.self \in Nat
         /\ inQueue' \in Seq(InMessage)
         /\ UNCHANGED <<atPeer, requests, strays, lost>>
  <1>1. m \in InMessage /\ inQueue' \in Seq(InMessage)
    BY DEF TypeOK, Take
  <1>2. p \in Package
    BY DEF TypeOK
  <1>3. m.conn \in Conns /\ p.self \in Nat
    BY <1>1, <1>2 DEF InMessage, Package
  <1>4. QED
    BY <1>1, <1>2, <1>3 DEF Take

LEMMA MessageTypeOK ==
  ASSUME TypeOK, NEW m, NEW p \in packages, ProcessMessage(m, p)
  PROVE  TypeOK'
  <1>1. CASE OnePhase(m, p)
    <2>1. SendTypes
      BY <1>1, TakeTypeOK, ReplyTypeOK DEF OnePhase
    <2>2. QED
      BY <1>1, <2>1, TakeTypeOK DEF OnePhase, SendTypes, TypeOK
  <1>2. CASE UnknownCommand(m, p)
    <2>1. SendTypes
      BY <1>2, NothingTypeOK DEF UnknownCommand
    <2>2. QED
      BY <1>2, <2>1, TakeTypeOK DEF UnknownCommand, SendTypes, TypeOK
  <1>3. CASE StartAndEnd(m, p)
    <2>1. SendTypes
      BY <1>3, TakeTypeOK, ReplyTypeOK DEF StartAndEnd
    <2>2. nextTrans' \in Nat \ {0}
      BY <1>3 DEF StartAndEnd, TypeOK
    <2>3. QED
      BY <1>3, <2>1, <2>2, TakeTypeOK DEF StartAndEnd, SendTypes, TypeOK
  <1>4. ASSUME NEW to \in WaitTargets, StartAndWait(m, p, to)
        PROVE  TypeOK'
    <2> DEFINE new == [id |-> nextTrans, phase |-> 0, firstConn |-> m.conn,
                       firstPackage |-> p.self, waitFor |-> to]
    <2>1. Take(m, p) /\ AskAndWait(p.id, new, to)
      BY <1>4 DEF StartAndWait
    <2>2. to \in Target
      BY <1>4 DEF WaitTargets
    <2>3. new \in Transaction
      BY <2>1, <2>2, TakeTypeOK DEF Transaction, TypeOK
    <2> HIDE DEF new
    <2>4. /\ SendTypes
          /\ transactions' \subseteq Transaction
          /\ timers' \in Seq(Timer)
          /\ Bind(new.id) \subseteq [package : Nat, trans : Nat]
      BY <2>1, <2>2, <2>3, AskAndWaitTypeOK
    <2>5. new.id = nextTrans
      BY DEF new
    <2>6. /\ bound' \subseteq [package : Nat, trans : Nat]
          /\ nextTrans' \in Nat \ {0}
          /\ UNCHANGED <<atPeer, requests, strays, lost>>
      <3>1. /\ bound' = bound \cup Bind(new.id)
            /\ nextTrans' = nextTrans + 1
            /\ Take(m, p)
        BY <1>4, <2>5 DEF StartAndWait
      <3>2. UNCHANGED <<atPeer, requests, strays, lost>>
        BY <3>1, TakeTypeOK
      <3>3. QED
        BY <2>4, <3>1, <3>2 DEF TypeOK
    <2>7. QED
      BY <2>1, <2>4, <2>6, TakeTypeOK DEF SendTypes, TypeOK
  <1>5. ASSUME NEW trans \in transactions, ActiveAndEnd(m, p, trans)
        PROVE  TypeOK'
    <2>1. trans.firstConn \in Conns /\ trans.firstPackage \in Nat
      BY DEF TypeOK, Transaction
    <2>2. SendTypes
      BY <1>5, <2>1, ReplyTypeOK DEF ActiveAndEnd
    <2>3. QED
      BY <1>5, <2>2, TakeTypeOK
      DEF ActiveAndEnd, SendTypes, TypeOK, WithoutTransaction, WithoutBound
  <1>6. ASSUME NEW trans \in transactions, NEW to \in WaitTargets,
               ActiveAndWait(m, p, trans, to)
        PROVE  TypeOK'
    <2>1. trans \in Transaction /\ to \in Target
      BY DEF TypeOK, WaitTargets
    <2>2. Take(m, p) /\ AskAndWait(p.id, trans, to)
      BY <1>6 DEF ActiveAndWait
    <2>3. /\ SendTypes
          /\ transactions' \subseteq Transaction
          /\ timers' \in Seq(Timer)
          /\ Bind(trans.id) \subseteq [package : Nat, trans : Nat]
      BY <2>1, <2>2, AskAndWaitTypeOK
    <2>4. bound' \subseteq [package : Nat, trans : Nat] /\ nextTrans' \in Nat \ {0}
      BY <1>6, <2>3 DEF ActiveAndWait, TypeOK
    <2>5. QED
      BY <2>2, <2>3, <2>4, TakeTypeOK DEF SendTypes, TypeOK
  <1>7. ASSUME NEW trans \in transactions, NotFit(m, p, trans)
        PROVE  TypeOK'
    <2>1. SendTypes
      BY <1>7, NothingTypeOK DEF NotFit
    <2>2. QED
      BY <1>7, <2>1, TakeTypeOK DEF NotFit, SendTypes, TypeOK, WithoutBound
  <1>8. QED
    BY <1>1, <1>2, <1>3, <1>4, <1>5, <1>6, <1>7 DEF ProcessMessage
LEMMA PeersTypeOK ==
  ASSUME TypeOK, Peers
  PROVE  TypeOK'
  <1>1. ASSUME NEW c \in Conns, NEW cmd \in {"one", "multiply", "unknown"},
               ClientRequest(c, cmd)
        PROVE  TypeOK'
    <2>1. requests + 1 \in Nat /\ requests' \in 0 .. MaxRequests
      BY <1>1, ConstantsAssumption DEF ClientRequest, TypeOK
    <2>2. cmd \in Commands /\ Receive(c, cmd, requests + 1, 0)
      BY <1>1 DEF ClientRequest, Commands
    <2>3. /\ packages' \subseteq Package
          /\ inQueue' \in Seq(InMessage)
          /\ nextPackage' \in Nat \ {0}
      BY <2>1, <2>2, ReceiveTypeOK
    <2>4. QED
      BY <1>1, <2>1, <2>2, <2>3 DEF ClientRequest, Receive, TypeOK
  <1>2. ASSUME NEW request \in atPeer, PeerAnswer(request)
        PROVE  TypeOK'
    <2>1. request.conn \in Conns /\ request.package \in Nat
      BY DEF TypeOK
    <2>2. Receive(request.conn, "answer", 0, request.package)
      BY <1>2 DEF PeerAnswer
    <2>3. /\ packages' \subseteq Package
          /\ inQueue' \in Seq(InMessage)
          /\ nextPackage' \in Nat \ {0}
      BY <2>1, <2>2, ReceiveTypeOK DEF Commands
    <2>4. QED
      BY <1>2, <2>2, <2>3 DEF PeerAnswer, Receive, TypeOK
  <1>3. ASSUME NEW c \in Conns, NEW cmd \in {"answer", "unknown"}, NEW b \in asked,
               StrayPackage(c, cmd, b.package)
        PROVE  TypeOK'
    <2>1. b.package \in Nat /\ cmd \in Commands
      BY DEF TypeOK, Commands
    <2>2. Receive(c, cmd, 0, b.package)
      BY <1>3 DEF StrayPackage
    <2>3. /\ packages' \subseteq Package
          /\ inQueue' \in Seq(InMessage)
          /\ nextPackage' \in Nat \ {0}
      BY <2>1, <2>2, ReceiveTypeOK
    <2>4. strays' \in 0 .. MaxStrays
      BY <1>3, ConstantsAssumption DEF StrayPackage, TypeOK
    <2>5. QED
      BY <1>3, <2>2, <2>3, <2>4 DEF StrayPackage, Receive, TypeOK
  <1>4. QED
    BY <1>1, <1>2, <1>3 DEF Peers

LEMMA NetworkThreadTypeOK ==
  ASSUME TypeOK, NetworkThread
  PROVE  TypeOK'
  <1>1. ASSUME TakeOut
        PROVE  outQueue' \in Seq(OutMessage) /\ Head(outQueue).package \in Nat
    <2>1. Head(outQueue) \in OutMessage /\ outQueue' \in Seq(OutMessage)
      BY <1>1 DEF TakeOut, TypeOK
    <2>2. QED
      BY <2>1 DEF OutMessage
  <1>2. ASSUME NEW c \in Conns, SendPackage(c)
        PROVE  TypeOK'
    <2>1. TakeOut /\ Head(outQueue).package \in Nat /\ outQueue' \in Seq(OutMessage)
      BY <1>1, <1>2 DEF SendPackage
    <2>2. atPeer' \subseteq [package : Nat, conn : Conns]
      BY <1>2, <2>1 DEF SendPackage, TypeOK
    <2>3. packages' \subseteq Package
      BY <1>2 DEF SendPackage, TypeOK, WithoutPackage
    <2>4. QED
      BY <1>2, <2>1, <2>2, <2>3 DEF SendPackage, TakeOut, TypeOK
  <1>3. CASE DropPackage
    BY <1>1, <1>3 DEF DropPackage, TakeOut, TypeOK, WithoutPackage
  <1>4. CASE LosePackage
    BY <1>1, <1>4 DEF LosePackage, TakeOut, TypeOK
  <1>5. QED
    BY <1>2, <1>3, <1>4 DEF NetworkThread

LEMMA WorkerTimerTypeOK ==
  ASSUME TypeOK, WorkerTimer
  PROVE  TypeOK'
  <1>1. ASSUME NEW trans \in transactions, Timeout(trans)
        PROVE  TypeOK'
    <2>1. trans.firstConn \in Conns /\ trans.firstPackage \in Nat
      BY DEF TypeOK, Transaction
    <2>2. SendTypes
      BY <1>1, <2>1, ReplyTypeOK DEF Timeout
    <2>3. QED
      BY <1>1, <2>2 DEF Timeout, TakeTimer, SendTypes, TypeOK, WithoutTransaction
  <1>2. CASE TimerOfEnded
    <2>1. SendTypes
      BY <1>2, NothingTypeOK DEF TimerOfEnded
    <2>2. QED
      BY <1>2, <2>1 DEF TimerOfEnded, TakeTimer, SendTypes, TypeOK
  <1>3. QED
    BY <1>1, <1>2 DEF WorkerTimer

\* Every variable of the engine keeps its type, so that no handler can leave a
\* message, a transaction or a timer that names no connection or no id.
THEOREM TypeCorrect == Spec => []TypeOK
  <1>1. TypeOK /\ [Next]_vars => TypeOK'
    <2> SUFFICES ASSUME TypeOK, [Next]_vars
                 PROVE  TypeOK'
      OBVIOUS
    <2>1. CASE WorkerMessage
      BY <2>1, MessageTypeOK DEF WorkerMessage
    <2>2. CASE UNCHANGED vars
      BY <2>2 DEF TypeOK, vars
    <2>3. QED
      BY <2>1, <2>2, PeersTypeOK, NetworkThreadTypeOK, WorkerTimerTypeOK DEF Next
  <1>2. QED
    BY InitTypeOK, <1>1, PTL DEF Spec

-----------------------------------------------------------------------------
(* Timers *)

\* What a step can do to the transactions and their timers.
NothingTimed == UNCHANGED <<transactions, timers>>
RemoveUntimed(t) == transactions' = WithoutTransaction(t) /\ UNCHANGED timers
Expire(t) ==
    /\ timers # <<>>
    /\ Head(timers).trans = t
    /\ timers' = Tail(timers)
    /\ transactions' = WithoutTransaction(t)
Arm(t, phase) ==
    /\ timers' = Append(timers, [trans |-> t, phase |-> phase])
    /\ \E new : /\ transactions' = WithoutTransaction(t) \cup {new}
                /\ new.id = t
                /\ new.phase = phase

LEMMA ArmByAskAndWait ==
  ASSUME NEW done, NEW trans \in Transaction, NEW to, AskAndWait(done, trans, to)
  PROVE  Arm(trans.id, trans.phase + 1)
  <1> DEFINE new == [trans EXCEPT !.phase = @ + 1, !.waitFor = to]
  <1>1. new.id = trans.id /\ new.phase = trans.phase + 1
    BY DEF Transaction
  <1>2. transactions' = WithoutTransaction(trans.id) \cup {new}
    BY DEF AskAndWait
  <1> HIDE DEF new
  <1>3. QED
    BY <1>1, <1>2 DEF AskAndWait, Arm

LEMMA MessageTimerStep ==
  ASSUME TypeOK, NEW m, NEW p \in packages, ProcessMessage(m, p)
  PROVE  \/ NothingTimed /\ nextTrans' \in {nextTrans, nextTrans + 1}
         \/ /\ nextTrans' = nextTrans
            /\ \E trans \in transactions : RemoveUntimed(trans.id)
         \/ Arm(nextTrans, 1) /\ nextTrans' = nextTrans + 1
         \/ /\ nextTrans' = nextTrans
            /\ \E trans \in transactions : Arm(trans.id, trans.phase + 1)
  <1>1. CASE OnePhase(m, p) \/ UnknownCommand(m, p) \/ StartAndEnd(m, p)
    BY <1>1 DEF OnePhase, UnknownCommand, StartAndEnd, NothingTimed
  <1>2. ASSUME NEW to \in WaitTargets, StartAndWait(m, p, to)
        PROVE  Arm(nextTrans, 1) /\ nextTrans' = nextTrans + 1
    <2> DEFINE new == [id |-> nextTrans, phase |-> 0, firstConn |-> m.conn,
                       firstPackage |-> p.self, waitFor |-> to]
    <2>1. Take(m, p) /\ AskAndWait(p.id, new, to) /\ nextTrans' = nextTrans + 1
      BY <1>2 DEF StartAndWait
    <2>2. new \in Transaction
      BY <2>1, TakeTypeOK DEF WaitTargets, Transaction, TypeOK
    <2>3. new.id = nextTrans /\ new.phase + 1 = 1
      OBVIOUS
    <2> HIDE DEF new
    <2>4. Arm(new.id, new.phase + 1)
      BY <2>1, <2>2, ArmByAskAndWait
    <2>5. QED
      BY <2>1, <2>3, <2>4
  <1>3. ASSUME NEW trans \in transactions, ActiveAndEnd(m, p, trans)
        PROVE  RemoveUntimed(trans.id) /\ nextTrans' = nextTrans
    BY <1>3 DEF ActiveAndEnd, RemoveUntimed
  <1>4. ASSUME NEW trans \in transactions, NEW to \in WaitTargets,
               ActiveAndWait(m, p, trans, to)
        PROVE  Arm(trans.id, trans.phase + 1) /\ nextTrans' = nextTrans
    BY <1>4, ArmByAskAndWait DEF ActiveAndWait, TypeOK
  <1>5. ASSUME NEW trans \in transactions, NotFit(m, p, trans)
        PROVE  NothingTimed /\ nextTrans' = nextTrans
    BY <1>5 DEF NotFit, NothingTimed
  <1>6. QED
    BY <1>1, <1>2, <1>3, <1>4, <1>5 DEF ProcessMessage

LEMMA TimerStep ==
  ASSUME TypeOK, [Next]_vars
  PROVE  \/ NothingTimed /\ nextTrans' \in {nextTrans, nextTrans + 1}
         \/ /\ nextTrans' = nextTrans
            /\ \/ \E trans \in transactions : RemoveUntimed(trans.id)
               \/ \E t \in Nat : Expire(t)
               \/ \E trans \in transactions : Arm(trans.id, trans.phase + 1)
         \/ Arm(nextTrans, 1) /\ nextTrans' = nextTrans + 1
  <1>1. CASE Peers
    BY <1>1 DEF Peers, ClientRequest, PeerAnswer, StrayPackage, Receive, NothingTimed
  <1>2. CASE NetworkThread
    BY <1>2 DEF NetworkThread, SendPackage, DropPackage, LosePackage, TakeOut, NothingTimed
  <1>3. CASE WorkerMessage
    BY <1>3, MessageTimerStep DEF WorkerMessage
  <1>4. CASE WorkerTimer
    <2>1. ASSUME timers # <<>>
          PROVE  Head(timers).trans \in Nat
      <3>1. Head(timers) \in Timer
        BY <2>1 DEF TypeOK
      <3>2. QED
        BY <3>1 DEF Timer
    <2>2. ASSUME NEW trans \in transactions, Timeout(trans)
          PROVE  Expire(Head(timers).trans) /\ nextTrans' = nextTrans
      <3>1. trans.id = Head(timers).trans
        BY <2>2 DEF Timeout, FindTransaction
      <3>2. QED
        BY <2>2, <3>1 DEF Timeout, TakeTimer, Expire
    <2>3. ASSUME TimerOfEnded
          PROVE  Expire(Head(timers).trans) /\ nextTrans' = nextTrans
      BY <2>3 DEF TimerOfEnded, TakeTimer, FindTransaction, Expire, WithoutTransaction
    <2>4. timers # <<>>
      BY <1>4 DEF WorkerTimer, Timeout, TimerOfEnded, TakeTimer
    <2>5. QED
      BY <1>4, <2>1, <2>2, <2>3, <2>4 DEF WorkerTimer
  <1>5. CASE UNCHANGED vars
    BY <1>5 DEF vars, NothingTimed
  <1>6. QED
    BY <1>1, <1>2, <1>3, <1>4, <1>5 DEF Next

\* The timers as a set, which is all the invariants need of their order.
Armed(t, phase) == \E i \in DOMAIN timers : timers[i] = [trans |-> t, phase |-> phase]

LEMMA ExpireKeepsOthers ==
  ASSUME TypeOK, NEW t, Expire(t), NEW u, NEW phase, u # t, Armed(u, phase)
  PROVE  Armed(u, phase)'
  <1>1. PICK i \in DOMAIN timers : timers[i] = [trans |-> u, phase |-> phase]
    BY DEF Armed
  <1>2. i # 1
    BY <1>1 DEF Expire, TypeOK
  <1>3. i - 1 \in DOMAIN timers' /\ timers'[i - 1] = timers[i]
    <2>1. timers \in Seq(Timer) /\ timers # <<>>
      BY DEF Expire, TypeOK
    <2>2. Len(timers') = Len(timers) - 1 /\ i \in 2 .. Len(timers)
      BY <1>2, <2>1 DEF Expire
    <2>3. i - 1 \in 1 .. Len(timers') /\ timers'[i - 1] = timers[(i - 1) + 1]
      BY <2>1, <2>2 DEF Expire
    <2>4. timers' \in Seq(Timer)
      BY <2>1 DEF Expire
    <2>5. QED
      BY <2>2, <2>3, <2>4
  <1>4. QED
    BY <1>1, <1>3 DEF Armed

LEMMA ArmKeepsAll ==
  ASSUME TypeOK, NEW t, NEW k, Arm(t, k)
  PROVE  /\ Armed(t, k)'
         /\ \A u, phase : Armed(u, phase) => Armed(u, phase)'
  <1>1. DOMAIN timers = 1 .. Len(timers) /\ Len(timers) \in Nat
    BY DEF TypeOK
  <1>2. /\ DOMAIN timers' = 1 .. Len(timers) + 1
        /\ timers'[Len(timers) + 1] = [trans |-> t, phase |-> k]
        /\ \A i \in 1 .. Len(timers) : timers'[i] = timers[i]
    BY DEF TypeOK, Arm
  <1>3. QED
    BY <1>1, <1>2 DEF Armed

\* No transaction waits without a timer of the phase it waits in.
THEOREM WaitsAreTimed == Spec => []EveryWaitIsTimed
  <1>1. Init => EveryWaitIsTimed
    BY DEF Init, EveryWaitIsTimed
  <1>2. TypeOK /\ EveryWaitIsTimed /\ [Next]_vars => EveryWaitIsTimed'
    <2> SUFFICES ASSUME TypeOK, \A x \in transactions : Armed(x.id, x.phase),
                        [Next]_vars, NEW y \in transactions'
                 PROVE  Armed(y.id, y.phase)'
      BY DEF EveryWaitIsTimed, Armed
    <2>1. CASE NothingTimed
      BY <2>1 DEF NothingTimed, Armed
    <2>2. ASSUME NEW t, RemoveUntimed(t)
          PROVE  Armed(y.id, y.phase)'
      BY <2>2 DEF RemoveUntimed, WithoutTransaction, Armed
    <2>3. ASSUME NEW t, Expire(t)
          PROVE  Armed(y.id, y.phase)'
      <3>1. y \in transactions /\ y.id # t
        BY <2>3 DEF Expire, WithoutTransaction
      <3>2. QED
        BY <2>3, <3>1, ExpireKeepsOthers
    <2>4. ASSUME NEW t, NEW k, Arm(t, k)
          PROVE  Armed(y.id, y.phase)'
      BY <2>4, ArmKeepsAll DEF Arm, WithoutTransaction
    <2>5. QED
      BY <2>1, <2>2, <2>3, <2>4, TimerStep
  <1>3. QED
    BY TypeCorrect, <1>1, <1>2, PTL DEF Spec

LEMMA ExpireArmsNothing ==
  ASSUME TypeOK, NEW t, Expire(t), NEW u, NEW phase, Armed(u, phase)'
  PROVE  Armed(u, phase)
  <1>1. PICK i \in DOMAIN timers' : timers'[i] = [trans |-> u, phase |-> phase]
    BY DEF Armed
  <1>2. timers \in Seq(Timer) /\ timers # <<>> /\ timers' \in Seq(Timer)
    BY DEF Expire, TypeOK
  <1>3. Len(timers') = Len(timers) - 1 /\ i \in 1 .. Len(timers')
    BY <1>1, <1>2 DEF Expire
  <1>4. i + 1 \in DOMAIN timers /\ timers[i + 1] = timers'[i]
    BY <1>2, <1>3 DEF Expire
  <1>5. QED
    BY <1>1, <1>4 DEF Armed

LEMMA ArmArmsOne ==
  ASSUME TypeOK, NEW t, NEW k, Arm(t, k), NEW u, NEW phase, Armed(u, phase)'
  PROVE  Armed(u, phase) \/ (u = t /\ phase = k)
  <1>1. PICK i \in DOMAIN timers' : timers'[i] = [trans |-> u, phase |-> phase]
    BY DEF Armed
  <1>2. DOMAIN timers = 1 .. Len(timers) /\ Len(timers) \in Nat
    BY DEF TypeOK
  <1>3. /\ DOMAIN timers' = 1 .. Len(timers) + 1
        /\ timers'[Len(timers) + 1] = [trans |-> t, phase |-> k]
        /\ \A j \in 1 .. Len(timers) : timers'[j] = timers[j]
    BY DEF TypeOK, Arm
  <1>4. QED
    BY <1>1, <1>2, <1>3 DEF Armed

TimersFit ==
    \A t, k \in Nat : Armed(t, k) =>
        /\ t < nextTrans
        /\ \A x \in transactions : x.id = t => k <= x.phase

LEMMA TimersFitMeans == TypeOK /\ TimersFit => TimersMeetTheirTransaction
  <1> SUFFICES ASSUME TypeOK, TimersFit, NEW i \in DOMAIN timers
               PROVE  /\ timers[i].trans < nextTrans
                      /\ \A x \in transactions :
                            x.id = timers[i].trans => timers[i].phase <= x.phase
    BY DEF TimersMeetTheirTransaction
  <1>1. timers[i] \in Timer
    BY DEF TypeOK
  <1>2. /\ timers[i].trans \in Nat /\ timers[i].phase \in Nat
        /\ Armed(timers[i].trans, timers[i].phase)
    BY <1>1 DEF Timer, Armed
  <1>3. QED
    BY <1>2 DEF TimersFit

\* The ids of the registered transactions have been given out already.
IdsGiven == \A x \in transactions : x.id < nextTrans

\* The timer of a transaction that ended never meets another transaction.
THEOREM TimersMeetTheirs == Spec => []TimersMeetTheirTransaction
  <1>1. Init => TimersFit /\ IdsGiven
    BY DEF Init, TimersFit, IdsGiven, Armed
  <1>2. TypeOK /\ TimersFit /\ IdsGiven /\ [Next]_vars => (TimersFit /\ IdsGiven)'
    <2> SUFFICES ASSUME TypeOK, TimersFit, IdsGiven, [Next]_vars
                 PROVE  IdsGiven' /\ TimersFit'
      OBVIOUS
    <2>1. /\ \A x \in transactions : x.id \in Nat /\ x.phase \in Nat
          /\ nextTrans \in Nat
      BY DEF TypeOK, Transaction
    <2>2. CASE NothingTimed /\ nextTrans' \in {nextTrans, nextTrans + 1}
      <3>1. \A t, k : Armed(t, k)' => Armed(t, k)
        BY <2>2 DEF NothingTimed, Armed
      <3>2. transactions' = transactions /\ \A n \in Nat : n < nextTrans => n < nextTrans'
        BY <2>1, <2>2 DEF NothingTimed
      <3>3. QED
        BY <2>1, <3>1, <3>2 DEF IdsGiven, TimersFit
    <2>3. ASSUME NEW t, RemoveUntimed(t), nextTrans' = nextTrans
          PROVE  IdsGiven' /\ TimersFit'
      BY <2>3 DEF RemoveUntimed, WithoutTransaction, IdsGiven, TimersFit, Armed
    <2>4. ASSUME NEW t \in Nat, Expire(t), nextTrans' = nextTrans
          PROVE  IdsGiven' /\ TimersFit'
      <3>1. \A x \in transactions' : x \in transactions
        BY <2>4 DEF Expire, WithoutTransaction
      <3>2. \A u, k \in Nat : Armed(u, k)' => Armed(u, k)
        BY <2>4, ExpireArmsNothing
      <3>3. QED
        BY <2>4, <3>1, <3>2 DEF IdsGiven, TimersFit
    <2>5. ASSUME NEW trans \in transactions, Arm(trans.id, trans.phase + 1),
                 nextTrans' = nextTrans
          PROVE  IdsGiven' /\ TimersFit'
      <3>1. \A x \in transactions' :
               \/ x \in transactions /\ x.id # trans.id
               \/ x.id = trans.id /\ x.phase = trans.phase + 1
        BY <2>5 DEF Arm, WithoutTransaction
      <3>2. IdsGiven'
        BY <2>5, <3>1 DEF IdsGiven
      <3>3. \A u, k \in Nat : Armed(u, k)' =>
               Armed(u, k) \/ (u = trans.id /\ k = trans.phase + 1)
        BY <2>5, ArmArmsOne
      <3>4. ASSUME NEW u \in Nat, NEW k \in Nat, Armed(u, k)'
            PROVE  /\ u < nextTrans'
                   /\ \A x \in transactions' : x.id = u => k <= x.phase
        BY <2>1, <2>5, <3>1, <3>3, <3>4 DEF TimersFit, IdsGiven
      <3>5. QED
        BY <3>2, <3>4 DEF TimersFit
    <2>6. ASSUME Arm(nextTrans, 1), nextTrans' = nextTrans + 1
          PROVE  IdsGiven' /\ TimersFit'
      <3>1. \A x \in transactions' :
               x \in transactions \/ (x.id = nextTrans /\ x.phase = 1)
        BY <2>6 DEF Arm, WithoutTransaction
      <3>2. IdsGiven'
        BY <2>1, <2>6, <3>1 DEF IdsGiven
      <3>3. \A u, k \in Nat : Armed(u, k)' => Armed(u, k) \/ (u = nextTrans /\ k = 1)
        BY <2>6, ArmArmsOne
      <3>4. ASSUME NEW u \in Nat, NEW k \in Nat, Armed(u, k)'
            PROVE  /\ u < nextTrans'
                   /\ \A x \in transactions' : x.id = u => k <= x.phase
        BY <2>1, <2>6, <3>1, <3>3, <3>4 DEF TimersFit, IdsGiven
      <3>5. QED
        BY <3>2, <3>4 DEF TimersFit
    <2>7. QED
      BY <2>2, <2>3, <2>4, <2>5, <2>6, TimerStep
  <1>3. QED
    BY TypeCorrect, TimersFitMeans, <1>1, <1>2, PTL DEF Spec

-----------------------------------------------------------------------------
(* Packages and the IN queue *)

Queued(id) == \E i \in DOMAIN inQueue : inQueue[i].package = id

\* Ids are given out once, and no package is twice in the IN queue.
QueueOnce ==
    /\ \A p \in packages : p.id < nextPackage
    /\ \A p, q \in packages : p.id = q.id => p = q
    /\ \A i \in DOMAIN inQueue : inQueue[i].package < nextPackage
    /\ \A i, j \in DOMAIN inQueue : inQueue[i].package = inQueue[j].package => i = j

LEMMA TakeShortens ==
  ASSUME TypeOK, QueueOnce, NEW m, NEW p \in packages, Take(m, p)
  PROVE  /\ Queued(p.id)
         /\ \A id : Queued(id)' => Queued(id) /\ id # p.id
         /\ \A i \in DOMAIN inQueue' : inQueue'[i].package < nextPackage
         /\ \A i, j \in DOMAIN inQueue' :
               inQueue'[i].package = inQueue'[j].package => i = j
  <1>1. /\ inQueue \in Seq(InMessage) /\ inQueue # <<>>
        /\ inQueue' = Tail(inQueue) /\ p.id = Head(inQueue).package
    BY DEF Take, TypeOK
  <1>2. /\ Len(inQueue') = Len(inQueue) - 1 /\ inQueue' \in Seq(InMessage)
        /\ Len(inQueue) \in Nat
        /\ 1 \in DOMAIN inQueue /\ inQueue[1].package = p.id
    BY <1>1
  <1>3. \A i \in DOMAIN inQueue' : /\ i \in Nat /\ i >= 1
                                   /\ i + 1 \in DOMAIN inQueue
                                   /\ inQueue'[i] = inQueue[i + 1]
    BY <1>1, <1>2
  <1>4. \A i \in DOMAIN inQueue' : inQueue'[i].package # p.id
    <2>1. SUFFICES ASSUME NEW i \in DOMAIN inQueue', inQueue'[i].package = p.id
                   PROVE  FALSE
      OBVIOUS
    <2>2. i + 1 \in DOMAIN inQueue /\ inQueue[i + 1].package = inQueue[1].package
      BY <1>2, <1>3, <2>1
    <2>3. i + 1 = 1
      BY <1>2, <2>2 DEF QueueOnce
    <2>4. QED
      BY <1>3, <2>3
  <1>5. \A id : Queued(id)' => Queued(id) /\ id # p.id
    BY <1>3, <1>4 DEF Queued
  <1>6. \A i \in DOMAIN inQueue' : inQueue'[i].package < nextPackage
    BY <1>3 DEF QueueOnce
  <1>7. ASSUME NEW i \in DOMAIN inQueue', NEW j \in DOMAIN inQueue',
               inQueue'[i].package = inQueue'[j].package
        PROVE  i = j
    <2>1. i + 1 = j + 1
      BY <1>3, <1>7 DEF QueueOnce
    <2>2. QED
      BY <1>3, <2>1
  <1>8. QED
    BY <1>2, <1>5, <1>6, <1>7 DEF Queued

LEMMA ReceiveLengthens ==
  ASSUME TypeOK, QueueOnce, NEW c, NEW cmd, NEW self, NEW trigger,
         Receive(c, cmd, self, trigger)
  PROVE  /\ \A id : Queued(id)' => Queued(id) \/ id = nextPackage
         /\ QueueOnce'
  <1>1. /\ inQueue \in Seq(InMessage) /\ Len(inQueue) \in Nat /\ nextPackage \in Nat
        /\ DOMAIN inQueue = 1 .. Len(inQueue)
        /\ nextPackage' = nextPackage + 1
    BY DEF TypeOK, Receive
  <1>2. /\ DOMAIN inQueue' = 1 .. Len(inQueue) + 1
        /\ inQueue'[Len(inQueue) + 1].package = nextPackage
        /\ \A i \in DOMAIN inQueue : inQueue'[i] = inQueue[i]
    BY <1>1 DEF Receive
  <1>3. \A id : Queued(id)' => Queued(id) \/ id = nextPackage
    BY <1>1, <1>2 DEF Queued
  <1>4. /\ \A i \in DOMAIN inQueue : inQueue[i].package \in Nat
        /\ \A q \in packages : q.id \in Nat
    <2>1. \A i \in DOMAIN inQueue : inQueue[i] \in InMessage
      BY <1>1
    <2>2. QED
      BY <2>1 DEF TypeOK, InMessage, Package
  <1>5. /\ \A i \in DOMAIN inQueue' : inQueue'[i].package < nextPackage'
        /\ \A i, j \in DOMAIN inQueue' :
              inQueue'[i].package = inQueue'[j].package => i = j
    BY <1>1, <1>2, <1>4 DEF QueueOnce
  <1>6. /\ \A q \in packages' : q.id < nextPackage'
        /\ \A q, r \in packages' : q.id = r.id => q = r
    BY <1>1, <1>4 DEF QueueOnce, Receive
  <1>7. QED
    BY <1>3, <1>5, <1>6 DEF QueueOnce

\* What a handler run does to the package list.
Sent(done) ==
    \/ packages' = WithoutPackage(done) /\ nextPackage' = nextPackage
    \/ \E new : /\ new.id = nextPackage
                /\ packages' = WithoutPackage(done) \cup {new}
                /\ nextPackage' = nextPackage + 1

LEMMA SentKeepsIds ==
  ASSUME TypeOK, QueueOnce, NEW done, Sent(done)
  PROVE  /\ \A q \in packages' : q.id < nextPackage'
         /\ \A q, r \in packages' : q.id = r.id => q = r
         /\ \A q \in packages' : q \in packages \/ q.id = nextPackage
         /\ \A n \in Nat : n < nextPackage => n < nextPackage'
  <1>1. nextPackage \in Nat /\ \A q \in packages : q.id \in Nat
    BY DEF TypeOK, Package
  <1>2. CASE packages' = WithoutPackage(done) /\ nextPackage' = nextPackage
    BY <1>1, <1>2 DEF QueueOnce, WithoutPackage
  <1>3. ASSUME NEW new, new.id = nextPackage, nextPackage' = nextPackage + 1,
               packages' = WithoutPackage(done) \cup {new}
        PROVE  /\ \A q \in packages' : q.id < nextPackage'
               /\ \A q, r \in packages' : q.id = r.id => q = r
               /\ \A q \in packages' : q \in packages \/ q.id = nextPackage
               /\ \A n \in Nat : n < nextPackage => n < nextPackage'
    BY <1>1, <1>3 DEF QueueOnce, WithoutPackage
  <1>4. QED
    BY <1>2, <1>3 DEF Sent

LEMMA HandlersSend ==
  ASSUME TypeOK, NEW done
  PROVE  /\ SendNothing(done) => Sent(done) /\ UNCHANGED replies
         /\ \A conn, request : Reply(done, conn, request) => Sent(done)
         /\ \A to, t, phase : Ask(done, to, t, phase) => Sent(done) /\ UNCHANGED replies
  <1>1. SendNothing(done) => Sent(done) /\ UNCHANGED replies
    BY DEF SendNothing, Sent
  <1>2. ASSUME NEW to, NEW cmd, NEW trigger, Push(done, to, cmd, trigger)
        PROVE  Sent(done)
    <2> DEFINE new == [id |-> nextPackage, cmd |-> cmd, self |-> nextPackage,
                       trigger |-> trigger]
    <2>1. /\ packages' = WithoutPackage(done) \cup {new}
          /\ nextPackage' = nextPackage + 1
      BY <1>2 DEF Push
    <2>2. new.id = nextPackage
      OBVIOUS
    <2> HIDE DEF new
    <2>3. QED
      BY <2>1, <2>2 DEF Sent
  <1>3. QED
    BY <1>1, <1>2 DEF Reply, Ask

-----------------------------------------------------------------------------
(* Replies *)

\* The three lives of a request exclude one another: its package waits in the
\* IN queue, or one transaction carries it, or it may have been replied to.
RequestQueued(r) ==
    \A p \in packages : p.self = r /\ Queued(p.id) =>
        /\ r <= requests
        /\ replies[r] = 0
        /\ \A x \in transactions : x.firstPackage # r
        /\ \A q \in packages : q.self = r /\ Queued(q.id) => q = p
RequestOpen(r) ==
    \A x \in transactions : x.firstPackage = r =>
        /\ r <= requests
        /\ replies[r] = 0
        /\ \A y \in transactions : y.firstPackage = r => y.id = x.id
RequestOver(r) == replies[r] <= 1 /\ (r > requests => replies[r] = 0)

RepliesInv ==
    \A r \in Requests : RequestQueued(r) /\ RequestOpen(r) /\ RequestOver(r)

\* How the bookkeeping of one request r can change.  In all of them no package
\* of r comes into the IN queue, and nothing is counted as a request.
NoneQueued(r) ==
    /\ \A p \in packages' : p.self = r /\ Queued(p.id)' => p \in packages /\ Queued(p.id)
    /\ requests' = requests
\* r may be closed, if it was neither queued nor open elsewhere.
Answered(r) == replies'[r] \in {replies[r], replies[r] + 1}
Kept(r) == replies'[r] = replies[r]

LEMMA KeptKeeps ==
  ASSUME NEW r, RequestQueued(r), RequestOpen(r), RequestOver(r), NoneQueued(r),
         Kept(r), \A x \in transactions' : x.firstPackage = r =>
                     \E y \in transactions : y.id = x.id /\ y.firstPackage = r
  PROVE  RequestQueued(r)' /\ RequestOpen(r)' /\ RequestOver(r)'
  BY DEF RequestQueued, RequestOpen, RequestOver, NoneQueued, Kept

LEMMA AnsweredKeeps ==
  ASSUME NEW r \in Nat, requests \in Nat, replies[r] = 0, r <= requests,
         requests' = requests, Answered(r),
         \A p \in packages' : p.self = r => ~Queued(p.id)',
         \A x \in transactions' : x.firstPackage # r
  PROVE  RequestQueued(r)' /\ RequestOpen(r)' /\ RequestOver(r)'
  BY DEF RequestQueued, RequestOpen, RequestOver, Answered

\* A run of the worker that takes a package out of the IN queue and sends at most
\* one: no package comes into the queue, and the one taken is not in it again.
LEMMA HandlerRun ==
  ASSUME TypeOK, QueueOnce, NEW m, NEW p \in packages, Take(m, p), Sent(p.id)
  PROVE  /\ QueueOnce'
         /\ \A r : NoneQueued(r)
         /\ \A r : RequestQueued(r) /\ p.self = r =>
               \A q \in packages' : q.self = r => ~Queued(q.id)'
  <1>1. /\ Queued(p.id)
        /\ \A id : Queued(id)' => Queued(id) /\ id # p.id
        /\ \A i \in DOMAIN inQueue' : inQueue'[i].package < nextPackage
        /\ \A i, j \in DOMAIN inQueue' :
              inQueue'[i].package = inQueue'[j].package => i = j
    BY TakeShortens
  <1>2. /\ \A q \in packages' : q.id < nextPackage'
        /\ \A q, r \in packages' : q.id = r.id => q = r
        /\ \A q \in packages' : q \in packages \/ q.id = nextPackage
        /\ \A n \in Nat : n < nextPackage => n < nextPackage'
    BY SentKeepsIds
  <1>3. \A i \in DOMAIN inQueue' : inQueue'[i].package \in Nat
    <2>1. inQueue' \in Seq(InMessage)
      BY TakeTypeOK
    <2>2. \A i \in DOMAIN inQueue' : inQueue'[i] \in InMessage
      BY <2>1
    <2>3. QED
      BY <2>2 DEF InMessage
  <1>4. QueueOnce'
    BY <1>1, <1>2, <1>3 DEF QueueOnce
  <1>5. ~Queued(nextPackage) /\ nextPackage \in Nat
    BY DEF Queued, QueueOnce, TypeOK
  <1>6. \A q \in packages' : Queued(q.id)' => q \in packages /\ Queued(q.id)
    BY <1>1, <1>2, <1>5
  <1>7. ASSUME NEW r, RequestQueued(r), p.self = r, NEW q \in packages',
               q.self = r, Queued(q.id)'
        PROVE  FALSE
    <2>1. q \in packages /\ Queued(q.id) /\ q.id # p.id
      BY <1>1, <1>6, <1>7
    <2>2. QED
      BY <1>1, <1>7, <2>1 DEF RequestQueued
  <1>8. requests' = requests
    BY DEF Take
  <1>9. QED
    BY <1>4, <1>6, <1>7, <1>8 DEF NoneQueued

LEMMA ReplyCounts ==
  ASSUME TypeOK, NEW done, NEW conn, NEW request, Reply(done, conn, request),
         NEW r \in Requests
  PROVE  Answered(r) /\ (r # request => Kept(r))
  <1>1. CASE replies' = replies
    BY <1>1 DEF Answered, Kept
  <1>2. CASE replies' = IF request \in Requests
                        THEN [replies EXCEPT ![request] = @ + 1] ELSE replies
    BY <1>2 DEF Answered, Kept, TypeOK
  <1>3. QED
    BY <1>1, <1>2 DEF Reply, SendNothing

\* A transaction ends with a reply: by its answer, by an error or by its timer.
LEMMA EndKeepsReplies ==
  ASSUME TypeOK, RepliesInv, NEW trans \in transactions, NEW done,
         Reply(done, trans.firstConn, trans.firstPackage),
         transactions' = WithoutTransaction(trans.id), \A r : NoneQueued(r)
  PROVE  RepliesInv'
  <1> SUFFICES ASSUME NEW r \in Requests
               PROVE  RequestQueued(r)' /\ RequestOpen(r)' /\ RequestOver(r)'
    BY DEF RepliesInv, Requests
  <1>1. Answered(r) /\ (r # trans.firstPackage => Kept(r))
    BY ReplyCounts
  <1>2. CASE r # trans.firstPackage
    <2>1. \A x \in transactions' : x \in transactions
      BY DEF WithoutTransaction
    <2>2. QED
      BY <1>1, <1>2, <2>1, KeptKeeps DEF RepliesInv
  <1>3. CASE r = trans.firstPackage
    <2>1. /\ r <= requests /\ replies[r] = 0
          /\ \A y \in transactions : y.firstPackage = r => y.id = trans.id
      BY <1>3 DEF RepliesInv, RequestOpen
    <2>2. \A x \in transactions' : x.firstPackage # r
      BY <2>1 DEF WithoutTransaction
    <2>3. \A p \in packages' : p.self = r => ~Queued(p.id)'
      BY <1>3 DEF RepliesInv, RequestQueued, NoneQueued
    <2>4. r \in Nat /\ requests \in Nat /\ requests' = requests
      BY ConstantsAssumption DEF TypeOK, Requests, NoneQueued
    <2>5. QED
      BY <1>1, <2>1, <2>2, <2>3, <2>4, AnsweredKeeps
  <1>4. QED
    BY <1>2, <1>3

\* A handler run that replies to the package it took and leaves the transactions.
LEMMA AtOnceKeepsReplies ==
  ASSUME TypeOK, QueueOnce, RepliesInv, NEW m, NEW p \in packages, Take(m, p),
         Reply(p.id, m.conn, p.self), UNCHANGED transactions
  PROVE  QueueOnce' /\ RepliesInv'
  <1>1. Sent(p.id)
    BY HandlersSend
  <1>2. /\ QueueOnce'
        /\ \A r : NoneQueued(r)
        /\ \A r : RequestQueued(r) /\ p.self = r =>
              \A q \in packages' : q.self = r => ~Queued(q.id)'
    BY <1>1, HandlerRun
  <1>3. Queued(p.id)
    BY TakeShortens
  <1>4. ASSUME NEW r \in Requests
        PROVE  RequestQueued(r)' /\ RequestOpen(r)' /\ RequestOver(r)'
    <2>1. Answered(r) /\ (r # p.self => Kept(r))
      BY ReplyCounts
    <2>2. CASE r # p.self
      BY <1>2, <2>1, <2>2, KeptKeeps DEF RepliesInv
    <2>3. CASE r = p.self
      <3>1. /\ r <= requests /\ replies[r] = 0
            /\ \A x \in transactions' : x.firstPackage # r
            /\ \A q \in packages' : q.self = r => ~Queued(q.id)'
        BY <1>2, <1>3, <2>3 DEF RepliesInv, RequestQueued
      <3>2. r \in Nat /\ requests \in Nat /\ requests' = requests
        BY <1>2, ConstantsAssumption DEF TypeOK, Requests, NoneQueued
      <3>3. QED
        BY <2>1, <3>1, <3>2, AnsweredKeeps
    <2>4. QED
      BY <2>2, <2>3
  <1>5. QED
    BY <1>2, <1>4 DEF RepliesInv, Requests

LEMMA MessageKeepsReplies ==
  ASSUME TypeOK, QueueOnce, RepliesInv, NEW m, NEW p \in packages,
         ProcessMessage(m, p)
  PROVE  QueueOnce' /\ RepliesInv'
  <1>1. CASE OnePhase(m, p)
    BY <1>1, AtOnceKeepsReplies DEF OnePhase
  <1>2. CASE StartAndEnd(m, p)
    BY <1>2, AtOnceKeepsReplies DEF StartAndEnd
  <1>3. CASE UnknownCommand(m, p)
    BY <1>3, AtOnceKeepsReplies DEF UnknownCommand, Reply
  <1>4. ASSUME NEW trans \in transactions, NotFit(m, p, trans)
        PROVE  QueueOnce' /\ RepliesInv'
    BY <1>4, AtOnceKeepsReplies DEF NotFit, Reply
  <1>5. ASSUME NEW trans \in transactions, ActiveAndEnd(m, p, trans)
        PROVE  QueueOnce' /\ RepliesInv'
    <2>1. /\ Take(m, p) /\ Reply(p.id, trans.firstConn, trans.firstPackage)
          /\ transactions' = WithoutTransaction(trans.id)
      BY <1>5 DEF ActiveAndEnd
    <2>2. QueueOnce' /\ \A r : NoneQueued(r)
      BY <2>1, HandlersSend, HandlerRun
    <2>3. QED
      BY <2>1, <2>2, EndKeepsReplies
  <1>6. ASSUME NEW trans \in transactions, NEW to \in WaitTargets,
               ActiveAndWait(m, p, trans, to)
        PROVE  QueueOnce' /\ RepliesInv'
    <2> DEFINE new == [trans EXCEPT !.phase = @ + 1, !.waitFor = to]
    <2>1. /\ Take(m, p) /\ Ask(p.id, to, trans.id, trans.phase + 1)
          /\ transactions' = WithoutTransaction(trans.id) \cup {new}
      BY <1>6 DEF ActiveAndWait, AskAndWait
    <2>2. new.id = trans.id /\ new.firstPackage = trans.firstPackage
      BY DEF TypeOK, Transaction
    <2> HIDE DEF new
    <2>3. QueueOnce' /\ (\A r : NoneQueued(r)) /\ \A r : Kept(r)
      BY <2>1, HandlersSend, HandlerRun DEF Kept
    <2>4. \A x \in transactions' : \E y \in transactions :
             y.id = x.id /\ y.firstPackage = x.firstPackage
      BY <2>1, <2>2 DEF WithoutTransaction
    <2>5. QED
      BY <2>3, <2>4, KeptKeeps DEF RepliesInv, Requests
  <1>7. ASSUME NEW to \in WaitTargets, StartAndWait(m, p, to)
        PROVE  QueueOnce' /\ RepliesInv'
    <2> DEFINE old == [id |-> nextTrans, phase |-> 0, firstConn |-> m.conn,
                       firstPackage |-> p.self, waitFor |-> to]
               new == [old EXCEPT !.phase = @ + 1, !.waitFor = to]
    <2>1. /\ Take(m, p) /\ Ask(p.id, to, nextTrans, 1)
          /\ transactions' = WithoutTransaction(nextTrans) \cup {new}
      BY <1>7 DEF StartAndWait, AskAndWait
    <2>2. new.id = nextTrans /\ new.firstPackage = p.self
      OBVIOUS
    <2> HIDE DEF new
    <2>3. /\ QueueOnce'
          /\ \A r : NoneQueued(r)
          /\ \A r : Kept(r)
          /\ \A r : RequestQueued(r) /\ p.self = r =>
                \A q \in packages' : q.self = r => ~Queued(q.id)'
      BY <2>1, HandlersSend, HandlerRun DEF Kept
    <2>4. Queued(p.id)
      BY <2>1, TakeShortens
    <2>5. ASSUME NEW r \in Requests
          PROVE  RequestQueued(r)' /\ RequestOpen(r)' /\ RequestOver(r)'
      <3>1. CASE r # p.self
        <4>1. \A x \in transactions' : x.firstPackage = r => x \in transactions
          BY <2>1, <2>2, <3>1 DEF WithoutTransaction
        <4>2. QED
          BY <2>3, <4>1, KeptKeeps DEF RepliesInv
      <3>2. CASE r = p.self
        <4>1. /\ r <= requests /\ replies[r] = 0
              /\ \A x \in transactions : x.firstPackage # r
              /\ \A q \in packages' : q.self = r => ~Queued(q.id)'
          BY <2>3, <2>4, <3>2 DEF RepliesInv, RequestQueued
        <4>2. \A x \in transactions' : x.firstPackage = r => x = new
          BY <2>1, <4>1 DEF WithoutTransaction
        <4>3. requests' = requests /\ replies'[r] = 0
          BY <2>3, <4>1 DEF NoneQueued, Kept
        <4>4. r \in Nat /\ requests \in Nat
          BY ConstantsAssumption DEF TypeOK, Requests
        <4>5. RequestQueued(r)'
          BY <4>1 DEF RequestQueued
        <4>6. QED
          BY <4>1, <4>2, <4>3, <4>4, <4>5 DEF RequestOpen, RequestOver
      <3>3. QED
        BY <3>1, <3>2
    <2>6. QED
      BY <2>3, <2>5 DEF RepliesInv, Requests
  <1>8. QED
    BY <1>1, <1>2, <1>3, <1>4, <1>5, <1>6, <1>7 DEF ProcessMessage

LEMMA PeersKeepReplies ==
  ASSUME TypeOK, QueueOnce, RepliesInv, Peers
  PROVE  QueueOnce' /\ RepliesInv'
  <1>1. ASSUME NEW c, NEW cmd, NEW self, NEW trigger, Receive(c, cmd, self, trigger)
        PROVE  /\ QueueOnce'
               /\ UNCHANGED <<transactions, replies>>
               /\ \A q \in packages' : Queued(q.id)' =>
                     (q \in packages /\ Queued(q.id)) \/ q.self = self
               /\ \A q, r \in packages' :
                     /\ q \notin packages \/ ~Queued(q.id)
                     /\ r \notin packages \/ ~Queued(r.id)
                     /\ Queued(q.id)' /\ Queued(r.id)'
                     => q = r
    <2> DEFINE new == [id |-> nextPackage, cmd |-> cmd, self |-> self,
                       trigger |-> trigger]
    <2>1. packages' = packages \cup {new} /\ UNCHANGED <<transactions, replies>>
      BY <1>1 DEF Receive
    <2>2. new.id = nextPackage /\ new.self = self
      OBVIOUS
    <2> HIDE DEF new
    <2>3. QueueOnce' /\ \A id : Queued(id)' => Queued(id) \/ id = nextPackage
      BY <1>1, ReceiveLengthens
    <2>4. \A q \in packages : q.id # nextPackage
      BY DEF QueueOnce, TypeOK, Package
    <2>5. ASSUME NEW q \in packages', Queued(q.id)',
                 q \notin packages \/ ~Queued(q.id)
          PROVE  q = new
      <3>1. CASE q \notin packages
        BY <2>1, <3>1
      <3>2. CASE ~Queued(q.id)
        <4>1. q.id = nextPackage
          BY <2>3, <2>5, <3>2
        <4>2. QED
          BY <2>1, <2>4, <4>1
      <3>3. QED
        BY <2>5, <3>1, <3>2
    <2>6. \A q \in packages' : Queued(q.id)' =>
             (q \in packages /\ Queued(q.id)) \/ q.self = self
      BY <2>2, <2>5
    <2>7. ASSUME NEW q \in packages', NEW r \in packages',
                 q \notin packages \/ ~Queued(q.id),
                 r \notin packages \/ ~Queued(r.id),
                 Queued(q.id)', Queued(r.id)'
          PROVE  q = r
      <3>1. q = new
        BY <2>5, <2>7
      <3>2. r = new
        BY <2>5, <2>7
      <3>3. QED
        BY <3>1, <3>2
    <2>8. QueueOnce' /\ UNCHANGED <<transactions, replies>>
      BY <2>1, <2>3
    <2>9. \A q, r \in packages' :
             /\ q \notin packages \/ ~Queued(q.id)
             /\ r \notin packages \/ ~Queued(r.id)
             /\ Queued(q.id)' /\ Queued(r.id)'
             => q = r
      BY <2>7
    <2>10. QED
      BY <2>6, <2>8, <2>9
  <1>2. ASSUME NEW c, NEW cmd, NEW trigger, Receive(c, cmd, 0, trigger),
               requests' = requests
        PROVE  QueueOnce' /\ RepliesInv'
    <2>1. ASSUME NEW r \in Requests
          PROVE  NoneQueued(r) /\ Kept(r)
      BY <1>1, <1>2, r # 0 DEF NoneQueued, Kept, Requests
    <2>2. QED
      BY <1>1, <1>2, <2>1, KeptKeeps DEF RepliesInv, Requests
  <1>3. ASSUME NEW c \in Conns, NEW cmd, ClientRequest(c, cmd)
        PROVE  QueueOnce' /\ RepliesInv'
    <2>1. /\ Receive(c, cmd, requests + 1, 0)
          /\ requests' = requests + 1 /\ requests \in Nat
      BY <1>3, ConstantsAssumption DEF ClientRequest, TypeOK
    <2>2. /\ QueueOnce'
          /\ UNCHANGED <<transactions, replies>>
          /\ \A q \in packages' : Queued(q.id)' =>
                (q \in packages /\ Queued(q.id)) \/ q.self = requests + 1
          /\ \A q, r \in packages' :
                /\ q \notin packages \/ ~Queued(q.id)
                /\ r \notin packages \/ ~Queued(r.id)
                /\ Queued(q.id)' /\ Queued(r.id)'
                => q = r
      BY <1>1, <2>1
    <2>3. ASSUME NEW r \in Requests
          PROVE  RequestQueued(r)' /\ RequestOpen(r)' /\ RequestOver(r)'
      <3>1. r \in Nat /\ RequestQueued(r) /\ RequestOpen(r) /\ RequestOver(r)
        BY DEF RepliesInv, Requests
      <3>2. RequestOpen(r)' /\ RequestOver(r)'
        BY <2>1, <2>2, <3>1 DEF RequestOpen, RequestOver
      <3>3. CASE r # requests + 1
        <4>1. \A q \in packages' : q.self = r /\ Queued(q.id)' =>
                 q \in packages /\ Queued(q.id)
          BY <2>2, <3>3
        <4>2. requests' = requests + 1 /\ requests \in Nat /\ r \in Nat
              /\ replies' = replies /\ transactions' = transactions
          BY <2>1, <2>2, <3>1
        <4>3. RequestQueued(r)'
          BY <3>1, <4>1, <4>2 DEF RequestQueued
        <4>4. QED
          BY <3>2, <4>3
      <3>4. CASE r = requests + 1
        <4>1. \A q \in packages : q.self = r => ~Queued(q.id)
          BY <2>1, <3>1, <3>4 DEF RequestQueued
        <4>2. /\ replies'[r] = 0 /\ r <= requests'
              /\ \A x \in transactions' : x.firstPackage # r
          BY <2>1, <2>2, <3>1, <3>4 DEF RequestOpen, RequestOver
        <4>3. \A q, q2 \in packages' :
                 /\ q.self = r /\ Queued(q.id)' /\ q2.self = r /\ Queued(q2.id)'
                 => q2 = q
          BY <2>2, <4>1
        <4>4. RequestQueued(r)'
          BY <4>2, <4>3 DEF RequestQueued
        <4>5. QED
          BY <3>2, <4>4
      <3>5. QED
        BY <3>2, <3>3, <3>4
    <2>4. QED
      BY <2>2, <2>3 DEF RepliesInv, Requests
  <1>4. QED
    BY <1>2, <1>3 DEF Peers, PeerAnswer, StrayPackage

LEMMA OthersKeepReplies ==
  ASSUME TypeOK, QueueOnce, RepliesInv,
         UNCHANGED <<inQueue, requests>>
  PROVE  /\ /\ UNCHANGED <<transactions, replies, nextPackage>>
            /\ packages' \subseteq packages
            => QueueOnce' /\ RepliesInv'
         /\ Sent(0) => QueueOnce' /\ \A r : NoneQueued(r)
  <1>1. \A id : Queued(id)' <=> Queued(id)
    BY DEF Queued
  <1>2. ASSUME UNCHANGED <<transactions, replies, nextPackage>>,
               packages' \subseteq packages
        PROVE  QueueOnce' /\ RepliesInv'
    <2>1. QueueOnce'
      BY <1>2 DEF QueueOnce
    <2>2. \A r : NoneQueued(r) /\ Kept(r)
      BY <1>1, <1>2 DEF NoneQueued, Kept
    <2>3. QED
      BY <1>2, <2>1, <2>2, KeptKeeps DEF RepliesInv, Requests
  <1>3. ASSUME Sent(0)
        PROVE  QueueOnce' /\ \A r : NoneQueued(r)
    <2>1. /\ \A q \in packages' : q.id < nextPackage'
          /\ \A q, r \in packages' : q.id = r.id => q = r
          /\ \A q \in packages' : q \in packages \/ q.id = nextPackage
          /\ \A n \in Nat : n < nextPackage => n < nextPackage'
      BY <1>3, SentKeepsIds
    <2>2. \A i \in DOMAIN inQueue : inQueue[i] \in InMessage
      BY DEF TypeOK
    <2>3. QueueOnce'
      BY <2>1, <2>2 DEF QueueOnce, InMessage
    <2>4. ~Queued(nextPackage) /\ nextPackage \in Nat
      BY DEF Queued, QueueOnce, TypeOK
    <2>5. QED
      BY <1>1, <2>1, <2>3, <2>4 DEF NoneQueued
  <1>4. QED
    BY <1>2, <1>3

\* Ids are given out once, and each request has one owner, always.
LEMMA RepliesAlways == Spec => [](QueueOnce /\ RepliesInv)
  <1>1. Init => QueueOnce /\ RepliesInv
    BY DEF Init, QueueOnce, RepliesInv, RequestQueued, RequestOpen, RequestOver
  <1>2. TypeOK /\ QueueOnce /\ RepliesInv /\ [Next]_vars => (QueueOnce /\ RepliesInv)'
    <2> SUFFICES ASSUME TypeOK, QueueOnce, RepliesInv, [Next]_vars
                 PROVE  QueueOnce' /\ RepliesInv'
      OBVIOUS
    <2>1. CASE Peers
      BY <2>1, PeersKeepReplies
    <2>2. CASE NetworkThread
      <3>1. /\ UNCHANGED <<inQueue, requests, transactions, replies, nextPackage>>
            /\ packages' \subseteq packages
        BY <2>2 DEF NetworkThread, SendPackage, DropPackage, LosePackage, TakeOut,
                    WithoutPackage
      <3>2. QED
        BY <3>1, OthersKeepReplies
    <2>3. CASE WorkerMessage
      BY <2>3, MessageKeepsReplies DEF WorkerMessage
    <2>4. ASSUME NEW trans \in transactions, Timeout(trans)
          PROVE  QueueOnce' /\ RepliesInv'
      <3>1. /\ Reply(0, trans.firstConn, trans.firstPackage)
            /\ transactions' = WithoutTransaction(trans.id)
            /\ UNCHANGED <<inQueue, requests>>
        BY <2>4 DEF Timeout, TakeTimer
      <3>2. QueueOnce' /\ \A r : NoneQueued(r)
        BY <3>1, HandlersSend, OthersKeepReplies
      <3>3. QED
        BY <3>1, <3>2, EndKeepsReplies
    <2>5. CASE TimerOfEnded
      <3>1. /\ UNCHANGED <<inQueue, requests, transactions, replies, nextPackage>>
            /\ packages' \subseteq packages
        BY <2>5 DEF TimerOfEnded, TakeTimer, SendNothing, WithoutPackage
      <3>2. QED
        BY <3>1, OthersKeepReplies
    <2>6. CASE UNCHANGED vars
      BY <2>6, OthersKeepReplies DEF vars
    <2>7. QED
      BY <2>1, <2>2, <2>3, <2>4, <2>5, <2>6 DEF Next, WorkerTimer
  <1>3. QED
    BY TypeCorrect, <1>1, <1>2, PTL DEF Spec

\* A client's request is replied to at most once, whatever answers, timeouts,
\* errors and strays the engine meets and in whatever order.
THEOREM RepliedOnce == Spec => []AtMostOneReply
  <1>1. RepliesInv => AtMostOneReply
    BY DEF RepliesInv, RequestOver, AtMostOneReply
  <1>2. QED
    BY RepliesAlways, <1>1, PTL

-----------------------------------------------------------------------------
(* Owners of packages *)

Names(q, id) == \E i \in DOMAIN q : q[i].package = id
NamesOnce(q) == \A i, j \in DOMAIN q : q[i].package = q[j].package => i = j

LEMMA TailNames ==
  ASSUME NEW S, NEW q \in Seq(S), q # <<>>, NamesOnce(q)
  PROVE  /\ NamesOnce(Tail(q))
         /\ Names(q, Head(q).package)
         /\ \A id : Names(Tail(q), id) <=> Names(q, id) /\ id # Head(q).package
  <1>1. /\ Len(q) \in Nat \ {0} /\ DOMAIN q = 1 .. Len(q) /\ Head(q) = q[1]
        /\ DOMAIN Tail(q) = 1 .. Len(q) - 1
        /\ \A i \in 1 .. Len(q) - 1 : Tail(q)[i] = q[i + 1]
    OBVIOUS
  <1>2. \A i \in DOMAIN Tail(q) : i + 1 \in DOMAIN q /\ i + 1 # 1 /\ Tail(q)[i] = q[i + 1]
    BY <1>1
  <1>3. NamesOnce(Tail(q))
    <2> SUFFICES ASSUME NEW i \in DOMAIN Tail(q), NEW j \in DOMAIN Tail(q),
                        Tail(q)[i].package = Tail(q)[j].package
                 PROVE  i = j
      BY DEF NamesOnce
    <2>1. i + 1 = j + 1
      BY <1>2 DEF NamesOnce
    <2> QED
      BY <1>1, <2>1
  <1>4. 1 \in DOMAIN q
    BY <1>1
  <1>5. ASSUME NEW id, Names(Tail(q), id)
        PROVE  Names(q, id) /\ id # Head(q).package
    <2>1. PICK i \in DOMAIN Tail(q) : Tail(q)[i].package = id
      BY <1>5 DEF Names
    <2>2. i + 1 \in DOMAIN q /\ i + 1 # 1 /\ q[i + 1].package = id
      BY <1>2, <2>1
    <2> QED
      BY <1>1, <1>4, <2>2 DEF Names, NamesOnce
  <1>6. ASSUME NEW id, Names(q, id), id # Head(q).package
        PROVE  Names(Tail(q), id)
    <2>1. PICK i \in DOMAIN q : q[i].package = id
      BY <1>6 DEF Names
    <2>2. i \in 1 .. Len(q) /\ i # 1
      BY <1>1, <1>6, <2>1
    <2>3. i - 1 \in 1 .. Len(q) - 1 /\ (i - 1) + 1 = i
      BY <1>1, <2>2
    <2>4. Tail(q)[i - 1].package = id /\ i - 1 \in DOMAIN Tail(q)
      BY <1>1, <2>1, <2>3
    <2> QED
      BY <2>4 DEF Names
  <1>7. Names(q, Head(q).package)
    BY <1>1, <1>4 DEF Names
  <1> QED
    BY <1>3, <1>5, <1>6, <1>7

LEMMA AppendNames ==
  ASSUME NEW S, NEW q \in Seq(S), NEW m
  PROVE  /\ NamesOnce(q) /\ ~Names(q, m.package) => NamesOnce(Append(q, m))
         /\ \A id : Names(Append(q, m), id) <=> Names(q, id) \/ id = m.package
  <1>1. /\ Len(q) \in Nat /\ DOMAIN q = 1 .. Len(q)
        /\ DOMAIN Append(q, m) = 1 .. Len(q) + 1
        /\ Append(q, m)[Len(q) + 1] = m
        /\ \A i \in DOMAIN q : Append(q, m)[i] = q[i]
    OBVIOUS
  <1>2. \A i \in DOMAIN Append(q, m) : i \in DOMAIN q \/ i = Len(q) + 1
    BY <1>1
  <1>3. Len(q) + 1 \in DOMAIN Append(q, m) /\ \A i \in DOMAIN q : i \in DOMAIN Append(q, m)
    BY <1>1
  <1> QED
    BY <1>1, <1>2, <1>3 DEF Names, NamesOnce

\* Where the packages are, by id: the two queues and what was lost hold each once.
Owners ==
    /\ \A p \in packages : p.id \in 1 .. nextPackage - 1
    /\ \A id : Names(inQueue, id) \/ Names(outQueue, id) => \E p \in packages : p.id = id
    /\ NamesOnce(inQueue) /\ NamesOnce(outQueue)
    /\ lost \subseteq 1 .. nextPackage - 1
    /\ \A p \in packages :
          \/ Names(inQueue, p.id) /\ ~Names(outQueue, p.id) /\ p.id \notin lost
          \/ ~Names(inQueue, p.id) /\ Names(outQueue, p.id) /\ p.id \notin lost
          \/ ~Names(inQueue, p.id) /\ ~Names(outQueue, p.id) /\ p.id \in lost

LEMMA OwnersMean == Owners => OwnedOnce
  BY DEF Owners, OwnedOnce, Names, NamesOnce, InQueueOf, OutQueueOf

\* What a handler sends, with the message that names it.
Handed(done) ==
    \/ /\ packages' = WithoutPackage(done)
       /\ UNCHANGED <<outQueue, nextPackage>>
    \/ \E new, m :
          /\ new.id = nextPackage /\ m.package = nextPackage
          /\ packages' = WithoutPackage(done) \cup {new}
          /\ outQueue' = Append(outQueue, m)
          /\ nextPackage' = nextPackage + 1

LEMMA HandlersHand ==
  ASSUME NEW done
  PROVE  /\ SendNothing(done) => Handed(done)
         /\ \A conn, request : Reply(done, conn, request) => Handed(done)
         /\ \A to, t, phase : Ask(done, to, t, phase) => Handed(done)
  <1>1. SendNothing(done) => Handed(done)
    BY DEF SendNothing, Handed
  <1>2. ASSUME NEW to, NEW cmd, NEW trigger, Push(done, to, cmd, trigger)
        PROVE  Handed(done)
    <2> DEFINE new == [id |-> nextPackage, cmd |-> cmd, self |-> nextPackage,
                       trigger |-> trigger]
               m == [to |-> to, package |-> nextPackage]
    <2>1. /\ packages' = WithoutPackage(done) \cup {new}
          /\ outQueue' = Append(outQueue, m)
          /\ nextPackage' = nextPackage + 1
      BY <1>2 DEF Push
    <2>2. new.id = nextPackage /\ m.package = nextPackage
      OBVIOUS
    <2> HIDE DEF new, m
    <2> QED
      BY <2>1, <2>2 DEF Handed
  <1> QED
    BY <1>1, <1>2 DEF Reply, Ask

\* A run of the worker on a message (done is the package it took) or on a timer
\* (done is 0, no package).
LEMMA HandedKeepsOwners ==
  ASSUME TypeOK, Owners, NEW done, Handed(done), lost' = lost,
         NamesOnce(inQueue'), ~Names(outQueue, done), done \notin lost,
         \A id : Names(inQueue', id) <=> Names(inQueue, id) /\ id # done
  PROVE  Owners'
  <1>1. /\ nextPackage \in Nat \ {0} /\ outQueue \in Seq(OutMessage)
        /\ \A p \in packages : p.id \in Nat
    BY DEF TypeOK, Package
  <1>2. ~Names(inQueue, nextPackage) /\ ~Names(outQueue, nextPackage) /\ nextPackage \notin lost
    BY <1>1 DEF Owners, TypeOK
  <1>3. CASE /\ packages' = WithoutPackage(done)
             /\ outQueue' = outQueue /\ nextPackage' = nextPackage
    BY <1>3 DEF Owners, WithoutPackage
  <1>4. ASSUME NEW new, NEW m, new.id = nextPackage, m.package = nextPackage,
               packages' = WithoutPackage(done) \cup {new},
               outQueue' = Append(outQueue, m), nextPackage' = nextPackage + 1
        PROVE  Owners'
    <2>1. /\ NamesOnce(outQueue')
          /\ \A id : Names(outQueue', id) <=> Names(outQueue, id) \/ id = nextPackage
      <3>1. /\ NamesOnce(Append(outQueue, m))
            /\ \A id : Names(Append(outQueue, m), id) <=> Names(outQueue, id) \/ id = nextPackage
        BY <1>1, <1>2, <1>4, AppendNames DEF Owners
      <3> QED
        BY <1>4, <3>1
    <2>2. \A p \in packages' : p = new \/ (p \in packages /\ p.id # done /\ p.id # nextPackage)
      BY <1>1, <1>4 DEF Owners, WithoutPackage
    <2>3. \A p \in packages' : p.id \in 1 .. nextPackage' - 1
      BY <1>1, <1>4, <2>2 DEF Owners
    <2>4. lost' \subseteq 1 .. nextPackage' - 1
      BY <1>1, <1>4 DEF Owners, TypeOK
    <2>5. \A p \in packages' :
          \/ Names(inQueue', p.id) /\ ~Names(outQueue', p.id) /\ p.id \notin lost'
          \/ ~Names(inQueue', p.id) /\ Names(outQueue', p.id) /\ p.id \notin lost'
          \/ ~Names(inQueue', p.id) /\ ~Names(outQueue', p.id) /\ p.id \in lost'
      BY <1>2, <1>4, <2>1, <2>2 DEF Owners
    <2>6. ASSUME NEW id, Names(inQueue', id) \/ Names(outQueue', id)
          PROVE  \E p \in packages' : p.id = id
      <3>1. CASE id = nextPackage
        BY <1>4, <3>1
      <3>2. CASE id # nextPackage
        <4>1. id # done /\ (Names(inQueue, id) \/ Names(outQueue, id))
          BY <2>1, <2>6, <3>2
        <4> QED
          BY <1>4, <4>1 DEF Owners, WithoutPackage
      <3> QED
        BY <3>1, <3>2
    <2> QED
      BY <2>1, <2>3, <2>4, <2>5, <2>6 DEF Owners
  <1> QED
    BY <1>3, <1>4 DEF Handed

LEMMA TakeKeepsOwners ==
  ASSUME TypeOK, Owners, NEW m, NEW p \in packages, Take(m, p), Handed(p.id)
  PROVE  Owners'
  <1>1. /\ inQueue \in Seq(InMessage) /\ inQueue # <<>>
        /\ inQueue' = Tail(inQueue) /\ Head(inQueue).package = p.id /\ lost' = lost
    BY DEF TypeOK, Take
  <1>2. /\ NamesOnce(Tail(inQueue))
        /\ Names(inQueue, p.id)
        /\ \A id : Names(Tail(inQueue), id) <=> Names(inQueue, id) /\ id # p.id
    BY <1>1, TailNames DEF Owners
  <1>3. ~Names(outQueue, p.id) /\ p.id \notin lost
    BY <1>2 DEF Owners
  <1>4. /\ NamesOnce(inQueue')
        /\ \A id : Names(inQueue', id) <=> Names(inQueue, id) /\ id # p.id
    BY <1>1, <1>2
  <1> QED
    BY <1>1, <1>3, <1>4, HandedKeepsOwners

LEMMA TimerKeepsOwners ==
  ASSUME TypeOK, Owners, Handed(0), UNCHANGED <<inQueue, lost>>
  PROVE  Owners'
  <1>1. ~Names(inQueue, 0) /\ ~Names(outQueue, 0) /\ 0 \notin lost
    BY DEF Owners
  <1>2. /\ NamesOnce(inQueue')
        /\ \A id : Names(inQueue', id) <=> Names(inQueue, id) /\ id # 0
    BY <1>1 DEF Owners
  <1> QED
    BY <1>1, <1>2, HandedKeepsOwners

LEMMA ReceiveKeepsOwners ==
  ASSUME TypeOK, Owners, NEW c, NEW cmd, NEW self, NEW trigger,
         Receive(c, cmd, self, trigger)
  PROVE  Owners'
  <1> DEFINE new == [id |-> nextPackage, cmd |-> cmd, self |-> self, trigger |-> trigger]
             m == [conn |-> c, service |-> ServiceOf[c], package |-> nextPackage]
  <1>1. /\ packages' = packages \cup {new} /\ inQueue' = Append(inQueue, m)
        /\ nextPackage' = nextPackage + 1 /\ outQueue' = outQueue /\ lost' = lost
    BY DEF Receive
  <1>2. new.id = nextPackage /\ m.package = nextPackage
    OBVIOUS
  <1> HIDE DEF new, m
  <1>3. /\ nextPackage \in Nat \ {0} /\ inQueue \in Seq(InMessage)
        /\ ~Names(inQueue, nextPackage) /\ ~Names(outQueue, nextPackage)
        /\ nextPackage \notin lost
    BY DEF TypeOK, Owners
  <1>4. /\ NamesOnce(Append(inQueue, m))
        /\ \A id : Names(Append(inQueue, m), id) <=> Names(inQueue, id) \/ id = nextPackage
    BY <1>2, <1>3, AppendNames DEF Owners
  <1>5. /\ NamesOnce(inQueue')
        /\ \A id : Names(inQueue', id) <=> Names(inQueue, id) \/ id = nextPackage
    BY <1>1, <1>4
  <1>6. /\ \A p \in packages' : p.id \in 1 .. nextPackage' - 1
        /\ lost' \subseteq 1 .. nextPackage' - 1
    BY <1>1, <1>2, <1>3 DEF Owners
  <1>7. \A p \in packages : p.id # nextPackage
    BY <1>3 DEF Owners
  <1>8. \A p \in packages' :
          \/ Names(inQueue', p.id) /\ ~Names(outQueue', p.id) /\ p.id \notin lost'
          \/ ~Names(inQueue', p.id) /\ Names(outQueue', p.id) /\ p.id \notin lost'
          \/ ~Names(inQueue', p.id) /\ ~Names(outQueue', p.id) /\ p.id \in lost'
    BY <1>1, <1>2, <1>3, <1>5, <1>7 DEF Owners
  <1>9. \A id : Names(inQueue', id) \/ Names(outQueue', id) => \E p \in packages' : p.id = id
    BY <1>1, <1>2, <1>5 DEF Owners
  <1> QED
    BY <1>1, <1>5, <1>6, <1>8, <1>9 DEF Owners

LEMMA NetworkThreadKeepsOwners ==
  ASSUME TypeOK, Owners, NetworkThread
  PROVE  Owners'
  <1> DEFINE id == Head(outQueue).package
  <1>1. TakeOut
    BY DEF NetworkThread, SendPackage, DropPackage, LosePackage
  <1>2. /\ NamesOnce(Tail(outQueue))
        /\ Names(outQueue, id)
        /\ \A k : Names(Tail(outQueue), k) <=> Names(outQueue, k) /\ k # id
    BY <1>1, TailNames DEF TakeOut, TypeOK, Owners
  <1>3. /\ outQueue' = Tail(outQueue) /\ inQueue' = inQueue /\ nextPackage' = nextPackage
    BY <1>1 DEF TakeOut
  <1>4. /\ NamesOnce(outQueue')
        /\ \A k : Names(outQueue', k) <=> Names(outQueue, k) /\ k # id
    BY <1>2, <1>3
  <1>5. id \in 1 .. nextPackage - 1 /\ ~Names(inQueue, id) /\ id \notin lost
    BY <1>2 DEF Owners
  <1>6. \/ packages' = WithoutPackage(id) /\ lost' = lost
        \/ packages' = packages /\ lost' = lost \cup {id}
    BY DEF NetworkThread, SendPackage, DropPackage, LosePackage
  <1> HIDE DEF id
  <1>7. CASE packages' = WithoutPackage(id) /\ lost' = lost
    BY <1>3, <1>4, <1>5, <1>7 DEF Owners, WithoutPackage
  <1>8. CASE packages' = packages /\ lost' = lost \cup {id}
    BY <1>3, <1>4, <1>5, <1>8 DEF Owners
  <1> QED
    BY <1>6, <1>7, <1>8

LEMMA NextKeepsOwners ==
  ASSUME TypeOK, Owners, [Next]_vars
  PROVE  Owners'
  <1>1. CASE Peers
    BY <1>1, ReceiveKeepsOwners DEF Peers, ClientRequest, PeerAnswer, StrayPackage
  <1>2. CASE NetworkThread
    BY <1>2, NetworkThreadKeepsOwners
  <1>3. CASE WorkerMessage
    <2>1. PICK p \in packages : ProcessMessage(Head(inQueue), p)
      BY <1>3 DEF WorkerMessage
    <2>2. Take(Head(inQueue), p) /\ Handed(p.id)
      BY <2>1, HandlersHand
      DEF ProcessMessage, OnePhase, UnknownCommand, StartAndEnd, StartAndWait,
          ActiveAndEnd, ActiveAndWait, NotFit, AskAndWait
    <2> QED
      BY <2>2, TakeKeepsOwners
  <1>4. CASE WorkerTimer
    BY <1>4, HandlersHand, TimerKeepsOwners DEF WorkerTimer, Timeout, TimerOfEnded, TakeTimer
  <1>5. CASE UNCHANGED vars
    BY <1>5 DEF vars, Owners, Names, NamesOnce
  <1> QED
    BY <1>1, <1>2, <1>3, <1>4, <1>5 DEF Next

LEMMA OwnersAlways == Spec => []Owners
  <1>1. Init => Owners
    BY DEF Init, Owners, Names, NamesOnce
  <1>2. TypeOK /\ Owners /\ [Next]_vars => Owners'
    BY NextKeepsOwners
  <1> QED
    BY TypeCorrect, <1>1, <1>2, PTL DEF Spec

\* PackageManager and ActorMessageQueue: every package belongs to one message of one
\* queue, or it was lost, and neither thread removes what the other still uses.
THEOREM PackagesOwnedOnce == Spec => []OwnedOnce
  BY OwnersAlways, OwnersMean, PTL

-----------------------------------------------------------------------------
(* Phases *)

\* What BoundToCurrentPhase needs to be inductive: a transaction asks once in each
\* of its phases, and nothing is left of the transaction an id will be given to.
PhaseInv ==
    /\ IdsGiven
    /\ BoundToCurrentPhase
    /\ \A b \in bound : b.trans < nextTrans
    /\ \A a \in asked :
          /\ a.trans < nextTrans
          /\ \A x \in transactions : x.id = a.trans => a.phase <= x.phase
    /\ \A a, c \in asked : a.trans = c.trans /\ a.phase = c.phase => a.package = c.package

LEMMA AskedOrNot ==
  ASSUME NEW done, NEW trans \in Transaction, NEW to, AskAndWait(done, trans, to), TypeOK
  PROVE  \E n \in Nat :
            LET ask == [package |-> n, trans |-> trans.id, phase |-> trans.phase + 1] IN
            /\ asked \subseteq asked'
            /\ \A a \in asked' : a \in asked \/ a = ask
            /\ \A b \in Bind(trans.id) :
                  b = [package |-> n, trans |-> trans.id] /\ ask \in asked'
  <1>1. nextPackage \in Nat
    BY DEF TypeOK
  <1>2. CASE SendNothing(done)
    BY <1>1, <1>2 DEF SendNothing, Bind
  <1>3. CASE Push(done, to, "one", 0) /\
             asked' = asked \cup {[package |-> nextPackage, trans |-> trans.id,
                                   phase |-> trans.phase + 1]}
    BY <1>1, <1>3 DEF Bind
  <1> QED
    BY <1>2, <1>3 DEF AskAndWait, Ask

\* A transaction t goes on to its phase k; its earlier binding is none of rest.
LEMMA AdvanceKeepsPhases ==
  ASSUME TypeOK, PhaseInv, NEW t \in Nat, NEW k \in Nat, NEW n \in Nat, NEW rest, NEW new,
         rest \subseteq bound, \A b \in rest : b.trans # t,
         \A a \in asked : a.trans = t => a.phase < k,
         transactions' = WithoutTransaction(t) \cup {new}, new.id = t, new.phase = k,
         asked \subseteq asked',
         \A a \in asked' : a \in asked \/ a = [package |-> n, trans |-> t, phase |-> k],
         \A b \in bound' : \/ b \in rest
                           \/ /\ b = [package |-> n, trans |-> t]
                              /\ [package |-> n, trans |-> t, phase |-> k] \in asked',
         nextTrans' \in Nat, nextTrans <= nextTrans', t < nextTrans'
  PROVE  PhaseInv'
  <1>1. /\ nextTrans \in Nat
        /\ \A x \in transactions : x.id \in Nat /\ x.phase \in Nat
        /\ \A a \in asked : a.trans \in Nat /\ a.phase \in Nat
        /\ \A b \in bound : b.trans \in Nat
    BY DEF TypeOK, Transaction
  <1>2. \A x \in transactions' : x = new \/ (x \in transactions /\ x.id # t)
    BY DEF WithoutTransaction
  <1>3. IdsGiven'
    BY <1>1, <1>2 DEF PhaseInv, IdsGiven
  <1>4. BoundToCurrentPhase'
    <2> SUFFICES ASSUME NEW b \in bound', NEW x \in transactions', b.trans = x.id
                 PROVE  [package |-> b.package, trans |-> x.id, phase |-> x.phase] \in asked'
      BY DEF BoundToCurrentPhase
    <2>1. CASE b \in rest
      BY <1>2, <2>1 DEF PhaseInv, BoundToCurrentPhase
    <2>2. CASE b = [package |-> n, trans |-> t] /\
               [package |-> n, trans |-> t, phase |-> k] \in asked'
      BY <1>2, <2>2
    <2> QED
      BY <2>1, <2>2
  <1>5. \A b \in bound' : b.trans < nextTrans'
    BY <1>1 DEF PhaseInv
  <1>6. ASSUME NEW a \in asked'
        PROVE  /\ a.trans < nextTrans'
               /\ \A x \in transactions' : x.id = a.trans => a.phase <= x.phase
    BY <1>1, <1>2 DEF PhaseInv
  <1>7. ASSUME NEW a \in asked', NEW c \in asked', a.trans = c.trans, a.phase = c.phase
        PROVE  a.package = c.package
    BY <1>1, <1>7 DEF PhaseInv
  <1> QED
    BY <1>3, <1>4, <1>5, <1>6, <1>7 DEF PhaseInv

\* What ends transactions and takes bindings away disturbs none of it.
LEMMA LessKeepsPhases ==
  ASSUME TypeOK, PhaseInv, transactions' \subseteq transactions, bound' \subseteq bound,
         asked' = asked, nextTrans' \in {nextTrans, nextTrans + 1}
  PROVE  PhaseInv'
  <1>1. /\ nextTrans \in Nat
        /\ \A x \in transactions : x.id \in Nat
        /\ \A a \in asked : a.trans \in Nat
        /\ \A b \in bound : b.trans \in Nat
    BY DEF TypeOK, Transaction
  <1>2. IdsGiven' /\ BoundToCurrentPhase'
    BY <1>1 DEF PhaseInv, IdsGiven, BoundToCurrentPhase
  <1> QED
    BY <1>1, <1>2 DEF PhaseInv

LEMMA MessageKeepsPhases ==
  ASSUME TypeOK, PhaseInv, NEW m, NEW p \in packages, ProcessMessage(m, p)
  PROVE  PhaseInv'
  <1>1. CASE OnePhase(m, p) \/ UnknownCommand(m, p) \/ StartAndEnd(m, p)
    <2>1. /\ UNCHANGED <<transactions, bound, asked>>
          /\ nextTrans' \in {nextTrans, nextTrans + 1}
      BY <1>1 DEF OnePhase, UnknownCommand, StartAndEnd, Reply, SendNothing
    <2> QED
      BY <2>1, LessKeepsPhases
  <1>2. ASSUME NEW trans \in transactions, ActiveAndEnd(m, p, trans) \/ NotFit(m, p, trans)
        PROVE  PhaseInv'
    <2>1. /\ transactions' \subseteq transactions /\ bound' \subseteq bound
          /\ asked' = asked /\ nextTrans' = nextTrans
      BY <1>2 DEF ActiveAndEnd, NotFit, Reply, SendNothing, WithoutTransaction, WithoutBound
    <2> QED
      BY <2>1, LessKeepsPhases
  <1>3. ASSUME NEW to \in WaitTargets, StartAndWait(m, p, to)
        PROVE  PhaseInv'
    <2> DEFINE old == [id |-> nextTrans, phase |-> 0, firstConn |-> m.conn,
                       firstPackage |-> p.self, waitFor |-> to]
    <2>1. /\ Take(m, p) /\ AskAndWait(p.id, old, to)
          /\ bound' = bound \cup Bind(nextTrans) /\ nextTrans' = nextTrans + 1
      BY <1>3 DEF StartAndWait
    <2>2. old \in Transaction
      BY <2>1, TakeTypeOK DEF WaitTargets, Transaction, TypeOK
    <2>3. old.id = nextTrans /\ old.phase + 1 = 1
      OBVIOUS
    <2> HIDE DEF old
    <2>4. PICK new : /\ transactions' = WithoutTransaction(nextTrans) \cup {new}
                     /\ new.id = nextTrans /\ new.phase = 1
      BY <2>1, <2>2, <2>3, ArmByAskAndWait DEF Arm
    <2>5. PICK n \in Nat :
            LET ask == [package |-> n, trans |-> nextTrans, phase |-> 1] IN
            /\ asked \subseteq asked'
            /\ \A a \in asked' : a \in asked \/ a = ask
            /\ \A b \in Bind(nextTrans) :
                  b = [package |-> n, trans |-> nextTrans] /\ ask \in asked'
      BY <2>1, <2>2, <2>3, AskedOrNot
    <2>6. /\ nextTrans \in Nat /\ nextTrans' \in Nat
          /\ nextTrans <= nextTrans' /\ nextTrans < nextTrans'
          /\ \A b \in bound : b.trans # nextTrans
          /\ \A a \in asked : a.trans = nextTrans => a.phase < 1
      BY <2>1 DEF TypeOK, PhaseInv
    <2>7. \A b \in bound' : \/ b \in bound
                            \/ /\ b = [package |-> n, trans |-> nextTrans]
                               /\ [package |-> n, trans |-> nextTrans, phase |-> 1] \in asked'
      BY <2>1, <2>5
    <2> QED
      BY <2>4, <2>5, <2>6, <2>7, AdvanceKeepsPhases
  <1>4. ASSUME NEW trans \in transactions, NEW to \in WaitTargets,
               ActiveAndWait(m, p, trans, to)
        PROVE  PhaseInv'
    <2> DEFINE rest == {b \in bound : b.package # p.trigger}
    <2>1. /\ AskAndWait(p.id, trans, to) /\ trans \in FindBound(p.trigger)
          /\ bound' \subseteq rest \cup Bind(trans.id) /\ nextTrans' = nextTrans
      BY <1>4 DEF ActiveAndWait
    <2>2. trans \in Transaction /\ trans.id \in Nat /\ trans.phase \in Nat
      BY DEF TypeOK, Transaction
    <2>3. PICK new : /\ transactions' = WithoutTransaction(trans.id) \cup {new}
                     /\ new.id = trans.id /\ new.phase = trans.phase + 1
      BY <2>1, <2>2, ArmByAskAndWait DEF Arm
    <2>4. PICK n \in Nat :
            LET ask == [package |-> n, trans |-> trans.id, phase |-> trans.phase + 1] IN
            /\ asked \subseteq asked'
            /\ \A a \in asked' : a \in asked \/ a = ask
            /\ \A b \in Bind(trans.id) :
                  b = [package |-> n, trans |-> trans.id] /\ ask \in asked'
      BY <2>1, <2>2, AskedOrNot
    <2>5. PICK b0 \in bound : b0.package = p.trigger /\ b0.trans = trans.id
      BY <2>1 DEF FindBound
    <2>6. [package |-> p.trigger, trans |-> trans.id, phase |-> trans.phase] \in asked
      BY <2>5 DEF PhaseInv, BoundToCurrentPhase
    <2>7. ASSUME NEW b \in rest, b.trans = trans.id
          PROVE  FALSE
      <3>1. [package |-> b.package, trans |-> trans.id, phase |-> trans.phase] \in asked
        BY <2>7 DEF PhaseInv, BoundToCurrentPhase
      <3>2. b.package = p.trigger
        BY <2>6, <3>1 DEF PhaseInv
      <3> QED
        BY <3>2
    <2>8. \A a \in asked : a.trans = trans.id => a.phase < trans.phase + 1
      BY <2>2 DEF PhaseInv, TypeOK
    <2>9. trans.id < nextTrans /\ nextTrans \in Nat
      BY DEF PhaseInv, IdsGiven, TypeOK
    <2>10. \A b \in bound' :
              \/ b \in rest
              \/ /\ b = [package |-> n, trans |-> trans.id]
                 /\ [package |-> n, trans |-> trans.id, phase |-> trans.phase + 1] \in asked'
      BY <2>1, <2>4
    <2>11. rest \subseteq bound /\ trans.phase + 1 \in Nat /\ nextTrans <= nextTrans'
           /\ nextTrans' \in Nat /\ trans.id < nextTrans'
      BY <2>1, <2>2, <2>9
    <2>12. \A b \in rest : b.trans # trans.id
      BY <2>7
    <2>13. /\ asked \subseteq asked'
           /\ \A a \in asked' :
                 a \in asked \/ a = [package |-> n, trans |-> trans.id, phase |-> trans.phase + 1]
      BY <2>4
    <2> DEFINE t == trans.id
               k == trans.phase + 1
    <2>14. /\ t \in Nat /\ k \in Nat /\ n \in Nat
           /\ nextTrans' \in Nat /\ nextTrans <= nextTrans' /\ t < nextTrans'
      BY <2>2, <2>11
    <2>15. /\ rest \subseteq bound /\ \A b \in rest : b.trans # t
           /\ \A a \in asked : a.trans = t => a.phase < k
           /\ transactions' = WithoutTransaction(t) \cup {new}
           /\ new.id = t /\ new.phase = k
      BY <2>3, <2>8, <2>11, <2>12
    <2>16. /\ asked \subseteq asked'
           /\ \A a \in asked' : a \in asked \/ a = [package |-> n, trans |-> t, phase |-> k]
           /\ \A b \in bound' :
                 \/ b \in rest
                 \/ /\ b = [package |-> n, trans |-> t]
                    /\ [package |-> n, trans |-> t, phase |-> k] \in asked'
      BY <2>10, <2>13
    <2> HIDE DEF rest, t, k
    <2> QED
      BY <2>14, <2>15, <2>16, AdvanceKeepsPhases
  <1> QED
    BY <1>1, <1>2, <1>3, <1>4 DEF ProcessMessage

LEMMA PhasesAlways == Spec => []PhaseInv
  <1>1. Init => PhaseInv
    BY DEF Init, PhaseInv, IdsGiven, BoundToCurrentPhase
  <1>2. TypeOK /\ PhaseInv /\ [Next]_vars => PhaseInv'
    <2> SUFFICES ASSUME TypeOK, PhaseInv, [Next]_vars
                 PROVE  PhaseInv'
      OBVIOUS
    <2>1. CASE WorkerMessage
      BY <2>1, MessageKeepsPhases DEF WorkerMessage
    <2>2. CASE WorkerTimer
      <3>1. /\ transactions' \subseteq transactions
            /\ bound' = bound /\ asked' = asked /\ nextTrans' = nextTrans
        BY <2>2 DEF WorkerTimer, Timeout, TimerOfEnded, TakeTimer, Reply, SendNothing,
                    WithoutTransaction
      <3> QED
        BY <3>1, LessKeepsPhases
    <2>3. CASE Peers \/ NetworkThread \/ UNCHANGED vars
      <3>1. UNCHANGED <<transactions, bound, asked, nextTrans>>
        BY <2>3 DEF Peers, ClientRequest, PeerAnswer, StrayPackage, Receive, NetworkThread,
                    SendPackage, DropPackage, LosePackage, TakeOut, vars
      <3> QED
        BY <3>1, LessKeepsPhases
    <2> QED
      BY <2>1, <2>2, <2>3 DEF Next
  <1> QED
    BY TypeCorrect, <1>1, <1>2, PTL DEF Spec

\* MultiplyPhaseTransactionManager: what is bound to a registered transaction is the
\* package of the phase it waits in, so that a late answer cannot find it
\* (worker.cpp:280).
THEOREM BoundToItsPhase == Spec => []BoundToCurrentPhase
  BY PhasesAlways, PTL DEF PhaseInv

\* trigger_transaction: only the answer to the request of the current phase takes a
\* transaction out of that phase; an answer to an earlier phase, or to another
\* transaction, never does.
THEOREM MovedByTheirAnswer == Spec => MovedByOwnAnswer
  <1> DEFINE Moved ==
        \A x \in transactions, p \in packages :
           /\ inQueue # <<>> /\ Head(inQueue).package = p.id
           /\ inQueue' = Tail(inQueue)
           /\ x \notin transactions'
           => [package |-> p.trigger, trans |-> x.id, phase |-> x.phase] \in asked
  <1>1. TypeOK /\ QueueOnce /\ PhaseInv /\ [Next]_vars => Moved
    <2> SUFFICES ASSUME TypeOK, QueueOnce, PhaseInv, [Next]_vars,
                        NEW x \in transactions, NEW p \in packages,
                        inQueue # <<>>, Head(inQueue).package = p.id,
                        inQueue' = Tail(inQueue), x \notin transactions'
                 PROVE  [package |-> p.trigger, trans |-> x.id, phase |-> x.phase] \in asked
      OBVIOUS
    <2>1. /\ Len(inQueue) \in Nat /\ Len(inQueue') = Len(inQueue) - 1
          /\ inQueue \in Seq(InMessage)
      BY DEF TypeOK
    <2>2. CASE Peers
      <3>1. PICK m : inQueue' = Append(inQueue, m)
        BY <2>2 DEF Peers, ClientRequest, PeerAnswer, StrayPackage, Receive
      <3>2. Len(Append(inQueue, m)) = Len(inQueue) + 1
        BY <2>1
      <3> QED
        BY <2>1, <3>1, <3>2
    <2>3. CASE NetworkThread \/ WorkerTimer \/ UNCHANGED vars
      <3>1. inQueue' = inQueue
        BY <2>3 DEF NetworkThread, SendPackage, DropPackage, LosePackage, TakeOut,
                    WorkerTimer, Timeout, TimerOfEnded, TakeTimer, vars
      <3> QED
        BY <2>1, <3>1
    <2>4. CASE WorkerMessage
      <3>1. PICK q \in packages : ProcessMessage(Head(inQueue), q)
        BY <2>4 DEF WorkerMessage
      <3>2. Take(Head(inQueue), q)
        BY <3>1 DEF ProcessMessage, OnePhase, UnknownCommand, StartAndEnd, StartAndWait,
                    ActiveAndEnd, ActiveAndWait, NotFit
      <3>3. p = q
        BY <3>2 DEF Take, QueueOnce
      <3>4. transactions' # transactions
        OBVIOUS
      <3>5. CASE \E to \in WaitTargets : StartAndWait(Head(inQueue), q, to)
        <4>1. x.id # nextTrans
          BY DEF PhaseInv, IdsGiven, TypeOK, Transaction
        <4> QED
          BY <3>5, <4>1 DEF StartAndWait, AskAndWait, WithoutTransaction
      <3>6. ASSUME NEW trans \in FindBound(q.trigger),
                   WithoutTransaction(trans.id) \subseteq transactions'
            PROVE  [package |-> q.trigger, trans |-> x.id, phase |-> x.phase] \in asked
        <4>1. x.id = trans.id
          BY <3>6 DEF WithoutTransaction
        <4>2. PICK b \in bound : b.package = q.trigger /\ b.trans = trans.id
          BY DEF FindBound
        <4> QED
          BY <4>1, <4>2 DEF PhaseInv, BoundToCurrentPhase
      <3>7. CASE \E trans \in transactions :
                    \/ ActiveAndEnd(Head(inQueue), q, trans)
                    \/ \E to \in WaitTargets : ActiveAndWait(Head(inQueue), q, trans, to)
        BY <3>3, <3>6, <3>7 DEF ActiveAndEnd, ActiveAndWait, AskAndWait
      <3> QED
        BY <3>1, <3>4, <3>5, <3>7 DEF ProcessMessage, OnePhase, UnknownCommand, StartAndEnd, NotFit
    <2> QED
      BY <2>2, <2>3, <2>4 DEF Next
  <1> QED
    BY TypeCorrect, RepliesAlways, PhasesAlways, <1>1, PTL DEF Spec, MovedByOwnAnswer

-----------------------------------------------------------------------------
(* The engine and RequestReply *)

Waiting(r) == \E p \in packages : p.self = r /\ Queued(p.id)
Carried(r) == \E x \in transactions : x.firstPackage = r

\* How one request may move in a step.
Same(r) ==
    /\ r > requests' <=> r > requests
    /\ Waiting(r)' <=> Waiting(r)
    /\ Carried(r)' <=> Carried(r)
Received(r) == r > requests /\ ~(r > requests') /\ Waiting(r)' /\ Kept(r)
Opened(r) ==
    /\ ~(r > requests) /\ ~(r > requests') /\ Kept(r)
    /\ Waiting(r) /\ ~Waiting(r)' /\ Carried(r)'
Closed(r) ==
    /\ ~(r > requests) /\ ~(r > requests') /\ Answered(r)
    /\ Waiting(r) \/ Carried(r)
    /\ ~Waiting(r)' /\ ~Carried(r)'

\* A step moves one request, if it is one.
OnlyMoves(r) ==
    /\ \A s \in Requests : s # r => Same(s) /\ Kept(s)
    /\ r \in Requests => (Same(r) /\ Kept(r)) \/ Received(r) \/ Opened(r) \/ Closed(r)

LEMMA StageIs ==
  ASSUME NEW r
  PROVE  /\ Stage(r) = IF r > requests THEN "unsent" ELSE IF Waiting(r) THEN "received"
                       ELSE IF Carried(r) THEN "open" ELSE "closed"
         /\ Stage(r)' = IF r > requests' THEN "unsent" ELSE IF Waiting(r)' THEN "received"
                        ELSE IF Carried(r)' THEN "open" ELSE "closed"
  <1>1. InQueueAs(r) <=> Waiting(r)
    BY DEF InQueueAs, Waiting, Queued
  <1>2. InQueueAs(r)' <=> Waiting(r)'
    BY DEF InQueueAs, Waiting, Queued
  <1> QED
    BY <1>1, <1>2 DEF Stage, Carried

LEMMA OneMoves ==
  ASSUME TypeOK, TypeOK', NEW r, OnlyMoves(r)
  PROVE  [Abstract!Next]_(Abstract!vars)
  <1> DEFINE stage == [s \in Requests |-> Stage(s)]
             next == [s \in Requests |-> Stage(s)']
  <1>1. /\ replies \in [Requests -> Nat] /\ replies' \in [Requests -> Nat]
    BY DEF TypeOK
  <1>2. ASSUME NEW s \in Requests, Same(s) PROVE stage[s] = next[s]
    BY <1>2, StageIs DEF Same
  <1>3. \A s \in Requests : s # r => stage[s] = next[s] /\ replies'[s] = replies[s]
    BY <1>2 DEF OnlyMoves, Kept
  <1>4. CASE r \notin Requests \/ (Same(r) /\ Kept(r))
    <2>1. \A s \in Requests : stage[s] = next[s] /\ replies'[s] = replies[s]
      BY <1>2, <1>3, <1>4 DEF Kept
    <2>2. next = stage
      <3>1. \A s \in Requests : Stage(s)' = Stage(s)
        BY <2>1
      <3> QED BY <3>1
    <2>3. replies' = replies
      BY <1>1, <2>1
    <2> QED
      BY <2>2, <2>3 DEF Abstract!vars
  <1>5. CASE r \in Requests /\ (Received(r) \/ Opened(r) \/ Closed(r))
    <2>1. next = [stage EXCEPT ![r] = next[r]]
      <3> HIDE DEF stage, next
      <3>1. stage = [s \in Requests |-> stage[s]] /\ next = [s \in Requests |-> next[s]]
        BY DEF stage, next
      <3> QED
        BY <1>3, <1>5, <3>1
    <2>2. replies' = [replies EXCEPT ![r] = replies'[r]]
      BY <1>1, <1>3, <1>5
    <2>3. stage[r] = Stage(r) /\ next[r] = Stage(r)'
      BY <1>5
    <2> HIDE DEF stage, next
    <2>4. CASE Received(r)
      <3>1. stage[r] = "unsent" /\ next[r] = "received"
        BY <2>3, <2>4, StageIs DEF Received
      <3>2. replies' = replies
        BY <2>2, <2>4, <1>1 DEF Received, Kept
      <3>3. Abstract!Receive(r)
        BY <2>1, <3>1, <3>2 DEF Abstract!Receive, Abstract!Become, stage, next
      <3> QED
        BY <1>5, <3>3 DEF Abstract!Next
    <2>5. CASE Opened(r)
      <3>1. stage[r] = "received" /\ next[r] = "open"
        BY <2>3, <2>5, StageIs DEF Opened
      <3>2. replies' = replies
        BY <2>2, <2>5, <1>1 DEF Opened, Kept
      <3>3. Abstract!Open(r)
        BY <2>1, <3>1, <3>2 DEF Abstract!Open, Abstract!Become, stage, next
      <3> QED
        BY <1>5, <3>3 DEF Abstract!Next
    <2>6. CASE Closed(r)
      <3>1. stage[r] \in {"received", "open"} /\ next[r] = "closed"
        BY <2>3, <2>6, StageIs DEF Closed
      <3>2. replies' = replies \/ replies' = [replies EXCEPT ![r] = @ + 1]
        BY <2>2, <2>6, <1>1 DEF Closed, Answered
      <3>3. Abstract!Close(r)
        BY <2>1, <3>1, <3>2 DEF Abstract!Close, Abstract!Become, stage, next
      <3> QED
        BY <1>5, <3>3 DEF Abstract!Next
    <2> QED
      BY <1>5, <2>4, <2>5, <2>6
  <1> QED
    BY <1>4, <1>5 DEF OnlyMoves

\* What the simulation needs besides: an answer carries no request, and the id of a
\* transaction is its own.
Anonymous == \A p \in packages : Queued(p.id) /\ p.trigger # 0 => p.self = 0
TransOnce == \A x, y \in transactions : x.id = y.id => x = y
EngineInv == QueueOnce /\ RepliesInv /\ Owners /\ IdsGiven /\ Anonymous /\ TransOnce

LEMMA TakenOut ==
  ASSUME TypeOK, Owners, NEW m, NEW p \in packages, Take(m, p)
  PROVE  /\ Queued(p.id)
         /\ \A id : Queued(id)' <=> Queued(id) /\ id # p.id
  <1>1. /\ inQueue \in Seq(InMessage) /\ inQueue # <<>>
        /\ inQueue' = Tail(inQueue) /\ Head(inQueue).package = p.id
    BY DEF TypeOK, Take
  <1>2. /\ Names(inQueue, p.id)
        /\ \A id : Names(Tail(inQueue), id) <=> Names(inQueue, id) /\ id # p.id
    BY <1>1, TailNames DEF Owners
  <1>3. \A id : Queued(id) <=> Names(inQueue, id)
    BY DEF Queued, Names
  <1>4. \A id : Queued(id)' <=> Names(inQueue', id)
    BY DEF Queued, Names
  <1> QED
    BY <1>1, <1>2, <1>3, <1>4

LEMMA QueuedIds ==
  ASSUME TypeOK, Owners, NEW id, Queued(id)
  PROVE  id # 0 /\ id # nextPackage
  <1>1. Names(inQueue, id)
    BY DEF Queued, Names
  <1>2. PICK p \in packages : p.id = id
    BY <1>1 DEF Owners
  <1>3. p.id \in 1 .. nextPackage - 1 /\ nextPackage \in Nat
    BY DEF Owners, TypeOK
  <1> QED
    BY <1>2, <1>3

\* What a handler run leaves of the packages in the IN queue.
LEMMA QueuedStay ==
  ASSUME TypeOK, Owners, NEW done, Handed(done),
         \A id : Queued(id)' <=> Queued(id) /\ id # done
  PROVE  \A q : q \in packages' /\ Queued(q.id)' <=>
                q \in packages /\ Queued(q.id) /\ q.id # done
  <1>1. \A id : Queued(id) => id # nextPackage
    BY QueuedIds
  <1>2. CASE packages' = WithoutPackage(done)
    BY <1>2 DEF WithoutPackage
  <1>3. ASSUME NEW new, new.id = nextPackage, packages' = WithoutPackage(done) \cup {new}
        PROVE  \A q : q \in packages' /\ Queued(q.id)' <=>
                      q \in packages /\ Queued(q.id) /\ q.id # done
    BY <1>1, <1>3 DEF WithoutPackage
  <1> QED
    BY <1>2, <1>3 DEF Handed

\* A run of the worker on the message of p: only the request of p leaves the queue.
LEMMA AfterMessage ==
  ASSUME TypeOK, EngineInv, NEW m, NEW p \in packages, Take(m, p), Handed(p.id)
  PROVE  /\ requests' = requests
         /\ \A r : r # p.self => (Waiting(r)' <=> Waiting(r))
         /\ \A r \in Requests : r = p.self =>
               Waiting(r) /\ ~Waiting(r)' /\ ~(r > requests) /\ ~Carried(r)
         /\ Anonymous'
  <1>1. Queued(p.id) /\ \A id : Queued(id)' <=> Queued(id) /\ id # p.id
    BY TakenOut DEF EngineInv
  <1>2. \A q : q \in packages' /\ Queued(q.id)' <=>
               q \in packages /\ Queued(q.id) /\ q.id # p.id
    BY <1>1, QueuedStay DEF EngineInv
  <1>3. \A q \in packages : q.id = p.id => q = p
    BY DEF EngineInv, QueueOnce
  <1>4. ASSUME NEW r, r # p.self PROVE Waiting(r)' <=> Waiting(r)
    BY <1>2, <1>3, <1>4 DEF Waiting
  <1>5. ASSUME NEW r \in Requests, r = p.self
        PROVE  Waiting(r) /\ ~Waiting(r)' /\ ~(r > requests) /\ ~Carried(r)
    <2>1. Waiting(r)
      BY <1>1, <1>5 DEF Waiting
    <2>2. /\ r <= requests
          /\ \A x \in transactions : x.firstPackage # r
          /\ \A q \in packages : q.self = r /\ Queued(q.id) => q = p
      BY <1>1, <1>5 DEF EngineInv, RepliesInv, RequestQueued
    <2>3. r \in Nat /\ requests \in Nat
      BY ConstantsAssumption DEF Requests, TypeOK
    <2> QED
      BY <1>2, <2>1, <2>2, <2>3 DEF Waiting, Carried
  <1>6. Anonymous'
    BY <1>2 DEF EngineInv, Anonymous
  <1>7. requests' = requests
    BY DEF Take
  <1> QED
    BY <1>4, <1>5, <1>6, <1>7

\* A run on a timer takes nothing from the queue.
LEMMA AfterTimer ==
  ASSUME TypeOK, EngineInv, TakeTimer, Handed(0)
  PROVE  /\ requests' = requests
         /\ \A r : Waiting(r)' <=> Waiting(r)
         /\ Anonymous'
  <1>1. inQueue' = inQueue /\ requests' = requests
    BY DEF TakeTimer
  <1>2. \A id : Queued(id) => id # 0
    BY QueuedIds DEF EngineInv
  <1>3. \A id : Queued(id)' <=> Queued(id) /\ id # 0
    BY <1>1, <1>2 DEF Queued
  <1>4. \A q : q \in packages' /\ Queued(q.id)' <=> q \in packages /\ Queued(q.id) /\ q.id # 0
    BY <1>3, QueuedStay DEF EngineInv
  <1>5. \A q : q \in packages' /\ Queued(q.id)' <=> q \in packages /\ Queued(q.id)
    BY <1>2, <1>4
  <1>6. \A r : Waiting(r)' <=> Waiting(r)
    BY <1>5 DEF Waiting
  <1>7. Anonymous'
    BY <1>5 DEF EngineInv, Anonymous
  <1> QED
    BY <1>1, <1>6, <1>7

\* The end of a transaction closes its request, at an answer or at a timeout.
LEMMA EndMoves ==
  ASSUME TypeOK, EngineInv, NEW trans \in transactions, NEW done,
         Reply(done, trans.firstConn, trans.firstPackage),
         transactions' = WithoutTransaction(trans.id), requests' = requests,
         \A s \in Requests : Waiting(s)' <=> Waiting(s)
  PROVE  (\E r : OnlyMoves(r)) /\ TransOnce'
  <1> DEFINE r == trans.firstPackage
  <1>1. ASSUME NEW s \in Requests PROVE Answered(s) /\ (s # r => Kept(s))
    BY ReplyCounts
  <1>2. ASSUME NEW s \in Requests, s # r PROVE Same(s) /\ Kept(s)
    <2>1. \A x \in transactions : x.firstPackage = s => x.id # trans.id
      BY <1>2 DEF EngineInv, TransOnce
    <2>2. Carried(s)' <=> Carried(s)
      BY <2>1 DEF Carried, WithoutTransaction
    <2> QED
      BY <1>1, <1>2, <2>2 DEF Same
  <1>3. ASSUME r \in Requests PROVE Closed(r)
    <2>1. /\ r <= requests
          /\ \A y \in transactions : y.firstPackage = r => y.id = trans.id
      BY <1>3 DEF EngineInv, RepliesInv, RequestOpen
    <2>2. ~Waiting(r)
      BY <1>3 DEF EngineInv, RepliesInv, RequestQueued, Waiting
    <2>3. Carried(r) /\ ~Carried(r)'
      BY <2>1 DEF Carried, WithoutTransaction
    <2>4. r \in Nat /\ requests \in Nat
      BY <1>3, ConstantsAssumption DEF Requests, TypeOK
    <2> QED
      BY <1>1, <1>3, <2>1, <2>2, <2>3, <2>4 DEF Closed
  <1>4. TransOnce'
    BY DEF EngineInv, TransOnce, WithoutTransaction
  <1> HIDE DEF r
  <1>5. OnlyMoves(r)
    BY <1>2, <1>3 DEF OnlyMoves
  <1> QED
    BY <1>4, <1>5

\* What each step does.
Moves == (\E r : OnlyMoves(r)) /\ Anonymous' /\ TransOnce'

LEMMA StillMoves ==
  ASSUME \A s \in Requests : Same(s) /\ Kept(s)
  PROVE  \E r : OnlyMoves(r)
  <1>1. OnlyMoves(0)
    BY DEF OnlyMoves
  <1> QED
    BY <1>1

\* A handler run that replies to the package it took and leaves the transactions.
LEMMA AtOnceMoves ==
  ASSUME TypeOK, EngineInv, NEW m, NEW p \in packages, Take(m, p),
         Reply(p.id, m.conn, p.self), UNCHANGED transactions
  PROVE  Moves
  <1>1. Handed(p.id)
    BY HandlersHand
  <1>2. /\ requests' = requests
        /\ \A r : r # p.self => (Waiting(r)' <=> Waiting(r))
        /\ \A r \in Requests : r = p.self =>
              Waiting(r) /\ ~Waiting(r)' /\ ~(r > requests) /\ ~Carried(r)
        /\ Anonymous'
    BY <1>1, AfterMessage
  <1>3. \A s \in Requests : Answered(s) /\ (s # p.self => Kept(s))
    BY ReplyCounts
  <1>4. \A s : Carried(s)' <=> Carried(s)
    BY DEF Carried
  <1>5. OnlyMoves(p.self)
    <2>1. ASSUME NEW r, r = p.self PROVE OnlyMoves(r)
      BY <1>2, <1>3, <1>4, <2>1 DEF OnlyMoves, Same, Closed
    <2> QED BY <2>1
  <1>6. TransOnce'
    BY DEF EngineInv, TransOnce
  <1> QED
    BY <1>2, <1>5, <1>6 DEF Moves

\* An answer to a waiting transaction carries no request.
LEMMA AnswerTaken ==
  ASSUME TypeOK, EngineInv, NEW m, NEW p \in packages, Take(m, p), Handed(p.id), p.trigger # 0
  PROVE  /\ requests' = requests
         /\ \A s \in Requests : Waiting(s)' <=> Waiting(s)
         /\ Anonymous'
  <1>1. p.self = 0
    BY TakenOut DEF EngineInv, Anonymous
  <1>2. \A s \in Requests : s # p.self
    BY <1>1 DEF Requests
  <1> QED
    BY <1>2, AfterMessage

LEMMA MessageMoves ==
  ASSUME TypeOK, EngineInv, NEW m, NEW p \in packages, ProcessMessage(m, p)
  PROVE  Moves
  <1>1. CASE OnePhase(m, p)
    BY <1>1, AtOnceMoves DEF OnePhase
  <1>2. CASE StartAndEnd(m, p)
    BY <1>2, AtOnceMoves DEF StartAndEnd
  <1>3. CASE UnknownCommand(m, p)
    BY <1>3, AtOnceMoves DEF UnknownCommand, Reply
  <1>4. ASSUME NEW trans \in transactions, NotFit(m, p, trans)
        PROVE  Moves
    <2>1. Take(m, p) /\ p.trigger # 0 /\ Handed(p.id) /\ UNCHANGED <<transactions, replies>>
      BY <1>4, HandlersHand DEF NotFit, SendNothing
    <2>2. /\ requests' = requests
          /\ \A s \in Requests : Waiting(s)' <=> Waiting(s)
          /\ Anonymous'
      BY <2>1, AnswerTaken
    <2>3. \A s \in Requests : Same(s) /\ Kept(s)
      BY <2>1, <2>2 DEF Same, Kept, Carried
    <2>4. TransOnce'
      BY <2>1 DEF EngineInv, TransOnce
    <2> QED
      BY <2>2, <2>3, <2>4, StillMoves DEF Moves
  <1>5. ASSUME NEW trans \in transactions, ActiveAndEnd(m, p, trans)
        PROVE  Moves
    <2>1. /\ Take(m, p) /\ p.trigger # 0
          /\ Reply(p.id, trans.firstConn, trans.firstPackage)
          /\ transactions' = WithoutTransaction(trans.id)
      BY <1>5 DEF ActiveAndEnd
    <2>2. Handed(p.id)
      BY <2>1, HandlersHand
    <2>3. /\ requests' = requests
          /\ \A s \in Requests : Waiting(s)' <=> Waiting(s)
          /\ Anonymous'
      BY <2>1, <2>2, AnswerTaken
    <2>4. (\E r : OnlyMoves(r)) /\ TransOnce'
      BY <2>1, <2>3, EndMoves
    <2> QED
      BY <2>3, <2>4 DEF Moves
  <1>6. ASSUME NEW trans \in transactions, NEW to \in WaitTargets,
               ActiveAndWait(m, p, trans, to)
        PROVE  Moves
    <2> DEFINE new == [trans EXCEPT !.phase = @ + 1, !.waitFor = to]
    <2>1. /\ Take(m, p) /\ p.trigger # 0
          /\ Ask(p.id, to, trans.id, trans.phase + 1)
          /\ transactions' = WithoutTransaction(trans.id) \cup {new}
      BY <1>6 DEF ActiveAndWait, AskAndWait
    <2>2. new.id = trans.id /\ new.firstPackage = trans.firstPackage
      BY DEF TypeOK, Transaction
    <2> HIDE DEF new
    <2>3. Handed(p.id) /\ replies' = replies
      BY <2>1, HandlersHand, HandlersSend
    <2>4. /\ requests' = requests
          /\ \A s \in Requests : Waiting(s)' <=> Waiting(s)
          /\ Anonymous'
      BY <2>1, <2>3, AnswerTaken
    <2>5. \A x \in transactions : x.id = trans.id => x = trans
      BY DEF EngineInv, TransOnce
    <2>6. \A s : Carried(s)' <=> Carried(s)
      BY <2>1, <2>2, <2>5 DEF Carried, WithoutTransaction
    <2>7. \A s \in Requests : Same(s) /\ Kept(s)
      BY <2>3, <2>4, <2>6 DEF Same, Kept
    <2>8. TransOnce'
      BY <2>1, <2>2 DEF EngineInv, TransOnce, WithoutTransaction
    <2> QED
      BY <2>4, <2>7, <2>8, StillMoves DEF Moves
  <1>7. ASSUME NEW to \in WaitTargets, StartAndWait(m, p, to)
        PROVE  Moves
    <2> DEFINE old == [id |-> nextTrans, phase |-> 0, firstConn |-> m.conn,
                       firstPackage |-> p.self, waitFor |-> to]
               new == [old EXCEPT !.phase = @ + 1, !.waitFor = to]
    <2>1. /\ Take(m, p) /\ Ask(p.id, to, nextTrans, 1)
          /\ transactions' = WithoutTransaction(nextTrans) \cup {new}
      BY <1>7 DEF StartAndWait, AskAndWait
    <2>2. new.id = nextTrans /\ new.firstPackage = p.self
      OBVIOUS
    <2> HIDE DEF new
    <2>3. Handed(p.id) /\ replies' = replies
      BY <2>1, HandlersHand, HandlersSend
    <2>4. /\ requests' = requests
          /\ \A r : r # p.self => (Waiting(r)' <=> Waiting(r))
          /\ \A r \in Requests : r = p.self =>
                Waiting(r) /\ ~Waiting(r)' /\ ~(r > requests) /\ ~Carried(r)
          /\ Anonymous'
      BY <2>1, <2>3, AfterMessage
    <2>5. \A x \in transactions : x.id # nextTrans
      BY DEF EngineInv, IdsGiven, TypeOK, Transaction
    <2>6. transactions' = transactions \cup {new}
      BY <2>1, <2>5 DEF WithoutTransaction
    <2>7. \A s : Carried(s)' <=> Carried(s) \/ s = p.self
      BY <2>2, <2>6 DEF Carried
    <2>8. OnlyMoves(p.self)
      <3>1. ASSUME NEW r, r = p.self PROVE OnlyMoves(r)
        BY <2>3, <2>4, <2>7, <3>1 DEF OnlyMoves, Same, Kept, Opened
      <3> QED BY <3>1
    <2>9. TransOnce'
      BY <2>2, <2>5, <2>6 DEF EngineInv, TransOnce
    <2> QED
      BY <2>4, <2>8, <2>9 DEF Moves
  <1> QED
    BY <1>1, <1>2, <1>3, <1>4, <1>5, <1>6, <1>7 DEF ProcessMessage

LEMMA TimerMoves ==
  ASSUME TypeOK, EngineInv, WorkerTimer
  PROVE  Moves
  <1>1. ASSUME NEW trans \in transactions, Timeout(trans)
        PROVE  Moves
    <2>1. /\ TakeTimer /\ Reply(0, trans.firstConn, trans.firstPackage)
          /\ transactions' = WithoutTransaction(trans.id)
      BY <1>1 DEF Timeout
    <2>2. /\ requests' = requests
          /\ \A r : Waiting(r)' <=> Waiting(r)
          /\ Anonymous'
      BY <2>1, HandlersHand, AfterTimer
    <2>3. (\E r : OnlyMoves(r)) /\ TransOnce'
      BY <2>1, <2>2, EndMoves
    <2> QED
      BY <2>2, <2>3 DEF Moves
  <1>2. CASE TimerOfEnded
    <2>1. TakeTimer /\ Handed(0) /\ UNCHANGED <<transactions, replies>>
      BY <1>2, HandlersHand DEF TimerOfEnded, SendNothing
    <2>2. /\ requests' = requests
          /\ \A r : Waiting(r)' <=> Waiting(r)
          /\ Anonymous'
      BY <2>1, AfterTimer
    <2>3. \A s \in Requests : Same(s) /\ Kept(s)
      BY <2>1, <2>2 DEF Same, Kept, Carried
    <2>4. TransOnce'
      BY <2>1 DEF EngineInv, TransOnce
    <2> QED
      BY <2>2, <2>3, <2>4, StillMoves DEF Moves
  <1> QED
    BY <1>1, <1>2 DEF WorkerTimer

\* What the network thread takes from the package list is not in the IN queue.
LEMMA NetworkMoves ==
  ASSUME TypeOK, EngineInv, NetworkThread
  PROVE  Moves
  <1>1. /\ outQueue # <<>>
        /\ UNCHANGED <<inQueue, transactions, requests, replies>>
        /\ packages' = WithoutPackage(Head(outQueue).package) \/ packages' = packages
    BY DEF NetworkThread, SendPackage, DropPackage, LosePackage, TakeOut
  <1>2. PICK id : id = Head(outQueue).package
    OBVIOUS
  <1>3. Names(outQueue, id)
    BY <1>1, <1>2, TailNames DEF TypeOK, EngineInv, Owners
  <1>4. ~Queued(id)
    <2>1. ~Names(inQueue, id)
      BY <1>3 DEF EngineInv, Owners
    <2> QED
      BY <2>1 DEF Queued, Names
  <1>5. \A q : q \in packages' /\ Queued(q.id)' <=> q \in packages /\ Queued(q.id)
    <2>1. \A k : Queued(k)' <=> Queued(k)
      BY <1>1 DEF Queued
    <2> QED
      BY <1>1, <1>2, <1>4, <2>1 DEF WithoutPackage
  <1>6. \A r : Waiting(r)' <=> Waiting(r)
    BY <1>5 DEF Waiting
  <1>7. \A s \in Requests : Same(s) /\ Kept(s)
    BY <1>1, <1>6 DEF Same, Kept, Carried
  <1>8. Anonymous' /\ TransOnce'
    BY <1>1, <1>5 DEF EngineInv, Anonymous, TransOnce
  <1> QED
    BY <1>7, <1>8, StillMoves DEF Moves

\* A package comes in: the request it carries, if any, waits in the IN queue.
LEMMA ReceiveWaits ==
  ASSUME TypeOK, EngineInv, NEW c, NEW cmd, NEW self, NEW trigger,
         trigger = 0 \/ self = 0, Receive(c, cmd, self, trigger)
  PROVE  /\ \A r : Waiting(r)' <=> Waiting(r) \/ r = self
         /\ \A r : Carried(r)' <=> Carried(r)
         /\ replies' = replies
         /\ Anonymous' /\ TransOnce'
  <1> DEFINE new == [id |-> nextPackage, cmd |-> cmd, self |-> self, trigger |-> trigger]
             message == [conn |-> c, service |-> ServiceOf[c], package |-> nextPackage]
  <1>1. /\ packages' = packages \cup {new} /\ inQueue' = Append(inQueue, message)
        /\ UNCHANGED <<transactions, replies>>
    BY DEF Receive
  <1>2. /\ new.id = nextPackage /\ new.self = self /\ new.trigger = trigger
        /\ message.package = nextPackage
    OBVIOUS
  <1> HIDE DEF new, message
  <1>3. \A id : Names(inQueue', id) <=> Names(inQueue, id) \/ id = nextPackage
    <2>1. inQueue \in Seq(InMessage)
      BY DEF TypeOK
    <2> QED
      BY <1>1, <1>2, <2>1, AppendNames
  <1>4. \A id : Queued(id)' <=> Queued(id) \/ id = nextPackage
    <2>1. \A id : Queued(id) <=> Names(inQueue, id)
      BY DEF Queued, Names
    <2>2. \A id : Queued(id)' <=> Names(inQueue', id)
      BY DEF Queued, Names
    <2> QED
      BY <1>3, <2>1, <2>2
  <1>5. \A q \in packages : q.id # nextPackage
    BY DEF EngineInv, QueueOnce, TypeOK, Package
  <1>6. \A q : q \in packages' /\ Queued(q.id)' <=> (q \in packages /\ Queued(q.id)) \/ q = new
    BY <1>1, <1>2, <1>4, <1>5
  <1>7. \A r : Waiting(r)' <=> Waiting(r) \/ r = self
    BY <1>2, <1>6 DEF Waiting
  <1>8. Anonymous'
    BY <1>2, <1>6 DEF EngineInv, Anonymous
  <1> QED
    BY <1>1, <1>7, <1>8 DEF Carried, EngineInv, TransOnce

LEMMA PeersMove ==
  ASSUME TypeOK, EngineInv, Peers
  PROVE  Moves
  <1>1. ASSUME NEW c, NEW cmd, NEW trigger, Receive(c, cmd, 0, trigger), requests' = requests
        PROVE  Moves
    <2>1. /\ \A r : Waiting(r)' <=> Waiting(r) \/ r = 0
          /\ \A r : Carried(r)' <=> Carried(r)
          /\ replies' = replies
          /\ Anonymous' /\ TransOnce'
      BY <1>1, ReceiveWaits
    <2>2. \A s \in Requests : Same(s) /\ Kept(s)
      BY <1>1, <2>1 DEF Same, Kept, Requests
    <2> QED
      BY <2>1, <2>2, StillMoves DEF Moves
  <1>2. ASSUME NEW c \in Conns, NEW cmd, ClientRequest(c, cmd)
        PROVE  Moves
    <2>1. PICK r : r = requests + 1
      OBVIOUS
    <2>2. /\ Receive(c, cmd, r, 0) /\ requests' = r
          /\ requests \in Nat
      BY <1>2, <2>1, ConstantsAssumption DEF ClientRequest, TypeOK
    <2>3. /\ \A s : Waiting(s)' <=> Waiting(s) \/ s = r
          /\ \A s : Carried(s)' <=> Carried(s)
          /\ replies' = replies
          /\ Anonymous' /\ TransOnce'
      BY <2>2, ReceiveWaits
    <2>4. \A s \in Requests : s # r => Same(s) /\ Kept(s)
      <3>1. \A s \in Requests : s \in Nat
        BY DEF Requests
      <3>2. \A s \in Requests : s # r => (s > requests' <=> s > requests)
        BY <2>1, <2>2, <3>1
      <3> QED
        BY <2>3, <3>2 DEF Same, Kept
    <2>5. Received(r)
      BY <2>1, <2>2, <2>3 DEF Received, Kept
    <2>6. OnlyMoves(r)
      BY <2>4, <2>5 DEF OnlyMoves
    <2> QED
      BY <2>3, <2>6 DEF Moves
  <1> QED
    BY <1>1, <1>2 DEF Peers, PeerAnswer, StrayPackage

LEMMA NextMoves ==
  ASSUME TypeOK, EngineInv, [Next]_vars
  PROVE  Moves
  <1>1. CASE WorkerMessage
    BY <1>1, MessageMoves DEF WorkerMessage
  <1>2. CASE UNCHANGED vars
    <2>1. \A s \in Requests : Same(s) /\ Kept(s)
      BY <1>2 DEF vars, Same, Kept, Waiting, Carried, Queued
    <2>2. Anonymous' /\ TransOnce'
      BY <1>2 DEF vars, EngineInv, Anonymous, TransOnce, Queued
    <2> QED
      BY <2>1, <2>2, StillMoves DEF Moves
  <1> QED
    BY <1>1, <1>2, PeersMove, NetworkMoves, TimerMoves DEF Next

LEMMA EngineAlways == Spec => []EngineInv
  <1>1. Init => Anonymous /\ TransOnce
    BY DEF Init, Anonymous, TransOnce
  <1>2. /\ TypeOK /\ QueueOnce /\ RepliesInv /\ Owners /\ PhaseInv /\ Anonymous /\ TransOnce
        /\ [Next]_vars
        => (Anonymous /\ TransOnce)'
    BY NextMoves DEF EngineInv, PhaseInv, Moves
  <1>3. /\ QueueOnce /\ RepliesInv /\ Owners /\ PhaseInv /\ Anonymous /\ TransOnce
        => EngineInv
    BY DEF EngineInv, PhaseInv
  <1> QED
    BY TypeCorrect, RepliesAlways, OwnersAlways, PhasesAlways, <1>1, <1>2, <1>3, PTL DEF Spec

\* Worker::run and everything it calls: a request that came in goes on only from
\* received to open to closed, and is replied to only as it is closed, once; whatever
\* comes in meanwhile moves no other request.  (That it is closed in the end, the
\* fairness of RequestReply, is for TLC.)
THEOREM IsRequestReply == Spec => Abstract!Init /\ [][Abstract!Next]_(Abstract!vars)
  <1>1. Init => Abstract!Init
    BY ConstantsAssumption DEF Init, Abstract!Init, Stage, Requests
  <1>2. TypeOK /\ TypeOK' /\ EngineInv /\ [Next]_vars => [Abstract!Next]_(Abstract!vars)
    BY NextMoves, OneMoves DEF Moves
  <1> QED
    BY TypeCorrect, EngineAlways, <1>1, <1>2, PTL DEF Spec

=============================================================================
