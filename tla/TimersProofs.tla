----------------------------- MODULE TimersProofs -----------------------------
(***************************************************************************)
(* Proofs about Timers for every set of intervals and all bounds.  The     *)
(* argument: the heap keeps a timer in front that expires first; what an   *)
(* action registers expires later than now, and so never comes in front of *)
(* the timer whose action it is; so the turn takes off the timer it ran.   *)
(***************************************************************************)
EXTENDS Timers, TLAPS

IInv == TypeOK /\ HeapInOrder

-----------------------------------------------------------------------------
(* The heap *)

LEMMA NothingIsNoTimer == Nothing \notin Timer
BY DEF Nothing, Timer

\* push_heap keeps the first to expire in front.
LEMMA PushedIsFirst ==
    ASSUME NEW timers \in SUBSET Timer, NEW first \in Fronts(timers), NEW t \in Timer
    PROVE  Pushed(first, t) \in Fronts(timers \cup {t})
<1>1. CASE timers = {}
  <2>1. first = Nothing
    BY <1>1 DEF Fronts
  <2>2. Pushed(first, t) = t
    BY <2>1 DEF Pushed
  <2>3. t.expiry <= t.expiry
    BY DEF Timer
  <2> QED
    BY <1>1, <2>2, <2>3 DEF Fronts
<1>2. CASE timers # {}
  <2>1. first \in timers /\ \A other \in timers : first.expiry <= other.expiry
    BY <1>2 DEF Fronts
  <2>2. first # Nothing
    BY <2>1, NothingIsNoTimer
  <2>3. \A s \in timers \cup {t} : s.expiry \in Nat
    BY DEF Timer
  <2>4. CASE t.expiry < first.expiry
    <3>1. Pushed(first, t) = t
      BY <2>4 DEF Pushed
    <3>2. \A other \in timers \cup {t} : t.expiry <= other.expiry
      BY <2>1, <2>3, <2>4
    <3> QED
      BY <3>1, <3>2 DEF Fronts
  <2>5. CASE ~(t.expiry < first.expiry)
    <3>1. Pushed(first, t) = first
      BY <2>2, <2>5 DEF Pushed
    <3>2. \A other \in timers \cup {t} : first.expiry <= other.expiry
      BY <2>1, <2>3, <2>5
    <3> QED
      BY <2>1, <3>1, <3>2 DEF Fronts
  <2> QED
    BY <2>4, <2>5
<1> QED
  BY <1>1, <1>2

\* What stands in front is a timer of the heap, or the heap is empty.
LEMMA FrontInQueue ==
    ASSUME NEW timers \in SUBSET Timer, NEW first \in Fronts(timers)
    PROVE  first = Nothing \/ (first \in timers /\ first # Nothing)
BY NothingIsNoTimer DEF Fronts

-----------------------------------------------------------------------------
(* The invariant *)

LEMMA InitInvariant == Init => IInv
<1> SUFFICES ASSUME Init PROVE IInv
  OBVIOUS
<1>1. now \in 0 .. MaxTime /\ nextId \in 1 .. MaxTimers + 1 /\ heartbeat \in 0 .. MaxTimers
  BY TimersAssumption DEF Init
<1>2. HeapInOrder
  BY DEF Init, HeapInOrder, Fronts
<1> QED
  BY <1>1, <1>2 DEF Init, IInv, TypeOK

LEMMA NewTimerType ==
    ASSUME TypeOK, nextId <= MaxTimers, NEW interval \in Nat \ {0}, NEW frequent \in BOOLEAN
    PROVE  /\ NewTimer(interval, frequent) \in Timer
           /\ NewTimer(interval, frequent).id = nextId
           /\ NewTimer(interval, frequent).expiry > now
           /\ now \in Nat /\ nextId \in Nat
<1>1. now \in Nat /\ nextId \in 1 .. MaxTimers
  BY TimersAssumption DEF TypeOK
<1>2. now + interval \in Nat /\ now + interval > now
  BY <1>1
<1> QED
  BY <1>1, <1>2 DEF NewTimer, Timer

\* register_timer keeps the heap in order, and gives an id nobody has.
LEMMA RegisterKeeps ==
    ASSUME IInv, NEW interval \in Nat \ {0}, NEW frequent \in BOOLEAN,
           RegisterTimer(interval, frequent), heartbeat' \in 0 .. MaxTimers
    PROVE  IInv'
<1> DEFINE new == NewTimer(interval, frequent)
<1>1. new \in Timer /\ new.id = nextId /\ nextId \in Nat
  BY NewTimerType DEF IInv, RegisterTimer
<1>2. queue' = queue \cup {new} /\ front' = Pushed(front, new) /\ nextId' = nextId + 1
  BY DEF RegisterTimer
<1>3. HeapInOrder'
  <2>1. Pushed(front, new) \in Fronts(queue \cup {new})
    BY <1>1, PushedIsFirst DEF IInv, TypeOK, HeapInOrder
  <2> QED
    BY <1>2, <2>1 DEF HeapInOrder, Fronts
<1>4. queue' \subseteq Timer
  BY <1>1, <1>2 DEF IInv, TypeOK
<1>5. \A t \in queue' : t.id < nextId'
  <2>1. \A t \in queue : t.id \in Nat /\ t.id < nextId
    BY DEF IInv, TypeOK, Timer
  <2> QED
    BY <1>1, <1>2, <2>1
<1>6. front' \in queue' \cup {Nothing}
  BY <1>3, <1>4, FrontInQueue DEF HeapInOrder
<1>7. nextId' \in 1 .. MaxTimers + 1
  BY <1>1, <1>2, TimersAssumption DEF RegisterTimer, IInv, TypeOK
<1> QED
  BY <1>3, <1>4, <1>5, <1>6, <1>7 DEF IInv, TypeOK, RegisterTimer

LEMMA StopKeeps == ASSUME IInv, StopHeartbeat PROVE IInv'
<1>1. queue' \subseteq queue /\ nextId' = nextId /\ now' = now /\ heartbeat' = heartbeat
  BY DEF StopHeartbeat
<1>2. HeapInOrder'
  BY DEF StopHeartbeat, HeapInOrder, Fronts
<1>3. queue' \subseteq Timer
  BY <1>1 DEF IInv, TypeOK
<1>4. front' \in queue' \cup {Nothing}
  BY <1>2, <1>3, FrontInQueue DEF HeapInOrder
<1>5. done' \in SUBSET (1 .. MaxTimers)
  <2>1. heartbeat \in 1 .. MaxTimers
    BY DEF StopHeartbeat, IInv, TypeOK, Timer
  <2> QED
    BY <2>1 DEF StopHeartbeat, IInv, TypeOK
<1> QED
  BY <1>1, <1>2, <1>3, <1>4, <1>5 DEF IInv, TypeOK

\* What a turn does: the front is due and the first to expire, and it alone is
\* taken off, whatever its action has registered.
LEMMA TurnTakesTheFront ==
    ASSUME IInv, NEW new \in SUBSET Timer, ProcessExpiryTimer(new),
           new = {} \/ \E t \in new : new = {t} /\ t.expiry > now
    PROVE  LET left == (queue \cup new) \ {front}
           IN  /\ front \in queue /\ front.expiry <= now
               /\ \A t \in queue : front.expiry <= t.expiry
               /\ IF front.frequent
                  THEN queue' = left \cup {Again} /\ \E f \in Fronts(left) : front' = Pushed(f, Again)
                  ELSE queue' = left /\ front' \in Fronts(left)
<1> DEFINE inFront == IF new = {} THEN front ELSE Pushed(front, CHOOSE t \in new : TRUE)
<1>1. front # Nothing /\ front.expiry <= now
  BY DEF ProcessExpiryTimer, IsDue
<1>2. front \in queue /\ \A t \in queue : front.expiry <= t.expiry
  BY <1>1 DEF IInv, HeapInOrder, Fronts
<1>3. inFront = front
  <2>1. CASE new = {}
    BY <2>1
  <2>2. ASSUME NEW t \in new, new = {t}, t.expiry > now PROVE inFront = front
    <3>1. (CHOOSE x \in new : TRUE) = t
      BY <2>2
    <3>2. ~(t.expiry < front.expiry)
      BY <1>1, <1>2, <2>2, TimersAssumption DEF IInv, TypeOK, Timer
    <3> QED
      BY <1>1, <2>2, <3>1, <3>2 DEF Pushed
  <2> QED
    BY <2>1, <2>2
<1> HIDE DEF inFront
<1>4. LET left == (queue \cup new) \ {inFront}
      IN  IF front.frequent
          THEN queue' = left \cup {Again} /\ \E f \in Fronts(left) : front' = Pushed(f, Again)
          ELSE queue' = left /\ front' \in Fronts(left)
  BY DEF ProcessExpiryTimer, inFront
<1> QED
  BY <1>1, <1>2, <1>3, <1>4

LEMMA AgainType ==
    ASSUME TypeOK, front \in queue
    PROVE  /\ Again \in Timer /\ Again.id = front.id
           /\ Again.expiry > now
<1>1. front \in Timer /\ now \in Nat
  BY TimersAssumption DEF TypeOK
<1>2. now + front.interval \in Nat /\ now + front.interval > now
  BY <1>1 DEF Timer
<1>3. Again = [id |-> front.id, interval |-> front.interval, expiry |-> now + front.interval,
               frequent |-> front.frequent]
  BY <1>1 DEF Again, Timer
<1> QED
  BY <1>1, <1>2, <1>3 DEF Timer

LEMMA ProcessKeeps ==
    ASSUME IInv, NEW new \in SUBSET Timer, ProcessExpiryTimer(new),
           new = {} \/ \E t \in new : new = {t} /\ t.expiry > now,
           nextId' \in nextId .. MaxTimers + 1, \A t \in new : t.id < nextId'
    PROVE  IInv'
<1> DEFINE left == (queue \cup new) \ {front}
<1>1. /\ front \in queue
      /\ IF front.frequent
         THEN queue' = left \cup {Again} /\ \E f \in Fronts(left) : front' = Pushed(f, Again)
         ELSE queue' = left /\ front' \in Fronts(left)
  BY TurnTakesTheFront
<1>2. Again \in Timer /\ Again.id = front.id
  BY <1>1, AgainType DEF IInv
<1>3. left \subseteq Timer
  BY DEF IInv, TypeOK
<1>4. front' \in Fronts(queue')
  <2>1. CASE front.frequent
    BY <1>1, <1>2, <1>3, <2>1, PushedIsFirst
  <2>2. CASE ~front.frequent
    BY <1>1, <2>2
  <2> QED
    BY <2>1, <2>2
<1>5. HeapInOrder'
  BY <1>4 DEF HeapInOrder, Fronts
<1>6. queue' \subseteq Timer
  BY <1>1, <1>2, <1>3
<1>7. nextId' \in 1 .. MaxTimers + 1 /\ nextId <= nextId' /\ nextId \in Nat
  BY TimersAssumption DEF IInv, TypeOK
<1>8. \A t \in queue' : t.id < nextId'
  <2>1. \A t \in queue : t.id \in Nat /\ t.id < nextId'
    BY <1>7 DEF IInv, TypeOK, Timer
  <2> QED
    BY <1>1, <1>2, <2>1
<1>9. front' \in queue' \cup {Nothing}
  BY <1>4, <1>6, FrontInQueue
<1>10. now' = now /\ heartbeat' = heartbeat /\ done' = done \cup {front.id}
  BY DEF ProcessExpiryTimer
<1>11. front.id \in 1 .. MaxTimers
  BY <1>1 DEF IInv, TypeOK, Timer
<1> QED
  BY <1>5, <1>6, <1>7, <1>8, <1>9, <1>10, <1>11 DEF IInv, TypeOK

-----------------------------------------------------------------------------
(* Every step *)

\* The turn with an action that registers nothing, or one timer.
LEMMA TurnCases ==
    ASSUME IInv, Turn
    PROVE  \E new \in SUBSET Timer :
              /\ ProcessExpiryTimer(new)
              /\ new = {} \/ \E t \in new : new = {t} /\ t.expiry > now
              /\ nextId' \in nextId .. MaxTimers + 1
              /\ \A t \in new : t.id < nextId'
<1>1. nextId \in 1 .. MaxTimers + 1 /\ MaxTimers \in Nat
  BY TimersAssumption DEF IInv, TypeOK
<1>2. CASE ProcessExpiryTimer({}) /\ UNCHANGED nextId
  <2>1. nextId' \in nextId .. MaxTimers + 1
    BY <1>1, <1>2
  <2> QED
    BY <1>2, <2>1
<1>3. ASSUME nextId <= MaxTimers, NEW i \in Intervals, ProcessExpiryTimer({NewTimer(i, FALSE)}),
             nextId' = nextId + 1
      PROVE  \E new \in SUBSET Timer :
                /\ ProcessExpiryTimer(new)
                /\ new = {} \/ \E t \in new : new = {t} /\ t.expiry > now
                /\ nextId' \in nextId .. MaxTimers + 1
                /\ \A t \in new : t.id < nextId'
  <2>1. i \in Nat \ {0}
    BY TimersAssumption
  <2>2. /\ NewTimer(i, FALSE) \in Timer
        /\ NewTimer(i, FALSE).id = nextId
        /\ NewTimer(i, FALSE).expiry > now
    BY <1>3, <2>1, NewTimerType DEF IInv
  <2>3. nextId' \in nextId .. MaxTimers + 1 /\ nextId < nextId'
    BY <1>1, <1>3
  <2>4. {NewTimer(i, FALSE)} \in SUBSET Timer
    BY <2>2
  <2>5. \A t \in {NewTimer(i, FALSE)} : t.id < nextId'
    BY <2>2, <2>3
  <2>6. \E t \in {NewTimer(i, FALSE)} : {NewTimer(i, FALSE)} = {t} /\ t.expiry > now
    BY <2>2
  <2> QED
    BY <1>3, <2>3, <2>4, <2>5, <2>6
<1> QED
  BY <1>2, <1>3 DEF Turn

LEMMA NextInvariant == IInv /\ [Next]_vars => IInv'
<1> SUFFICES ASSUME IInv, [Next]_vars PROVE IInv'
  OBVIOUS
<1>1. CASE Turn
  BY <1>1, TurnCases, ProcessKeeps
<1>2. CASE Clock
  BY <1>2, TimersAssumption DEF Clock, IInv, TypeOK, HeapInOrder, Fronts
<1>3. ASSUME NEW i \in Intervals, WaitNextPhase(i) PROVE IInv'
  <2>1. heartbeat' \in 0 .. MaxTimers
    BY <1>3 DEF WaitNextPhase, IInv, TypeOK
  <2> QED
    BY <1>3, <2>1, RegisterKeeps, TimersAssumption DEF WaitNextPhase
<1>4. CASE StartHeartbeat
  <2>1. heartbeat' \in 0 .. MaxTimers
    BY <1>4, TimersAssumption DEF StartHeartbeat, RegisterTimer, IInv, TypeOK
  <2> QED
    BY <1>4, <2>1, RegisterKeeps, TimersAssumption DEF StartHeartbeat
<1>5. CASE StopHeartbeat
  BY <1>5, StopKeeps
<1>6. CASE UNCHANGED vars
  BY <1>6 DEF vars, IInv, TypeOK, HeapInOrder, Fronts
<1> QED
  BY <1>1, <1>2, <1>3, <1>4, <1>5, <1>6 DEF Next

\* TimerManager: every variable keeps its type, and the heap its order.
THEOREM TimersInvariant == Spec => []IInv
<1>1. Init => IInv
  BY InitInvariant
<1>2. IInv /\ [Next]_vars => IInv'
  BY NextInvariant
<1> QED
  BY <1>1, <1>2, PTL DEF Spec

\* Every reachable state of the timers has its type.
THEOREM TimersTypeCorrect == Spec => []TypeOK
<1>1. IInv => TypeOK
  BY DEF IInv
<1> QED
  BY <1>1, TimersInvariant, PTL

\* TimerManager: what stands in front expires first, after every push, pop and
\* removal.
THEOREM HeapStaysInOrder == Spec => []HeapInOrder
<1>1. IInv => HeapInOrder
  BY DEF IInv
<1> QED
  BY <1>1, TimersInvariant, PTL

LEMMA RunsTheFirstStep ==
    IInv /\ [Next]_vars =>
        (ran' # ran =>
         /\ ran'.expiry <= now
         /\ \A t \in queue : ran'.expiry <= t.expiry
         /\ queue \ {ran'} \subseteq queue'
         /\ ran' \notin queue'
         /\ ran'.frequent => \E t \in queue' : t.id = ran'.id /\ t.expiry > now)
<1> SUFFICES ASSUME IInv, Next, ran' # ran
             PROVE  /\ ran'.expiry <= now
                    /\ \A t \in queue : ran'.expiry <= t.expiry
                    /\ queue \ {ran'} \subseteq queue'
                    /\ ran' \notin queue'
                    /\ ran'.frequent => \E t \in queue' : t.id = ran'.id /\ t.expiry > now
  BY DEF vars
<1>1. Turn
  BY DEF Next, Clock, WaitNextPhase, StartHeartbeat, StopHeartbeat, RegisterTimer
<1>2. PICK new \in SUBSET Timer :
          /\ ProcessExpiryTimer(new)
          /\ new = {} \/ \E t \in new : new = {t} /\ t.expiry > now
  BY <1>1, TurnCases
<1> DEFINE left == (queue \cup new) \ {front}
<1>3. /\ front \in queue /\ front.expiry <= now
      /\ \A t \in queue : front.expiry <= t.expiry
      /\ IF front.frequent
         THEN queue' = left \cup {Again} /\ \E f \in Fronts(left) : front' = Pushed(f, Again)
         ELSE queue' = left /\ front' \in Fronts(left)
  BY <1>2, TurnTakesTheFront
<1>4. Again.id = front.id /\ Again.expiry > now /\ Again.expiry \in Nat /\ now \in Nat
  BY <1>3, AgainType, TimersAssumption DEF IInv, Timer, TypeOK
<1>5. Again # front
  BY <1>3, <1>4 DEF IInv, TypeOK, Timer
<1>6. ran' = front
  BY <1>2 DEF ProcessExpiryTimer
<1>7. queue' = left \/ (front.frequent /\ queue' = left \cup {Again})
  BY <1>3
<1>8. front.frequent => Again \in queue'
  BY <1>3
<1> HIDE DEF left
<1>9. queue \ {front} \subseteq queue' /\ front \notin queue'
  BY <1>5, <1>7 DEF left
<1> QED
  BY <1>3, <1>4, <1>6, <1>8, <1>9

\* process_expiry_timer: a turn runs the timer that expires first and takes off
\* that one only, although it takes off what is in front after the action.
THEOREM TurnsRunTheFirst == Spec => RunsTheFirst
<1>1. IInv /\ [Next]_vars =>
        [ran' # ran =>
         /\ ran'.expiry <= now
         /\ \A t \in queue : ran'.expiry <= t.expiry
         /\ queue \ {ran'} \subseteq queue'
         /\ ran' \notin queue'
         /\ ran'.frequent => \E t \in queue' : t.id = ran'.id /\ t.expiry > now]_vars
  BY RunsTheFirstStep
<1> QED
  BY <1>1, TimersInvariant, PTL DEF Spec, RunsTheFirst

=============================================================================
