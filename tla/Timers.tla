------------------------------- MODULE Timers -------------------------------
(***************************************************************************)
(* The timers of a worker (TimerManager in foundation/worker.cpp): a heap  *)
(* by time of expiry of which every turn of the worker runs at most one.   *)
(* Timers that run once are the timeouts of transactions, those that are   *)
(* removed the heartbeats of a client (HeartbeatManager of                 *)
(* client/core.cpp).                                                       *)
(*                                                                         *)
(* All of it is on the worker thread.  An action may register a timer, as  *)
(* on_error of a transaction that waits again would; none removes one.     *)
(***************************************************************************)
EXTENDS Naturals

CONSTANTS
    Intervals,      \* lengths of timers
    HeartbeatTime,  \* HEARTBEAT_PER_SEC
    MaxTimers,      \* bound: ids that are ever given
    MaxTime         \* bound: the clock stops there

ASSUME TimersAssumption ==
    /\ Intervals \subseteq Nat \ {0}
    /\ HeartbeatTime \in Nat \ {0}
    /\ MaxTimers \in Nat
    /\ MaxTime \in Nat

VARIABLES
    now,            \* current_precise_time()
    queue, front,   \* m_timer_queue: a heap, of which only the front is looked at
    nextId,         \* m_next_id
    heartbeat,      \* HeartbeatManager::m_timer_id
    ran,            \* the timer that ran last, as it was taken
    done            \* timers that ran or were removed

vars == <<now, queue, front, nextId, heartbeat, ran, done>>

Nothing == [id |-> 0, interval |-> 0, expiry |-> 0, frequent |-> FALSE]

-----------------------------------------------------------------------------
(* The heap.  TimerCompare puts a timer that expires first in front.           *)

\* What make_heap and pop_heap may leave in front.
Fronts(timers) ==
    IF timers = {} THEN {Nothing}
    ELSE {t \in timers : \A other \in timers : t.expiry <= other.expiry}

\* push_heap: a new timer rises past those that expire later, and no others.
Pushed(first, timer) ==
    IF first = Nothing \/ timer.expiry < first.expiry THEN timer ELSE first

Init ==
    /\ now = 0
    /\ queue = {}
    /\ front = Nothing
    /\ nextId = 1
    /\ heartbeat = 0
    /\ ran = Nothing
    /\ done = {}

-----------------------------------------------------------------------------
(* Handlers *)

NewTimer(interval, frequent) ==
    [id |-> nextId, interval |-> interval, expiry |-> now + interval, frequent |-> frequent]

\* Mutant of RegisterTimer: push_back without push_heap.
MutantRegisterTimerBehind(interval, frequent) ==
    /\ nextId <= MaxTimers
    /\ nextId' = nextId + 1
    /\ queue' = queue \cup {NewTimer(interval, frequent)}
    /\ front' = IF front = Nothing THEN NewTimer(interval, frequent) ELSE front
    /\ UNCHANGED <<now, ran, done>>
\* register_timer, without a delay of its own
RegisterTimer(interval, frequent) ==
    /\ nextId <= MaxTimers
    /\ nextId' = nextId + 1
    /\ queue' = queue \cup {NewTimer(interval, frequent)}
    /\ front' = Pushed(front, NewTimer(interval, frequent))
    /\ UNCHANGED <<now, ran, done>>

\* wait_next_phase of a handler
WaitNextPhase(interval) ==
    /\ RegisterTimer(interval, FALSE)
    /\ UNCHANGED heartbeat

\* Every answer to a login starts one; the one before is forgotten, not removed.
StartHeartbeat ==
    /\ RegisterTimer(HeartbeatTime, TRUE)
    /\ heartbeat' = nextId

\* stop_heartbeat and remove_timer
StopHeartbeat ==
    /\ \E t \in queue : t.id = heartbeat
    /\ queue' = {t \in queue : t.id # heartbeat}
    /\ front' \in Fronts(queue')
    /\ done' = done \cup {heartbeat}
    /\ UNCHANGED <<now, nextId, heartbeat, ran>>

-----------------------------------------------------------------------------
(* The turns of the worker *)

IsDue == front # Nothing /\ front.expiry <= now

\* Mutant of Again: the time of the next run is not moved.
MutantAgainAtOnce == front
\* The next run of a frequent timer counts from the end of this one.
Again == [front EXCEPT !.expiry = now + front.interval]

\* process_expiry_timer: the front is copied and its action run, which may register
\* the timer of new; then what is in front by now is taken off.
ProcessExpiryTimer(new) ==
    LET inFront == IF new = {} THEN front ELSE Pushed(front, CHOOSE t \in new : TRUE)
        left == (queue \cup new) \ {inFront}
    IN  /\ IsDue
        /\ ran' = front
        /\ done' = done \cup {front.id}
        /\ IF front.frequent
           THEN /\ queue' = left \cup {Again}
                /\ \E first \in Fronts(left) : front' = Pushed(first, Again)
           ELSE /\ queue' = left
                /\ front' \in Fronts(left)
        /\ UNCHANGED <<now, heartbeat>>

Turn ==
    \/ ProcessExpiryTimer({}) /\ UNCHANGED nextId
    \/ /\ nextId <= MaxTimers
       /\ \E i \in Intervals : ProcessExpiryTimer({NewTimer(i, FALSE)})
       /\ nextId' = nextId + 1

Clock ==
    /\ now < MaxTime
    /\ now' = now + 1
    /\ UNCHANGED <<queue, front, nextId, heartbeat, ran, done>>

Next ==
    \/ Turn
    \/ Clock
    \/ \E i \in Intervals : WaitNextPhase(i)
    \/ StartHeartbeat
    \/ StopHeartbeat

\* Time goes on, and so do the turns of the worker (Worker::run).
Spec == Init /\ [][Next]_vars /\ WF_vars(Turn) /\ WF_vars(Clock)

-----------------------------------------------------------------------------
(* Properties *)

Timer == [id : 1 .. MaxTimers, interval : Nat \ {0}, expiry : Nat, frequent : BOOLEAN]

\* Every variable holds values of its type.
TypeOK ==
    /\ now \in 0 .. MaxTime
    /\ queue \subseteq Timer
    /\ \A t \in queue : t.id < nextId
    /\ front \in queue \cup {Nothing}
    /\ nextId \in 1 .. MaxTimers + 1
    /\ heartbeat \in 0 .. MaxTimers
    /\ done \in SUBSET (1 .. MaxTimers)

\* The heap of TimerManager: what stands in front is the first to expire, whatever
\* was pushed, popped or removed.
HeapInOrder == front \in Fronts(queue)

\* The timer that a turn runs (process_expiry_timer) is the first to expire and not
\* early, and it alone is taken off, although the turn takes off what is in front
\* after the action: none is lost or run twice, and a frequent one is back.
RunsTheFirst ==
    [][ran' # ran =>
         /\ ran'.expiry <= now
         /\ \A t \in queue : ran'.expiry <= t.expiry
         /\ queue \ {ran'} \subseteq queue'
         /\ ran' \notin queue'
         /\ ran'.frequent => \E t \in queue' : t.id = ran'.id /\ t.expiry > now]_vars

\* Every timer whose time comes runs or is removed: a frequent one, however often
\* it is due (process_expiry_timer puts it back), does not keep the others waiting.
EveryTimerRuns ==
    \A i \in 1 .. MaxTimers :
        (\E t \in queue : t.id = i /\ t.expiry <= MaxTime) ~> (i \in done)
=============================================================================
