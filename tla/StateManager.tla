---------------------------- MODULE StateManager ----------------------------
(***************************************************************************)
(* The state board every other part of the bridge talks through            *)
(* (pkg/baby/state_manager.go, pkg/baby/state.go).                         *)
(*                                                                         *)
(* Goroutines ("writers") call Update with a partial state of one baby.    *)
(* The merge happens under stateMutex; the subscribers are notified after  *)
(* it has been released, so two writers may notify in the opposite order   *)
(* of their stores.  Each subscriber owns a bounded queue and one worker   *)
(* goroutine that runs its callback on one event at a time.  A new         *)
(* subscriber is registered first and then primed, under the read lock,    *)
(* with the whole state of every known baby.                               *)
(*                                                                         *)
(* log, the "at" of a cell and view are history: log lists the updates in  *)
(* the order of their stores, "at" is the position in it of the store that *)
(* wrote a cell, and view is what the callback of a subscriber was last    *)
(* told about each field (for MQTT: the retained topic of the field).      *)
(***************************************************************************)
EXTENDS Naturals, Sequences, FiniteSets

CONSTANTS
    Babies,        \* baby UIDs
    Fields,        \* the pointer fields of baby.State
    Values,        \* the values a field may point to
    Nil,           \* the nil pointer
    Writers,       \* goroutines that call Update
    Subscribers,   \* callers of Subscribe
    Slow,          \* subscribers whose callback may block for good
    Scope,         \* Scope[w]: the <<baby, field>> pairs writer w updates
    QueueCap,      \* capacity of a subscriber's queue (64 in the code)
    UpdateLimit    \* bound on the number of stores explored

ASSUME BabyAssumption  == Babies # {}
ASSUME NilAssumption   == Nil \notin Values
ASSUME QueueAssumption == QueueCap \in Nat \ {0}
ASSUME LimitAssumption == UpdateLimit \in Nat
ASSUME SlowAssumption  == Slow \subseteq Subscribers
ASSUME ScopeAssumption == Scope \in [Writers -> SUBSET (Babies \X Fields)]

VARIABLES
    board,     \* babiesByUID
    known,     \* the keys of babiesByUID
    log,       \* history: the updates stored, in order
    pc,        \* where each writer is inside Update
    job,       \* the event each writer is publishing
    targets,   \* the workers slice of notifySubscribers still to be served
    phase,     \* progress of Subscribe and of the unsubscribe function
    toPrime,   \* priming events not yet enqueued
    queue,     \* worker.queue
    dropped,   \* worker.dropped
    calling,   \* the event the callback is running on, as a sequence of 0 or 1
    exited,    \* the worker goroutine has returned
    view       \* history: the last cell each callback was given, per field

vars == <<board, known, log, pc, job, targets, phase, toPrime, queue, dropped,
          calling, exited, view>>

-----------------------------------------------------------------------------
Cell   == [val : Values \cup {Nil}, at : Nat]
Unset  == [val |-> Nil, at |-> 0]
State  == [Fields -> Cell]
NewState == [f \in Fields |-> Unset]
Event  == [baby : Babies, upd : State]

Touches(e, b, f) == e.baby = b /\ e.upd[f].val # Nil

\* Non-nil fields of the argument replace those of the state.
Merge(st, u) == [f \in Fields |-> IF u[f].val = Nil THEN st[f] ELSE u[f]]

\* Some non-nil field differs from the stored one.
Changes(st, u) == \E f \in Fields : u[f].val # Nil /\ u[f].val # st[f].val

\* The partial states writer w may pass for baby b, stamped with the next
\* position of the log.
PartialStates(w, b) ==
    {[f \in Fields |-> IF v[f] = Nil THEN Unset
                                     ELSE [val |-> v[f], at |-> Len(log) + 1]] :
        v \in {v \in [Fields -> Values \cup {Nil}] :
                  \A f \in Fields : v[f] # Nil => <<b, f>> \in Scope[w]}}

\* Mutant: Subscribe primes the callback without the read lock.
NoLock == TRUE

\* No subscriber is inside the read-locked section of Subscribe.
StateLockFree == \A s \in Subscribers : phase[s] # "priming"

\* The keys of the subscribers map.
Registered == {s \in Subscribers : phase[s] \in {"registered", "priming", "subscribed"}}

\* worker.done is closed.
DoneClosed(s) == phase[s] = "closed"

\* Mutant: the queue accepts one event too many.
RoomForOneMore(s) == Len(queue[s]) <= QueueCap

HasRoom(s) == Len(queue[s]) < QueueCap

\* Mutant: a plain send, which waits for room.
PutBlocking(s, e) ==
    \/ /\ HasRoom(s)
       /\ queue' = [queue EXCEPT ![s] = Append(@, e)]
       /\ UNCHANGED dropped
    \/ /\ DoneClosed(s)
       /\ UNCHANGED <<queue, dropped>>

\* The select of enqueue: send if there is room, give up if done is closed
\* (either, when both are ready), otherwise count a drop.
Put(s, e) ==
    \/ /\ HasRoom(s)
       /\ queue' = [queue EXCEPT ![s] = Append(@, e)]
       /\ UNCHANGED dropped
    \/ /\ DoneClosed(s)
       /\ UNCHANGED <<queue, dropped>>
    \/ /\ ~HasRoom(s) /\ ~DoneClosed(s)
       /\ dropped' = [dropped EXCEPT ![s] = @ + 1]
       /\ UNCHANGED queue

-----------------------------------------------------------------------------
Init ==
    /\ board = [b \in Babies |-> NewState]
    /\ known = {}
    /\ log = <<>>
    /\ pc = [w \in Writers |-> "idle"]
    /\ job = [w \in Writers |-> [baby |-> CHOOSE b \in Babies : TRUE, upd |-> NewState]]
    /\ targets = [w \in Writers |-> {}]
    /\ phase = [s \in Subscribers |-> "none"]
    /\ toPrime = [s \in Subscribers |-> {}]
    /\ queue = [s \in Subscribers |-> <<>>]
    /\ dropped = [s \in Subscribers |-> 0]
    /\ calling = [s \in Subscribers |-> <<>>]
    /\ exited = [s \in Subscribers |-> FALSE]
    /\ view = [s \in Subscribers |-> [b \in Babies |-> NewState]]

\* Update, under stateMutex.  An update of a known baby that changes nothing
\* returns early and is a stuttering step.
Store(w, b) ==
    /\ pc[w] = "idle"
    /\ StateLockFree
    /\ Len(log) < UpdateLimit
    /\ \E u \in PartialStates(w, b) :
          LET e == [baby |-> b, upd |-> u] IN
          /\ b \in known => Changes(board[b], u)
          /\ board' = [board EXCEPT ![b] = Merge(@, u)]
          /\ log' = Append(log, e)
          /\ job' = [job EXCEPT ![w] = e]
    /\ known' = known \cup {b}
    /\ pc' = [pc EXCEPT ![w] = "stored"]
    /\ UNCHANGED <<targets, phase, toPrime, queue, dropped, calling, exited, view>>

\* notifySubscribers copies the subscribers map under its own lock.
Snapshot(w) ==
    /\ pc[w] = "stored"
    /\ targets' = [targets EXCEPT ![w] = Registered]
    /\ pc' = [pc EXCEPT ![w] = "notifying"]
    /\ UNCHANGED <<board, known, log, job, phase, toPrime, queue, dropped, calling,
                   exited, view>>

\* notifySubscribers serves the copy, in map order, with no lock held.
Enqueue(w, s) ==
    /\ pc[w] = "notifying"
    /\ s \in targets[w]
    /\ Put(s, job[w])
    /\ targets' = [targets EXCEPT ![w] = @ \ {s}]
    /\ UNCHANGED <<board, known, log, pc, job, phase, toPrime, calling, exited, view>>

\* Update returns to its caller.
Return(w) ==
    /\ pc[w] = "notifying"
    /\ targets[w] = {}
    /\ pc' = [pc EXCEPT ![w] = "idle"]
    /\ UNCHANGED <<board, known, log, job, targets, phase, toPrime, queue, dropped,
                   calling, exited, view>>

\* Subscribe: the worker is started and put into the subscribers map.
Subscribe(s) ==
    /\ phase[s] = "none"
    /\ phase' = [phase EXCEPT ![s] = "registered"]
    /\ UNCHANGED <<board, known, log, pc, job, targets, toPrime, queue, dropped, calling,
                   exited, view>>

\* Subscribe takes the read lock and ranges over the states.
BeginPriming(s) ==
    /\ phase[s] = "registered"
    /\ phase' = [phase EXCEPT ![s] = "priming"]
    /\ toPrime' = [toPrime EXCEPT ![s] = {[baby |-> b, upd |-> board[b]] : b \in known}]
    /\ UNCHANGED <<board, known, log, pc, job, targets, queue, dropped, calling, exited, view>>

Prime(s) ==
    /\ phase[s] = "priming"
    /\ \E e \in toPrime[s] :
          /\ Put(s, e)
          /\ toPrime' = [toPrime EXCEPT ![s] = @ \ {e}]
    /\ UNCHANGED <<board, known, log, pc, job, targets, phase, calling, exited, view>>

\* Subscribe releases the read lock and returns the unsubscribe function.
EndPriming(s) ==
    /\ phase[s] = "priming"
    /\ toPrime[s] = {}
    /\ phase' = [phase EXCEPT ![s] = "subscribed"]
    /\ UNCHANGED <<board, known, log, pc, job, targets, toPrime, queue, dropped, calling,
                   exited, view>>

\* The unsubscribe function: out of the map first, done closed afterwards.
Unsubscribe(s) ==
    /\ phase[s] = "subscribed"
    /\ phase' = [phase EXCEPT ![s] = "removed"]
    /\ UNCHANGED <<board, known, log, pc, job, targets, toPrime, queue, dropped, calling,
                   exited, view>>

\* Mutant: the unsubscribe function forgets to close done.
ForgetDone(s) ==
    /\ phase[s] = "removed"
    /\ UNCHANGED vars

CloseDone(s) ==
    /\ phase[s] = "removed"
    /\ phase' = [phase EXCEPT ![s] = "closed"]
    /\ UNCHANGED <<board, known, log, pc, job, targets, toPrime, queue, dropped, calling,
                   exited, view>>

\* The worker goroutine takes an event; it may also do so after done is closed.
Receive(s) ==
    /\ ~exited[s]
    /\ calling[s] = <<>>
    /\ queue[s] # <<>>
    /\ calling' = [calling EXCEPT ![s] = <<Head(queue[s])>>]
    /\ queue' = [queue EXCEPT ![s] = Tail(@)]
    /\ UNCHANGED <<board, known, log, pc, job, targets, phase, toPrime, dropped, exited, view>>

\* The callback runs to its end.
Callback(s) ==
    /\ calling[s] # <<>>
    /\ LET e == calling[s][1] IN view' = [view EXCEPT ![s][e.baby] = Merge(@, e.upd)]
    /\ calling' = [calling EXCEPT ![s] = <<>>]
    /\ UNCHANGED <<board, known, log, pc, job, targets, phase, toPrime, queue, dropped, exited>>

\* Mutant: the worker returns when its queue runs dry.
ExitWhenDry(s) ==
    /\ ~exited[s]
    /\ calling[s] = <<>>
    /\ queue[s] = <<>>
    /\ exited' = [exited EXCEPT ![s] = TRUE]
    /\ UNCHANGED <<board, known, log, pc, job, targets, phase, toPrime, queue, dropped,
                   calling, view>>

\* The worker goroutine returns once it selects the closed done channel.
Exit(s) ==
    /\ ~exited[s]
    /\ calling[s] = <<>>
    /\ DoneClosed(s)
    /\ exited' = [exited EXCEPT ![s] = TRUE]
    /\ UNCHANGED <<board, known, log, pc, job, targets, phase, toPrime, queue, dropped,
                   calling, view>>

WriterStep(w) == Snapshot(w) \/ (\E s \in Subscribers : Enqueue(w, s)) \/ Return(w)

SubscribeStep(s) == BeginPriming(s) \/ Prime(s) \/ EndPriming(s) \/ CloseDone(s)

WorkerStep(s) == Receive(s) \/ Callback(s) \/ Exit(s)

Next ==
    \/ \E w \in Writers, b \in Babies : Store(w, b)
    \/ \E w \in Writers : WriterStep(w)
    \/ \E s \in Subscribers :
          Subscribe(s) \/ SubscribeStep(s) \/ Unsubscribe(s) \/ WorkerStep(s)

Spec == Init /\ [][Next]_vars

\* Goroutines that have started a call finish it: none of these steps waits for
\* anything but a lock held for a bounded time.  Callbacks return, except those of
\* the slow subscribers.  Nobody is obliged to call Update, Subscribe or the
\* unsubscribe function.
Fairness ==
    /\ \A w \in Writers : WF_vars(WriterStep(w))
    /\ \A s \in Subscribers : WF_vars(SubscribeStep(s))
    /\ \A s \in Subscribers \ Slow : WF_vars(WorkerStep(s))

FairSpec == Spec /\ Fairness

-----------------------------------------------------------------------------
(* Properties                                                              *)

Stages == {"none", "registered", "priming", "subscribed", "removed", "closed"}

\* Every variable has its type; in particular a queue never exceeds its capacity.
TypeOK ==
    /\ board \in [Babies -> State]
    /\ known \subseteq Babies
    /\ log \in Seq(Event)
    /\ pc \in [Writers -> {"idle", "stored", "notifying"}]
    /\ job \in [Writers -> Event]
    /\ targets \in [Writers -> SUBSET Subscribers]
    /\ phase \in [Subscribers -> Stages]
    /\ toPrime \in [Subscribers -> SUBSET Event]
    /\ queue \in [Subscribers -> Seq(Event)]
    /\ \A s \in Subscribers : Len(queue[s]) <= QueueCap
    /\ dropped \in [Subscribers -> Nat]
    /\ calling \in [Subscribers -> Seq(Event)]
    /\ \A s \in Subscribers : Len(calling[s]) <= 1
    /\ exited \in [Subscribers -> BOOLEAN]
    /\ view \in [Subscribers -> [Babies -> State]]

\* Each field of each baby is updated by one goroutine only.
SingleWriter == \A v, w \in Writers : v # w => Scope[v] \cap Scope[w] = {}

\* Writer w has stored a value of the field and still owes it to subscriber s.
Owes(w, s, b, f) ==
    /\ Touches(job[w], b, f)
    /\ \/ pc[w] = "stored"
       \/ pc[w] = "notifying" /\ s \in targets[w]

\* What subscriber s has not been told yet, oldest first.
Pipeline(s) == calling[s] \o queue[s]

\* A subscriber that lost no event, to which no writer owes the field and whose
\* pipeline does not mention it, has been told the value on the board: the
\* "last-known value" the MQTT topics retain (Update, Subscribe, enqueue).
CaughtUp ==
    \A s \in Subscribers, b \in Babies, f \in Fields :
        (/\ phase[s] = "subscribed"
         /\ dropped[s] = 0
         /\ \A w \in Writers : ~Owes(w, s, b, f)
         /\ \A i \in 1 .. Len(Pipeline(s)) : ~Touches(Pipeline(s)[i], b, f))
        => view[s][b][f].val = board[b][f].val

\* The retained topics must be the last-known values, whoever
\* updates the field (mqtt.go: "HA subscribers pick up the last-known value").
RetainedIsLastKnown == CaughtUp

\* A callback is never given an older value of a field than one it has already
\* been given, drops and priming included.
NeverBackwards ==
    [][\A s \in Subscribers, b \in Babies, f \in Fields :
          view'[s][b][f].at >= view[s][b][f].at]_vars

\* StateManager implements StateFeed: a callback reads the log of stores forwards.
Feed == INSTANCE StateFeed

FeedRefinement == Feed!FeedSpec

\* As long as nothing is dropped for a subscriber and it stays, every value on the
\* board reaches its callback unless it is overwritten first, even when the callback
\* of another subscriber blocks (the comment on subscriberWorker).
EventuallySeen ==
    \A s \in Subscribers \ Slow, b \in Babies, f \in Fields, v \in Values :
        (phase[s] = "subscribed" /\ board[b][f].val = v)
            ~> \/ view[s][b][f].val = v
               \/ board[b][f].val # v
               \/ phase[s] # "subscribed"
               \/ dropped[s] > 0

\* Update always returns to the goroutine that called it, even when the queue of a
\* blocked subscriber is full.
UpdateReturns == \A w \in Writers : (pc[w] # "idle") ~> (pc[w] = "idle")

\* The worker goroutine of a subscriber that leaves does not leak, whatever is still
\* queued or being enqueued for it.
WorkerStops ==
    \A s \in Subscribers \ Slow : (phase[s] = "removed") ~> exited[s]

-----------------------------------------------------------------------------
(* The strengthening of CaughtUp that every step preserves (SingleWriter).  *)

\* A sequence of undelivered events ends up showing x for the field, if v is what is
\* shown before the first of them.
EndsWith(q, v, b, f, x) ==
    \/ \E i \in 1 .. Len(q) :
          /\ Touches(q[i], b, f)
          /\ q[i].upd[f].val = x
          /\ \A j \in 1 .. Len(q) : j > i => ~Touches(q[j], b, f)
    \/ /\ \A j \in 1 .. Len(q) : ~Touches(q[j], b, f)
       /\ v = x

\* Inside Update, the goroutine's event is still what the board says.
JobCurrent ==
    \A w \in Writers, b \in Babies, f \in Fields :
        pc[w] # "idle" /\ Touches(job[w], b, f)
            => /\ <<b, f>> \in Scope[w]
               /\ board[b][f].val = job[w].upd[f].val

\* Under the read lock, what is left to prime is still what the board says.
PrimingCurrent ==
    \A s \in Subscribers :
        phase[s] = "priming" => \A e \in toPrime[s] : e.upd = board[e.baby]

\* Only babies in the map have fields that are set.
KnownSet ==
    \A b \in Babies, f \in Fields : board[b][f].val # Nil => b \in known

\* Nothing but what is or was on the board is on its way to a callback.
Sourced ==
    \A b \in Babies, f \in Fields :
        board[b][f].val = Nil =>
            /\ \A w \in Writers : ~Touches(job[w], b, f)
            /\ \A s \in Subscribers :
                  /\ \A e \in toPrime[s] : ~Touches(e, b, f)
                  /\ \A i \in 1 .. Len(Pipeline(s)) : ~Touches(Pipeline(s)[i], b, f)
                  /\ view[s][b][f].val = Nil

\* Subscriber s is past the priming of baby b.
Primed(s, b) ==
    \/ phase[s] = "subscribed"
    \/ phase[s] = "priming" /\ \A e \in toPrime[s] : e.baby # b

\* A primed subscriber that lost nothing and is owed nothing is going to end up with
\* the value on the board.
WillCatchUp ==
    \A s \in Subscribers, b \in Babies, f \in Fields :
        (/\ Primed(s, b)
         /\ dropped[s] = 0
         /\ board[b][f].val # Nil
         /\ \A w \in Writers : ~Owes(w, s, b, f))
        => EndsWith(Pipeline(s), view[s][b][f].val, b, f, board[b][f].val)

CatchUpInv ==
    /\ TypeOK
    /\ JobCurrent
    /\ PrimingCurrent
    /\ KnownSet
    /\ Sourced
    /\ WillCatchUp

-----------------------------------------------------------------------------
(* Why StateManager implements StateFeed (SingleWriter).                    *)

\* The event touches a field with a cell that is in the log.
Logged(e) == \A f \in Fields : e.upd[f].val # Nil => Feed!InLog(e.upd[f], e.baby, f)

\* Inside Update, the goroutine's cells are still those of the board, which are in the log.
CellsCurrent ==
    /\ \A b \in Babies : Logged([baby |-> b, upd |-> board[b]])
    /\ \A b \in Babies, f \in Fields : board[b][f].at <= Len(log)
    /\ \A w \in Writers, f \in Fields :
          pc[w] # "idle" /\ job[w].upd[f].val # Nil => job[w].upd[f] = board[job[w].baby][f]

\* What is on its way to a callback is in the log, ...
OnlyLogged ==
    \A s \in Subscribers :
        /\ \A i \in 1 .. Len(calling[s]) : Logged(calling[s][i])
        /\ \A i \in 1 .. Len(queue[s]) : Logged(queue[s][i])

\* ... is not older than what the callback was given and not newer than the board, ...
Between ==
    \A s \in Subscribers, b \in Babies, f \in Fields :
        /\ view[s][b][f].at <= board[b][f].at
        /\ \A i \in 1 .. Len(calling[s]) :
              Touches(calling[s][i], b, f) =>
                  calling[s][i].upd[f].at \in view[s][b][f].at .. board[b][f].at
        /\ \A i \in 1 .. Len(queue[s]) :
              Touches(queue[s][i], b, f) =>
                  queue[s][i].upd[f].at \in view[s][b][f].at .. board[b][f].at

\* ... and comes in the order of the log.
InOrder ==
    \A s \in Subscribers, b \in Babies, f \in Fields :
        /\ \A i \in 1 .. Len(calling[s]), j \in 1 .. Len(queue[s]) :
              Touches(calling[s][i], b, f) /\ Touches(queue[s][j], b, f) =>
                  calling[s][i].upd[f].at <= queue[s][j].upd[f].at
        /\ \A i, j \in 1 .. Len(queue[s]) :
              i < j /\ Touches(queue[s][i], b, f) /\ Touches(queue[s][j], b, f) =>
                  queue[s][i].upd[f].at <= queue[s][j].upd[f].at

FeedInv == TypeOK /\ JobCurrent /\ PrimingCurrent /\ CellsCurrent /\ OnlyLogged /\ Between /\ InOrder
=============================================================================
