----------------------------- MODULE PullPoint ------------------------------
(***************************************************************************)
(* The ONVIF PullPoint subscriptions (pkg/onvif/events.go): the table of   *)
(* subscriptions, their queues, and the long poll of PullMessages.         *)
(*                                                                         *)
(* Emitters are the goroutines that call EventManager.emit: the worker of  *)
(* the state subscription and the timers that clear an event.  Clients are *)
(* the goroutines of HTTP requests; each looks the subscription up first   *)
(* and goes on with the pointer, whether or not the subscription is still  *)
(* in the table.  A waiter channel is named by the client and the number   *)
(* of its pull: after a timeout it stays in the list of waiters.           *)
(*                                                                         *)
(* sent and handed are history: what was enqueued for a subscription and   *)
(* what PullMessages took out of it, in order.                             *)
(***************************************************************************)
EXTENDS Naturals, Sequences

CONSTANTS
    Subs,       \* subscription ids
    Emitters,   \* goroutines that call emit
    Clients,    \* goroutines that serve PullMessages, Renew and Unsubscribe
    Limits,     \* values of MessageLimit
    EmitLimit,  \* bound on the events explored
    PullLimit   \* bound on the pulls of each client

ASSUME SubsAssumption   == Subs # {}
ASSUME LimitsAssumption == Limits \subseteq Nat \ {0}
ASSUME BoundAssumption  == EmitLimit \in Nat /\ PullLimit \in Nat

VARIABLES
    subs,      \* the keys of EventManager.subs
    unused,    \* ids not drawn yet
    expired,   \* subscriptions whose terminateAt has passed
    queue,     \* subscription.queue
    waiters,   \* subscription.waiters
    closed,    \* the channels that have been closed
    emitted,   \* number of events so far, which names them
    event,     \* the event each emitter is distributing
    todo,      \* the subscriptions still to be served by it; {} when idle
    waking,    \* the channels taken off a list of waiters and not yet closed
    pc,        \* progress of each client
    sub,       \* the subscription it has looked up
    pull,      \* number of its pulls
    sent, handed

vars == <<subs, unused, expired, queue, waiters, closed, emitted, event, todo, waking,
          pc, sub, pull, sent, handed>>

table    == <<subs, unused, expired>>
emission == <<emitted, event, todo, waking>>
history  == <<sent, handed>>

-----------------------------------------------------------------------------
Channel(c) == <<c, pull[c]>>

Channels == Clients \X (0 .. PullLimit)

Smaller(m, n) == IF m < n THEN m ELSE n

Init ==
    /\ subs = {}
    /\ unused = Subs
    /\ expired = {}
    /\ queue = [s \in Subs |-> <<>>]
    /\ waiters = [s \in Subs |-> {}]
    /\ closed = {}
    /\ emitted = 0
    /\ event = [e \in Emitters |-> 0]
    /\ todo = [e \in Emitters |-> {}]
    /\ waking = [e \in Emitters |-> {}]
    /\ pc = [c \in Clients |-> "idle"]
    /\ sub = [c \in Clients |-> CHOOSE s \in Subs : TRUE]
    /\ pull = [c \in Clients |-> 0]
    /\ sent = [s \in Subs |-> <<>>]
    /\ handed = [s \in Subs |-> <<>>]

(* The table                                                               *)

CreateSubscription(s) ==
    /\ s \in unused
    /\ unused' = unused \ {s}
    /\ subs' = subs \cup {s}
    /\ UNCHANGED <<expired, queue, waiters, closed, emission, pc, sub, pull, history>>

\* Time passes terminateAt.
Expire(s) ==
    /\ s \notin unused \cup expired
    /\ expired' = expired \cup {s}
    /\ UNCHANGED <<subs, unused, queue, waiters, closed, emission, pc, sub, pull, history>>

\* The janitor reads the clock and then takes the lock: it evicts what had expired by
\* its tick and has not been renewed since.
Evict ==
    /\ \E gone \in (SUBSET (subs \cap expired)) \ {{}} : subs' = subs \ gone
    /\ UNCHANGED <<unused, expired, queue, waiters, closed, emission, pc, sub, pull, history>>

(* emit                                                                    *)

\* A copy of the table is taken under the read lock.
BeginEmit(e) ==
    /\ todo[e] = {}
    /\ waking[e] = {}
    /\ emitted < EmitLimit
    /\ emitted' = emitted + 1
    /\ event' = [event EXCEPT ![e] = emitted + 1]
    /\ todo' = [todo EXCEPT ![e] = subs]
    /\ UNCHANGED <<table, queue, waiters, closed, waking, pc, sub, pull, history>>

\* Mutant: only one waiter is taken off the list, as a signal instead of a broadcast.
EnqueueSignal(e, s) ==
    /\ waking[e] = {}
    /\ s \in todo[e]
    /\ queue' = [queue EXCEPT ![s] = Append(@, event[e])]
    /\ sent' = [sent EXCEPT ![s] = Append(@, event[e])]
    /\ \E w \in SUBSET waiters[s] :
          /\ waiters[s] # {} => \E c \in waiters[s] : w = {c}
          /\ waking' = [waking EXCEPT ![e] = w]
          /\ waiters' = [waiters EXCEPT ![s] = @ \ w]
    /\ todo' = [todo EXCEPT ![e] = @ \ {s}]
    /\ UNCHANGED <<table, closed, emitted, event, pc, sub, pull, handed>>

\* Mutant: the waiters are never told.
EnqueueQuietly(e, s) ==
    /\ waking[e] = {}
    /\ s \in todo[e]
    /\ queue' = [queue EXCEPT ![s] = Append(@, event[e])]
    /\ sent' = [sent EXCEPT ![s] = Append(@, event[e])]
    /\ todo' = [todo EXCEPT ![e] = @ \ {s}]
    /\ UNCHANGED <<table, waiters, waking, closed, emitted, event, pc, sub, pull, handed>>

\* enqueue, under the lock of the subscription.
Enqueue(e, s) ==
    /\ waking[e] = {}
    /\ s \in todo[e]
    /\ queue' = [queue EXCEPT ![s] = Append(@, event[e])]
    /\ sent' = [sent EXCEPT ![s] = Append(@, event[e])]
    /\ waking' = [waking EXCEPT ![e] = waiters[s]]
    /\ waiters' = [waiters EXCEPT ![s] = {}]
    /\ todo' = [todo EXCEPT ![e] = @ \ {s}]
    /\ UNCHANGED <<table, closed, emitted, event, pc, sub, pull, handed>>

\* The channels taken off the list are closed one by one, without the lock.
Wake(e) ==
    /\ \E w \in waking[e] :
          /\ closed' = closed \cup {w}
          /\ waking' = [waking EXCEPT ![e] = @ \ {w}]
    /\ UNCHANGED <<table, queue, waiters, emitted, event, todo, pc, sub, pull, history>>

(* HandleSubscription                                                      *)

Lookup(c, s) ==
    /\ pc[c] = "idle"
    /\ s \in subs
    /\ sub' = [sub EXCEPT ![c] = s]
    /\ pc' = [pc EXCEPT ![c] = "found"]
    /\ UNCHANGED <<table, queue, waiters, closed, emission, pull, history>>

\* Takes up to n events off the queue and answers the request.
TakeUpTo(c, s, n) ==
    /\ handed' = [handed EXCEPT ![s] = @ \o SubSeq(queue[s], 1, n)]
    /\ queue' = [queue EXCEPT ![s] = SubSeq(@, n + 1, Len(@))]
    /\ pc' = [pc EXCEPT ![c] = "idle"]

\* drain, first part: there are events, or the client does not want to wait.
DrainAtOnce(c) ==
    /\ pc[c] = "found"
    /\ \E limit \in Limits :
          LET s == sub[c] IN TakeUpTo(c, s, Smaller(limit, Len(queue[s])))
    /\ UNCHANGED <<table, waiters, closed, emission, sub, pull, sent>>

\* drain, first part: the queue is empty, a channel joins the waiters.
DrainWaits(c) ==
    /\ pc[c] = "found"
    /\ queue[sub[c]] = <<>>
    /\ pull[c] < PullLimit
    /\ pull' = [pull EXCEPT ![c] = @ + 1]
    /\ waiters' = [waiters EXCEPT ![sub[c]] = @ \cup {<<c, pull[c] + 1>>}]
    /\ pc' = [pc EXCEPT ![c] = "waiting"]
    /\ UNCHANGED <<table, queue, closed, emission, sub, history>>

DrainWoken(c) ==
    /\ pc[c] = "waiting"
    /\ Channel(c) \in closed
    /\ pc' = [pc EXCEPT ![c] = "resumed"]
    /\ UNCHANGED <<table, queue, waiters, closed, emission, sub, pull, history>>

DrainTimesOut(c) ==
    /\ pc[c] = "waiting"
    /\ pc' = [pc EXCEPT ![c] = "resumed"]
    /\ UNCHANGED <<table, queue, waiters, closed, emission, sub, pull, history>>

\* Mutant: what exceeds the limit is thrown away.
DrainResumesAll(c) ==
    /\ pc[c] = "resumed"
    /\ \E limit \in Limits :
          LET s == sub[c] IN
          /\ handed' = [handed EXCEPT ![s] = @ \o SubSeq(queue[s], 1, Smaller(limit, Len(queue[s])))]
          /\ queue' = [queue EXCEPT ![s] = <<>>]
    /\ pc' = [pc EXCEPT ![c] = "idle"]
    /\ UNCHANGED <<table, waiters, closed, emission, sub, pull, sent>>

\* drain, second part, with the lock again: another client may have been faster.
DrainResumes(c) ==
    /\ pc[c] = "resumed"
    /\ \E limit \in Limits :
          LET s == sub[c] IN TakeUpTo(c, s, Smaller(limit, Len(queue[s])))
    /\ UNCHANGED <<table, waiters, closed, emission, sub, pull, sent>>

Renew(c) ==
    /\ pc[c] = "found"
    /\ expired' = expired \ {sub[c]}
    /\ pc' = [pc EXCEPT ![c] = "idle"]
    /\ UNCHANGED <<subs, unused, queue, waiters, closed, emission, sub, pull, history>>

Unsubscribe(c) ==
    /\ pc[c] = "found"
    /\ subs' = subs \ {sub[c]}
    /\ pc' = [pc EXCEPT ![c] = "idle"]
    /\ UNCHANGED <<unused, expired, queue, waiters, closed, emission, sub, pull, history>>

-----------------------------------------------------------------------------
Emitting(e) == (\E s \in Subs : Enqueue(e, s)) \/ Wake(e)

Draining(c) == DrainWoken(c) \/ DrainResumes(c)

Next ==
    \/ \E s \in Subs : CreateSubscription(s) \/ Expire(s)
    \/ Evict
    \/ \E e \in Emitters : BeginEmit(e) \/ Emitting(e)
    \/ \E c \in Clients :
          \/ \E s \in Subs : Lookup(c, s)
          \/ DrainAtOnce(c) \/ DrainWaits(c) \/ DrainTimesOut(c) \/ Draining(c)
          \/ Renew(c) \/ Unsubscribe(c)

Spec == Init /\ [][Next]_vars

\* A goroutine inside emit or drain goes on.  The timeouts of the clients are left out:
\* what is delivered must not depend on them.
Fairness ==
    /\ \A e \in Emitters : WF_vars(Emitting(e))
    /\ \A c \in Clients : WF_vars(Draining(c))

FairSpec == Spec /\ Fairness

-----------------------------------------------------------------------------
(* Properties                                                              *)

\* Every variable has its type.
TypeOK ==
    /\ subs \subseteq Subs
    /\ unused \subseteq Subs
    /\ expired \subseteq Subs
    /\ queue \in [Subs -> Seq(Nat)]
    /\ waiters \in [Subs -> SUBSET Channels]
    /\ closed \subseteq Channels
    /\ emitted \in Nat
    /\ event \in [Emitters -> Nat]
    /\ todo \in [Emitters -> SUBSET Subs]
    /\ waking \in [Emitters -> SUBSET Channels]
    /\ pc \in [Clients -> {"idle", "found", "waiting", "resumed"}]
    /\ sub \in [Clients -> Subs]
    /\ pull \in [Clients -> 0 .. PullLimit]
    /\ sent \in [Subs -> Seq(Nat)]
    /\ handed \in [Subs -> Seq(Nat)]

\* Whatever was enqueued for a subscription is handed out exactly once and in order,
\* however many clients pull at the same time and whatever their limits.
PulledOnceInOrder ==
    \A s \in Subs : sent[s] = handed[s] \o queue[s]

\* A client that is waiting, and has not been told, waits for an empty queue, unless an
\* emitter is about to tell it: no event is slept through.
NoLostWakeup ==
    \A c \in Clients :
        (pc[c] = "waiting" /\ Channel(c) \notin closed)
            => \/ queue[sub[c]] = <<>>
               \/ \E e \in Emitters : Channel(c) \in waking[e]

\* An event that arrives at a subscription a client is waiting on ends the wait without
\* the help of the timeout.
EventEndsWait ==
    \A c \in Clients :
        (pc[c] = "waiting" /\ queue[sub[c]] # <<>>) ~> (pc[c] # "waiting")

-----------------------------------------------------------------------------
(* The strengthening of NoLostWakeup that every step preserves.             *)

\* The channel of a waiting client is in the list of its subscription, or about to be
\* closed, or closed.
Registered ==
    \A c \in Clients :
        pc[c] = "waiting" =>
            \/ Channel(c) \in waiters[sub[c]] /\ queue[sub[c]] = <<>>
            \/ \E e \in Emitters : Channel(c) \in waking[e]
            \/ Channel(c) \in closed

PullInv == TypeOK /\ PulledOnceInOrder /\ Registered
=============================================================================
