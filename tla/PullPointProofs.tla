-------------------------- MODULE PullPointProofs ---------------------------
(***************************************************************************)
(* Proofs about PullPoint for any number of subscriptions, emitters and    *)
(* clients.                                                                *)
(***************************************************************************)
EXTENDS PullPoint, SequenceTheorems, TLAPS

\* Concatenation of queues is associative.
LEMMA Associative ==
    ASSUME NEW x \in Seq(Nat), NEW y \in Seq(Nat), NEW z \in Seq(Nat)
    PROVE  (x \o y) \o z = x \o (y \o z)
OBVIOUS

\* A queue is what is taken off its front followed by what is left.
LEMMA QueueSplit ==
    ASSUME NEW q \in Seq(Nat), NEW n \in 0 .. Len(q)
    PROVE  /\ SubSeq(q, 1, n) \in Seq(Nat)
           /\ SubSeq(q, n + 1, Len(q)) \in Seq(Nat)
           /\ SubSeq(q, 1, n) \o SubSeq(q, n + 1, Len(q)) = q
<1>1. Len(q) \in Nat /\ \A i \in 1 .. Len(q) : q[i] \in Nat
  BY LenProperties, ElementOfSeq
<1>2. SubSeq(q, 1, n) \in Seq(Nat)
  BY <1>1, SubSeqProperties
<1>3. SubSeq(q, n + 1, Len(q)) \in Seq(Nat)
  BY <1>1, SubSeqProperties
<1>4. SubSeq(q, 1, n) \o SubSeq(q, n + 1, Len(q)) = SubSeq(q, 1, Len(q))
  <2>1. 1 \in 1 .. Len(q) + 1 /\ n \in 1 - 1 .. Len(q) /\ Len(q) \in n .. Len(q)
    BY <1>1
  <2>2. QED
    BY <2>1, ConcatAdjacentSubSeq
<1>5. SubSeq(q, 1, Len(q)) = q
  BY SubSeqFull
<1>6. QED
  BY <1>2, <1>3, <1>4, <1>5

\* The number of events PullMessages takes is within the queue.
LEMMA SmallerBound ==
    ASSUME NEW limit \in Limits, NEW q \in Seq(Nat)
    PROVE  Smaller(limit, Len(q)) \in 0 .. Len(q)
BY LimitsAssumption, LenProperties DEF Smaller

\* What TakeUpTo does to the subscription it is applied to.
LEMMA TakeEffect ==
    ASSUME TypeOK, NEW c \in Clients, NEW s \in Subs, NEW n \in 0 .. Len(queue[s]),
           TakeUpTo(c, s, n)
    PROVE  /\ queue' \in [Subs -> Seq(Nat)]
           /\ handed' \in [Subs -> Seq(Nat)]
           /\ pc' = [pc EXCEPT ![c] = "idle"]
           /\ \A t \in Subs : handed'[t] \o queue'[t] = handed[t] \o queue[t]
           /\ \A t \in Subs : queue[t] = <<>> => queue'[t] = <<>>
<1>1. queue[s] \in Seq(Nat) /\ handed[s] \in Seq(Nat)
  BY DEF TypeOK
<1> DEFINE front == SubSeq(queue[s], 1, n)
           rest  == SubSeq(queue[s], n + 1, Len(queue[s]))
<1>2. front \in Seq(Nat) /\ rest \in Seq(Nat) /\ front \o rest = queue[s]
  BY <1>1, QueueSplit
<1>3. /\ handed' = [handed EXCEPT ![s] = handed[s] \o front]
      /\ queue' = [queue EXCEPT ![s] = rest]
      /\ pc' = [pc EXCEPT ![c] = "idle"]
  BY DEF TakeUpTo
<1>4. handed[s] \o front \in Seq(Nat)
  BY <1>1, <1>2, ConcatProperties
<1>5. (handed[s] \o front) \o rest = handed[s] \o queue[s]
  <2>1. (handed[s] \o front) \o rest = handed[s] \o (front \o rest)
    BY <1>1, <1>2, Associative
  <2>2. QED
    BY <1>2, <2>1, Zenon
<1>6. queue[s] = <<>> => rest = <<>>
  <2>1. SUFFICES ASSUME queue[s] = <<>> PROVE rest = <<>>
    OBVIOUS
  <2>2. Len(queue[s]) = 0
    BY <2>1, EmptySeq
  <2>3. n \in Int /\ 0 < n + 1
    BY <2>2
  <2>4. QED
    BY <2>2, <2>3, SubSeqEmpty
<1> HIDE DEF front, rest
<1>7. queue' \in [Subs -> Seq(Nat)] /\ handed' \in [Subs -> Seq(Nat)]
  BY <1>2, <1>3, <1>4 DEF TypeOK
<1>8. ASSUME NEW t \in Subs
      PROVE  /\ handed'[t] \o queue'[t] = handed[t] \o queue[t]
             /\ queue[t] = <<>> => queue'[t] = <<>>
  <2>1. CASE t = s
    BY <2>1, <1>3, <1>5, <1>6 DEF TypeOK
  <2>2. CASE t # s
    BY <2>2, <1>3 DEF TypeOK
  <2>3. QED
    BY <2>1, <2>2
<1>9. QED
  BY <1>3, <1>7, <1>8

-----------------------------------------------------------------------------
\* Initially nothing has been created, enqueued or awaited.
LEMMA PullInvInit == Init => PullInv
<1> SUFFICES ASSUME Init PROVE PullInv
  OBVIOUS
<1>1. (CHOOSE s \in Subs : TRUE) \in Subs
  BY SubsAssumption
<1>2. 0 \in 0 .. PullLimit
  BY BoundAssumption
<1>3. << >> \in Seq(Nat)
  OBVIOUS
<1>4. TypeOK
  BY <1>1, <1>2, <1>3 DEF Init, TypeOK
<1>5. PulledOnceInOrder
  BY <1>3, ConcatEmptySeq DEF Init, PulledOnceInOrder
<1>6. Registered
  BY DEF Init, Registered
<1>7. QED
  BY <1>4, <1>5, <1>6 DEF PullInv

\* Every step keeps the types.
LEMMA TypeStep == TypeOK /\ [Next]_vars => TypeOK'
<1> SUFFICES ASSUME TypeOK, [Next]_vars PROVE TypeOK'
  OBVIOUS
<1> USE DEF table, emission, history
<1>1. ASSUME NEW s \in Subs, CreateSubscription(s) \/ Expire(s) PROVE TypeOK'
  BY <1>1 DEF TypeOK, CreateSubscription, Expire
<1>2. ASSUME Evict PROVE TypeOK'
  BY <1>2 DEF TypeOK, Evict
<1>3. ASSUME NEW e \in Emitters, BeginEmit(e) PROVE TypeOK'
  BY <1>3 DEF TypeOK, BeginEmit
<1>4. ASSUME NEW e \in Emitters, NEW s \in Subs, Enqueue(e, s) PROVE TypeOK'
  <2>1. event[e] \in Nat /\ queue[s] \in Seq(Nat) /\ sent[s] \in Seq(Nat)
    BY DEF TypeOK
  <2>2. Append(queue[s], event[e]) \in Seq(Nat) /\ Append(sent[s], event[e]) \in Seq(Nat)
    BY <2>1
  <2>3. QED
    BY <1>4, <2>2 DEF TypeOK, Enqueue
<1>5. ASSUME NEW e \in Emitters, Wake(e) PROVE TypeOK'
  BY <1>5 DEF TypeOK, Wake
<1>6. ASSUME NEW c \in Clients, NEW s \in Subs, Lookup(c, s) PROVE TypeOK'
  BY <1>6 DEF TypeOK, Lookup
<1>7. ASSUME NEW c \in Clients, DrainAtOnce(c) \/ DrainResumes(c) PROVE TypeOK'
  <2>1. sub[c] \in Subs /\ queue[sub[c]] \in Seq(Nat)
    BY DEF TypeOK
  <2>2. PICK limit \in Limits : TakeUpTo(c, sub[c], Smaller(limit, Len(queue[sub[c]])))
    BY <1>7 DEF DrainAtOnce, DrainResumes
  <2>3. /\ queue' \in [Subs -> Seq(Nat)] /\ handed' \in [Subs -> Seq(Nat)]
        /\ pc' = [pc EXCEPT ![c] = "idle"]
    BY <2>1, <2>2, SmallerBound, TakeEffect
  <2>4. QED
    BY <1>7, <2>3 DEF TypeOK, DrainAtOnce, DrainResumes
<1>8. ASSUME NEW c \in Clients, DrainWaits(c) PROVE TypeOK'
  <2>1. pull[c] + 1 \in 0 .. PullLimit /\ sub[c] \in Subs
    BY <1>8, BoundAssumption DEF TypeOK, DrainWaits
  <2>2. <<c, pull[c] + 1>> \in Channels
    BY <2>1 DEF Channels
  <2>3. QED
    BY <1>8, <2>1, <2>2 DEF TypeOK, DrainWaits
<1>9. ASSUME NEW c \in Clients,
             DrainTimesOut(c) \/ DrainWoken(c) \/ Renew(c) \/ Unsubscribe(c)
      PROVE  TypeOK'
  BY <1>9 DEF TypeOK, DrainTimesOut, DrainWoken, Renew, Unsubscribe
<1>10. ASSUME UNCHANGED vars PROVE TypeOK'
  BY <1>10 DEF TypeOK, vars
<1>11. QED
  BY <1>1, <1>2, <1>3, <1>4, <1>5, <1>6, <1>7, <1>8, <1>9, <1>10
     DEF Next, Emitting, Draining

\* Every step keeps the account of what was enqueued.
LEMMA OrderStep == PullInv /\ [Next]_vars => PulledOnceInOrder'
<1> SUFFICES ASSUME PullInv, [Next]_vars PROVE PulledOnceInOrder'
  OBVIOUS
<1> USE DEF PullInv, table, emission, history
<1>1. ASSUME UNCHANGED <<queue, sent, handed>> PROVE PulledOnceInOrder'
  BY <1>1 DEF PulledOnceInOrder
<1>2. ASSUME NEW e \in Emitters, NEW s \in Subs, Enqueue(e, s) PROVE PulledOnceInOrder'
  <2>1. SUFFICES ASSUME NEW t \in Subs PROVE sent'[t] = handed'[t] \o queue'[t]
    BY DEF PulledOnceInOrder
  <2>2. CASE t # s
    BY <1>2, <2>2 DEF Enqueue, TypeOK, PulledOnceInOrder
  <2>3. CASE t = s
    <3>1. /\ event[e] \in Nat /\ queue[s] \in Seq(Nat) /\ handed[s] \in Seq(Nat)
          /\ <<event[e]>> \in Seq(Nat)
      BY DEF TypeOK
    <3>2. sent'[s] = Append(sent[s], event[e]) /\ queue'[s] = Append(queue[s], event[e])
      BY <1>2 DEF Enqueue, TypeOK
    <3>3. sent[s] = handed[s] \o queue[s] /\ sent[s] \in Seq(Nat)
      BY DEF PulledOnceInOrder, TypeOK
    <3>4. Append(sent[s], event[e]) = (handed[s] \o queue[s]) \o <<event[e]>>
      BY <3>1, <3>3, AppendIsConcat
    <3>5. Append(queue[s], event[e]) = queue[s] \o <<event[e]>>
      BY <3>1, AppendIsConcat
    <3>6. (handed[s] \o queue[s]) \o <<event[e]>> = handed[s] \o (queue[s] \o <<event[e]>>)
      BY <3>1, Associative
    <3>7. handed'[s] = handed[s]
      BY <1>2 DEF Enqueue
    <3>8. QED
      BY <2>3, <3>2, <3>4, <3>5, <3>6, <3>7
  <2>4. QED
    BY <2>2, <2>3
<1>3. ASSUME NEW c \in Clients, DrainAtOnce(c) \/ DrainResumes(c) PROVE PulledOnceInOrder'
  <2>1. sub[c] \in Subs /\ queue[sub[c]] \in Seq(Nat)
    BY DEF TypeOK
  <2>2. PICK limit \in Limits : TakeUpTo(c, sub[c], Smaller(limit, Len(queue[sub[c]])))
    BY <1>3 DEF DrainAtOnce, DrainResumes
  <2>3. \A t \in Subs : handed'[t] \o queue'[t] = handed[t] \o queue[t]
    BY <2>1, <2>2, SmallerBound, TakeEffect
  <2>4. sent' = sent
    BY <1>3 DEF DrainAtOnce, DrainResumes
  <2>5. QED
    BY <2>3, <2>4 DEF PulledOnceInOrder
<1>4. QED
  BY <1>1, <1>2, <1>3
     DEF Next, vars, CreateSubscription, Expire, Evict, BeginEmit, Emitting, Wake, Lookup,
         DrainWaits, DrainTimesOut, Draining, DrainWoken, Renew, Unsubscribe

\* Every step keeps the channel of a waiting client where it will be closed.
LEMMA RegisteredStep == PullInv /\ [Next]_vars => Registered'
<1> SUFFICES ASSUME PullInv, [Next]_vars PROVE Registered'
  OBVIOUS
<1> USE DEF PullInv, table, emission, history
<1>1. ASSUME UNCHANGED <<queue, waiters, waking, closed, pc, sub, pull>> PROVE Registered'
  BY <1>1 DEF Registered, Channel
<1>2. ASSUME NEW e \in Emitters, NEW s \in Subs, Enqueue(e, s) PROVE Registered'
  <2>1. SUFFICES ASSUME NEW d \in Clients, pc[d] = "waiting"
        PROVE  \/ Channel(d) \in waiters'[sub[d]] /\ queue'[sub[d]] = <<>>
               \/ \E f \in Emitters : Channel(d) \in waking'[f]
               \/ Channel(d) \in closed'
    BY <1>2 DEF Enqueue, Registered, Channel
  <2>2. CASE Channel(d) \in waiters[sub[d]] /\ queue[sub[d]] = <<>>
    BY <1>2, <2>2 DEF Enqueue, TypeOK
  <2>3. CASE \E f \in Emitters : Channel(d) \in waking[f]
    BY <1>2, <2>3 DEF Enqueue, TypeOK
  <2>4. CASE Channel(d) \in closed
    BY <1>2, <2>4 DEF Enqueue
  <2>5. QED
    BY <2>1, <2>2, <2>3, <2>4 DEF Registered
<1>3. ASSUME NEW e \in Emitters, Wake(e) PROVE Registered'
  BY <1>3 DEF Wake, Registered, Channel, TypeOK
<1>4. ASSUME NEW c \in Clients, DrainAtOnce(c) \/ DrainResumes(c) PROVE Registered'
  <2>1. sub[c] \in Subs /\ queue[sub[c]] \in Seq(Nat)
    BY DEF TypeOK
  <2>2. PICK limit \in Limits : TakeUpTo(c, sub[c], Smaller(limit, Len(queue[sub[c]])))
    BY <1>4 DEF DrainAtOnce, DrainResumes
  <2>3. /\ \A t \in Subs : queue[t] = <<>> => queue'[t] = <<>>
        /\ pc' = [pc EXCEPT ![c] = "idle"]
    BY <2>1, <2>2, SmallerBound, TakeEffect
  <2>4. UNCHANGED <<waiters, closed, waking, sub, pull>>
    BY <1>4 DEF DrainAtOnce, DrainResumes
  <2>5. QED
    BY <2>3, <2>4 DEF Registered, Channel, TypeOK
<1>5. ASSUME NEW c \in Clients, DrainWaits(c) PROVE Registered'
  <2>1. SUFFICES ASSUME NEW d \in Clients, pc'[d] = "waiting"
        PROVE  \/ Channel(d)' \in waiters'[sub[d]] /\ queue'[sub[d]] = <<>>
               \/ \E f \in Emitters : Channel(d)' \in waking'[f]
               \/ Channel(d)' \in closed'
    BY <1>5 DEF DrainWaits, Registered
  <2>2. CASE d = c
    BY <1>5, <2>2 DEF DrainWaits, TypeOK, Channel
  <2>3. CASE d # c
    <3>1. pc[d] = "waiting" /\ Channel(d)' = Channel(d) /\ sub[d] \in Subs
      BY <1>5, <2>1, <2>3 DEF DrainWaits, TypeOK, Channel
    <3>2. waiters[sub[d]] \subseteq waiters'[sub[d]]
      BY <1>5, <3>1 DEF DrainWaits, TypeOK
    <3>3. UNCHANGED <<queue, waking, closed>>
      BY <1>5 DEF DrainWaits
    <3>4. QED
      BY <3>1, <3>2, <3>3 DEF Registered
  <2>4. QED
    BY <2>2, <2>3
<1>6. ASSUME NEW c \in Clients,
             \/ DrainTimesOut(c) \/ DrainWoken(c) \/ Renew(c) \/ Unsubscribe(c)
             \/ \E s \in Subs : Lookup(c, s)
      PROVE  Registered'
  <2>1. pc'[c] # "waiting"
    BY <1>6 DEF DrainTimesOut, DrainWoken, Renew, Unsubscribe, Lookup, TypeOK
  <2>2. \A d \in Clients \ {c} : pc'[d] = pc[d] /\ sub'[d] = sub[d]
    BY <1>6 DEF DrainTimesOut, DrainWoken, Renew, Unsubscribe, Lookup, TypeOK
  <2>3. UNCHANGED <<queue, waiters, waking, closed, pull>>
    BY <1>6 DEF DrainTimesOut, DrainWoken, Renew, Unsubscribe, Lookup
  <2>4. QED
    BY <2>1, <2>2, <2>3 DEF Registered, Channel
<1>7. QED
  BY <1>1, <1>2, <1>3, <1>4, <1>5, <1>6
     DEF Next, vars, CreateSubscription, Expire, Evict, BeginEmit, Emitting, Draining

\* The inductive invariant of the PullPoint subscriptions.
THEOREM PullInvariant == Spec => []PullInv
<1>1. Init => PullInv
  BY PullInvInit
<1>2. PullInv /\ [Next]_vars => PullInv'
  BY TypeStep, OrderStep, RegisteredStep DEF PullInv
<1>3. QED
  BY <1>1, <1>2, PTL DEF Spec

\* For any number of subscriptions, emitters and clients, every event enqueued for a
\* subscription is handed out once and in order.
THEOREM PulledOnceInOrderCorrect == Spec => []PulledOnceInOrder
BY PullInvariant, PTL DEF PullInv

\* For any number of subscriptions, emitters and clients, no client sleeps on a queue
\* that is not empty.
THEOREM NoLostWakeupCorrect == Spec => []NoLostWakeup
<1>1. PullInv => NoLostWakeup
  BY DEF PullInv, Registered, NoLostWakeup
<1>2. QED
  BY <1>1, PullInvariant, PTL
=============================================================================
