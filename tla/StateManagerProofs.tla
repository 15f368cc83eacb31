------------------------- MODULE StateManagerProofs -------------------------
(***************************************************************************)
(* Proofs about StateManager, for any sets of babies, fields, values,      *)
(* writers and subscribers, any queue capacity and any number of updates.  *)
(***************************************************************************)
EXTENDS StateManager, TLAPS

\* The partial states a writer passes to Update are states.
LEMMA PartialStatesType ==
    ASSUME NEW w \in Writers, NEW b \in Babies, log \in Seq(Event),
           NEW u \in PartialStates(w, b)
    PROVE  u \in State
<1>1. Len(log) + 1 \in Nat
  OBVIOUS
<1>2. PICK v \in [Fields -> Values \cup {Nil}] :
         u = [f \in Fields |-> IF v[f] = Nil THEN Unset
                                             ELSE [val |-> v[f], at |-> Len(log) + 1]]
  BY DEF PartialStates
<1>3. ASSUME NEW f \in Fields
      PROVE  (IF v[f] = Nil THEN Unset ELSE [val |-> v[f], at |-> Len(log) + 1]) \in Cell
  <2>1. v[f] \in Values \cup {Nil}
    BY <1>2
  <2>2. QED
    BY <1>1, <2>1 DEF Cell, Unset
<1>4. QED
  BY <1>2, <1>3 DEF State

\* Merging two states gives a state.
LEMMA MergeType ==
    ASSUME NEW st \in State, NEW u \in State
    PROVE  Merge(st, u) \in State
BY DEF Merge, State

\* A Put leaves the queues and the drop counters well-typed and within capacity.
LEMMA PutType ==
    ASSUME TypeOK, NEW s \in Subscribers, NEW e \in Event, Put(s, e)
    PROVE  /\ queue' \in [Subscribers -> Seq(Event)]
           /\ \A t \in Subscribers : Len(queue'[t]) <= QueueCap
           /\ dropped' \in [Subscribers -> Nat]
<1>1. CASE HasRoom(s) /\ queue' = [queue EXCEPT ![s] = Append(@, e)] /\ UNCHANGED dropped
  BY <1>1, QueueAssumption DEF TypeOK, HasRoom
<1>2. CASE UNCHANGED queue /\ dropped' = [dropped EXCEPT ![s] = @ + 1]
  BY <1>2 DEF TypeOK
<1>3. CASE UNCHANGED <<queue, dropped>>
  BY <1>3 DEF TypeOK
<1>4. QED
  BY <1>1, <1>2, <1>3 DEF Put

\* The initial state is well-typed.
LEMMA InitTypeOK == Init => TypeOK
<1>1. Unset \in Cell
  BY DEF Unset, Cell
<1>2. NewState \in State
  BY <1>1 DEF NewState, State
<1>3. (CHOOSE b \in Babies : TRUE) \in Babies
  BY BabyAssumption
<1>4. QED
  BY <1>2, <1>3, QueueAssumption DEF Init, TypeOK, Event, Stages

\* Every step keeps the types.
LEMMA NextTypeOK == TypeOK /\ [Next]_vars => TypeOK'
<1> SUFFICES ASSUME TypeOK, [Next]_vars PROVE TypeOK'
  OBVIOUS
<1>1. ASSUME NEW w \in Writers, NEW b \in Babies, Store(w, b) PROVE TypeOK'
  <2>1. PICK u \in PartialStates(w, b) :
          /\ board' = [board EXCEPT ![b] = Merge(@, u)]
          /\ log' = Append(log, [baby |-> b, upd |-> u])
          /\ job' = [job EXCEPT ![w] = [baby |-> b, upd |-> u]]
    BY <1>1 DEF Store
  <2>2. u \in State
    BY PartialStatesType DEF TypeOK
  <2>3. [baby |-> b, upd |-> u] \in Event
    BY <2>2 DEF Event
  <2>4. board' \in [Babies -> State]
    BY <2>1, <2>2, MergeType DEF TypeOK
  <2>5. log' \in Seq(Event) /\ job' \in [Writers -> Event]
    BY <2>1, <2>3 DEF TypeOK
  <2>6. QED
    BY <1>1, <2>4, <2>5 DEF TypeOK, Store
<1>2. ASSUME NEW w \in Writers, Snapshot(w) PROVE TypeOK'
  BY <1>2 DEF TypeOK, Snapshot, Registered
<1>3. ASSUME NEW w \in Writers, NEW s \in Subscribers, Enqueue(w, s) PROVE TypeOK'
  <2>1. job[w] \in Event
    BY DEF TypeOK
  <2>2. /\ queue' \in [Subscribers -> Seq(Event)]
        /\ \A t \in Subscribers : Len(queue'[t]) <= QueueCap
        /\ dropped' \in [Subscribers -> Nat]
    BY <1>3, <2>1, PutType DEF Enqueue
  <2>3. QED
    BY <1>3, <2>2 DEF TypeOK, Enqueue
<1>4. ASSUME NEW w \in Writers, Return(w) PROVE TypeOK'
  BY <1>4 DEF TypeOK, Return
<1>5. ASSUME NEW s \in Subscribers, Subscribe(s) PROVE TypeOK'
  BY <1>5 DEF TypeOK, Subscribe, Stages
<1>6. ASSUME NEW s \in Subscribers, BeginPriming(s) PROVE TypeOK'
  <2>1. {[baby |-> b, upd |-> board[b]] : b \in known} \in SUBSET Event
    BY DEF TypeOK, Event
  <2>2. QED
    BY <1>6, <2>1 DEF TypeOK, BeginPriming, Stages
<1>7. ASSUME NEW s \in Subscribers, Prime(s) PROVE TypeOK'
  <2>1. PICK e \in toPrime[s] :
           Put(s, e) /\ toPrime' = [toPrime EXCEPT ![s] = @ \ {e}]
    BY <1>7 DEF Prime
  <2>2. e \in Event
    BY DEF TypeOK
  <2>3. /\ queue' \in [Subscribers -> Seq(Event)]
        /\ \A t \in Subscribers : Len(queue'[t]) <= QueueCap
        /\ dropped' \in [Subscribers -> Nat]
    BY <2>1, <2>2, PutType
  <2>4. QED
    BY <1>7, <2>1, <2>3 DEF TypeOK, Prime
<1>8. ASSUME NEW s \in Subscribers, EndPriming(s) PROVE TypeOK'
  BY <1>8 DEF TypeOK, EndPriming, Stages
<1>9. ASSUME NEW s \in Subscribers, Unsubscribe(s) PROVE TypeOK'
  BY <1>9 DEF TypeOK, Unsubscribe, Stages
<1>10. ASSUME NEW s \in Subscribers, CloseDone(s) PROVE TypeOK'
  BY <1>10 DEF TypeOK, CloseDone, Stages
<1>11. ASSUME NEW s \in Subscribers, Receive(s) PROVE TypeOK'
  <2>1. Head(queue[s]) \in Event /\ Tail(queue[s]) \in Seq(Event)
    BY <1>11 DEF TypeOK, Receive
  <2>2. Len(Tail(queue[s])) <= QueueCap
    BY <1>11, QueueAssumption DEF TypeOK, Receive
  <2>3. QED
    BY <1>11, <2>1, <2>2 DEF TypeOK, Receive
<1>12. ASSUME NEW s \in Subscribers, Callback(s) PROVE TypeOK'
  <2>1. calling[s][1] \in Event
    BY <1>12 DEF TypeOK, Callback
  <2>2. Merge(view[s][calling[s][1].baby], calling[s][1].upd) \in State
    BY <2>1, MergeType DEF TypeOK, Event
  <2>3. view' \in [Subscribers -> [Babies -> State]]
    BY <1>12, <2>1, <2>2 DEF TypeOK, Callback, Event
  <2>4. QED
    BY <1>12, <2>3 DEF TypeOK, Callback
<1>13. ASSUME NEW s \in Subscribers, Exit(s) PROVE TypeOK'
  BY <1>13 DEF TypeOK, Exit
<1>14. CASE UNCHANGED vars
  BY <1>14 DEF TypeOK, vars
<1>15. QED
  BY <1>1, <1>2, <1>3, <1>4, <1>5, <1>6, <1>7, <1>8, <1>9, <1>10, <1>11, <1>12, <1>13,
     <1>14 DEF Next, WriterStep, SubscribeStep, WorkerStep

\* Every variable keeps its type and no queue ever exceeds its capacity, however the
\* goroutines of Update, Subscribe and the workers interleave.
THEOREM TypeCorrect == Spec => []TypeOK
BY InitTypeOK, NextTypeOK, PTL DEF Spec

-----------------------------------------------------------------------------
(* What appending to and taking from a sequence of events does to the value *)
(* it ends with.                                                            *)

\* An event that does not mention the field does not change what the sequence ends with.
LEMMA AppendOther ==
    ASSUME NEW q \in Seq(Event), NEW e \in Event, NEW v, NEW b, NEW f, NEW x,
           ~Touches(e, b, f), EndsWith(q, v, b, f, x)
    PROVE  EndsWith(Append(q, e), v, b, f, x)
<1>1. /\ Len(Append(q, e)) = Len(q) + 1
      /\ \A i \in 1 .. Len(q) : Append(q, e)[i] = q[i]
      /\ Append(q, e)[Len(q) + 1] = e
  OBVIOUS
<1> DEFINE r == Append(q, e)
<1>2. \A j \in 1 .. Len(r) : j \in 1 .. Len(q) \/ j = Len(q) + 1
  BY <1>1
<1>3. CASE \A j \in 1 .. Len(q) : ~Touches(q[j], b, f)
  <2>1. \A j \in 1 .. Len(r) : ~Touches(r[j], b, f)
    BY <1>1, <1>2, <1>3
  <2>2. v = x
    BY <1>3 DEF EndsWith
  <2>3. QED
    BY <2>1, <2>2 DEF EndsWith
<1>4. CASE \E i \in 1 .. Len(q) : /\ Touches(q[i], b, f)
                                  /\ q[i].upd[f].val = x
                                  /\ \A j \in 1 .. Len(q) : j > i => ~Touches(q[j], b, f)
  <2>1. PICK i \in 1 .. Len(q) : /\ Touches(q[i], b, f)
                                 /\ q[i].upd[f].val = x
                                 /\ \A j \in 1 .. Len(q) : j > i => ~Touches(q[j], b, f)
    BY <1>4
  <2>2. i \in 1 .. Len(r) /\ r[i] = q[i]
    BY <1>1
  <2>3. \A j \in 1 .. Len(r) : j > i => ~Touches(r[j], b, f)
    BY <1>1, <1>2, <2>1
  <2> HIDE DEF r
  <2>4. EndsWith(r, v, b, f, x)
    BY <2>1, <2>2, <2>3 DEF EndsWith
  <2>5. QED
    BY <2>4 DEF r
<1>5. QED
  BY <1>3, <1>4 DEF EndsWith

\* Appending an event that sets the field makes its value the last one.
LEMMA AppendSame ==
    ASSUME NEW q \in Seq(Event), NEW e \in Event, NEW v, NEW b, NEW f,
           Touches(e, b, f)
    PROVE  EndsWith(Append(q, e), v, b, f, e.upd[f].val)
<1> DEFINE r == Append(q, e)
           n == Len(q) + 1
<1>1. n \in 1 .. Len(r) /\ r[n] = e /\ Len(r) = n
  OBVIOUS
<1>2. \A j \in 1 .. Len(r) : ~(j > n)
  BY <1>1
<1> HIDE DEF r, n
<1>3. EndsWith(r, v, b, f, e.upd[f].val)
  BY <1>1, <1>2 DEF EndsWith
<1>4. QED
  BY <1>3 DEF r

\* Showing the oldest event leaves what the sequence ends with.
LEMMA TakeFirst ==
    ASSUME NEW e \in Event, NEW q \in Seq(Event), NEW v, NEW b, NEW f, NEW x,
           EndsWith(<<e>> \o q, v, b, f, x)
    PROVE  EndsWith(q, IF Touches(e, b, f) THEN e.upd[f].val ELSE v, b, f, x)
<1> DEFINE p == <<e>> \o q
           v2 == IF Touches(e, b, f) THEN e.upd[f].val ELSE v
<1>1. /\ Len(p) = Len(q) + 1
      /\ p[1] = e
      /\ \A j \in 1 .. Len(q) : j + 1 \in 1 .. Len(p) /\ p[j + 1] = q[j]
      /\ \A j \in 1 .. Len(p) : j = 1 \/ j - 1 \in 1 .. Len(q)
  OBVIOUS
<1> HIDE DEF p, v2
<1>2. EndsWith(p, v, b, f, x)
  BY DEF p
<1>3. CASE \A j \in 1 .. Len(p) : ~Touches(p[j], b, f)
  <2>1. \A j \in 1 .. Len(q) : ~Touches(q[j], b, f)
    BY <1>1, <1>3
  <2>2. v = x
    BY <1>2, <1>3 DEF EndsWith
  <2>3. ~Touches(e, b, f)
    BY <1>1, <1>3
  <2>4. EndsWith(q, v2, b, f, x)
    BY <2>1, <2>2, <2>3 DEF EndsWith, v2
  <2>5. QED
    BY <2>4 DEF v2
<1>4. CASE \E i \in 1 .. Len(p) : /\ Touches(p[i], b, f)
                                  /\ p[i].upd[f].val = x
                                  /\ \A j \in 1 .. Len(p) : j > i => ~Touches(p[j], b, f)
  <2>1. PICK i \in 1 .. Len(p) : /\ Touches(p[i], b, f)
                                 /\ p[i].upd[f].val = x
                                 /\ \A j \in 1 .. Len(p) : j > i => ~Touches(p[j], b, f)
    BY <1>4
  <2>2. CASE i = 1
    <3>1. \A j \in 1 .. Len(q) : ~Touches(q[j], b, f)
      BY <1>1, <2>1, <2>2
    <3>2. v2 = x
      BY <1>1, <2>1, <2>2 DEF v2
    <3>3. EndsWith(q, v2, b, f, x)
      BY <3>1, <3>2 DEF EndsWith
    <3>4. QED
      BY <3>3 DEF v2
  <2>3. CASE i # 1
    <3>1. i - 1 \in 1 .. Len(q) /\ q[i - 1] = p[i]
      BY <1>1, <2>3
    <3>2. \A j \in 1 .. Len(q) : j > i - 1 => ~Touches(q[j], b, f)
      BY <1>1, <2>1, <2>3
    <3>3. EndsWith(q, v2, b, f, x)
      BY <2>1, <3>1, <3>2 DEF EndsWith
    <3>4. QED
      BY <3>3 DEF v2
  <2>4. QED
    BY <2>2, <2>3
<1>5. QED
  BY <1>2, <1>3, <1>4 DEF EndsWith

-----------------------------------------------------------------------------
(* The steps that touch the pipelines.                                      *)

\* What a subscriber has not been told yet is a sequence of events.
LEMMA PipelineType ==
    ASSUME TypeOK, NEW s \in Subscribers
    PROVE  Pipeline(s) \in Seq(Event)
BY DEF Pipeline, TypeOK

\* A Put either appends to the pipeline, or loses the event and counts it, or finds
\* the subscriber gone; other pipelines are not concerned.
LEMMA PutPipeline ==
    ASSUME TypeOK, NEW s \in Subscribers, NEW e \in Event, Put(s, e), UNCHANGED calling
    PROVE  /\ \A t \in Subscribers \ {s} :
                 Pipeline(t)' = Pipeline(t) /\ dropped'[t] = dropped[t]
           /\ \/ Pipeline(s)' = Append(Pipeline(s), e) /\ dropped'[s] = dropped[s]
              \/ Pipeline(s)' = Pipeline(s) /\ dropped'[s] > 0
              \/ Pipeline(s)' = Pipeline(s) /\ dropped'[s] = dropped[s] /\ DoneClosed(s)
<1>1. CASE HasRoom(s) /\ queue' = [queue EXCEPT ![s] = Append(@, e)] /\ UNCHANGED dropped
  <2>1. \A t \in Subscribers \ {s} : queue'[t] = queue[t]
    BY <1>1 DEF TypeOK
  <2>2. calling[s] \o Append(queue[s], e) = Append(calling[s] \o queue[s], e)
    BY DEF TypeOK
  <2>3. queue'[s] = Append(queue[s], e)
    BY <1>1 DEF TypeOK
  <2>4. QED
    BY <1>1, <2>1, <2>2, <2>3 DEF Pipeline
<1>2. CASE ~HasRoom(s) /\ ~DoneClosed(s) /\ UNCHANGED queue
           /\ dropped' = [dropped EXCEPT ![s] = @ + 1]
  <2>1. \A t \in Subscribers \ {s} : dropped'[t] = dropped[t]
    BY <1>2 DEF TypeOK
  <2>2. dropped'[s] > 0
    BY <1>2 DEF TypeOK
  <2>3. QED
    BY <1>2, <2>1, <2>2 DEF Pipeline
<1>3. CASE DoneClosed(s) /\ UNCHANGED <<queue, dropped>>
  BY <1>3 DEF Pipeline
<1>4. QED
  BY <1>1, <1>2, <1>3 DEF Put

\* Receive moves the oldest event from the queue to the callback.
LEMMA ReceivePipeline ==
    ASSUME TypeOK, NEW s \in Subscribers, Receive(s), NEW t \in Subscribers
    PROVE  Pipeline(t)' = Pipeline(t)
<1>1. CASE t = s
  <2>1. <<Head(queue[s])>> \o Tail(queue[s]) = <<>> \o queue[s]
    BY DEF TypeOK, Receive
  <2>2. queue'[s] = Tail(queue[s]) /\ calling'[s] = <<Head(queue[s])>> /\ calling[s] = <<>>
    BY DEF TypeOK, Receive
  <2>3. QED
    BY <1>1, <2>1, <2>2 DEF Pipeline
<1>2. CASE t # s
  BY <1>2 DEF TypeOK, Receive, Pipeline
<1>3. QED
  BY <1>1, <1>2

\* Callback takes the oldest event out of the pipeline and merges it into the view.
LEMMA CallbackPipeline ==
    ASSUME TypeOK, NEW s \in Subscribers, Callback(s)
    PROVE  /\ \A t \in Subscribers \ {s} : Pipeline(t)' = Pipeline(t) /\ view'[t] = view[t]
           /\ calling[s][1] \in Event
           /\ Pipeline(s) = <<calling[s][1]>> \o Pipeline(s)'
           /\ Pipeline(s)' \in Seq(Event)
           /\ \A b \in Babies, f \in Fields :
                 view'[s][b][f] = IF Touches(calling[s][1], b, f)
                                  THEN calling[s][1].upd[f] ELSE view[s][b][f]
<1> DEFINE e == calling[s][1]
<1>1. calling[s] = <<e>> /\ e \in Event
  BY DEF TypeOK, Callback
<1>2. calling'[s] = <<>> /\ \A t \in Subscribers \ {s} : calling'[t] = calling[t]
  BY DEF TypeOK, Callback
<1>3. queue' = queue /\ queue[s] \in Seq(Event)
  BY DEF TypeOK, Callback
<1>4. <<>> \o queue[s] = queue[s]
  BY <1>3
<1>5. view' = [view EXCEPT ![s][e.baby] = Merge(@, e.upd)]
  BY DEF Callback
<1>6. \A b \in Babies, f \in Fields :
         view'[s][b][f] = IF Touches(e, b, f) THEN e.upd[f] ELSE view[s][b][f]
  <2> SUFFICES ASSUME NEW b \in Babies, NEW f \in Fields
               PROVE  view'[s][b][f] = IF Touches(e, b, f) THEN e.upd[f] ELSE view[s][b][f]
    OBVIOUS
  <2>1. CASE b = e.baby
    BY <1>5, <2>1 DEF TypeOK, Merge, Touches
  <2>2. CASE b # e.baby
    BY <1>5, <2>2 DEF TypeOK, Touches
  <2>3. QED
    BY <2>1, <2>2
<1>7. QED
  BY <1>1, <1>2, <1>3, <1>4, <1>5, <1>6 DEF Pipeline, TypeOK

-----------------------------------------------------------------------------
(* Each conjunct of CatchUpInv is preserved.                                *)

\* What Store does to the board, to the job of its writer and to the priming sets.
LEMMA StoreEffect ==
    ASSUME TypeOK, NEW w \in Writers, NEW b \in Babies, Store(w, b)
    PROVE  /\ job'[w] \in Event /\ job'[w].baby = b
           /\ \A v \in Writers \ {w} : job'[v] = job[v] /\ pc'[v] = pc[v]
           /\ pc[w] = "idle" /\ pc'[w] = "stored"
           /\ \A f \in Fields : Touches(job'[w], b, f) => <<b, f>> \in Scope[w]
           /\ \A c \in Babies, f \in Fields :
                 board'[c][f] = IF Touches(job'[w], c, f) THEN job'[w].upd[f]
                                                         ELSE board[c][f]
<1>1. PICK u \in PartialStates(w, b) :
        /\ board' = [board EXCEPT ![b] = Merge(@, u)]
        /\ job' = [job EXCEPT ![w] = [baby |-> b, upd |-> u]]
  BY DEF Store
<1>2. u \in State
  BY PartialStatesType DEF TypeOK
<1>3. job'[w] = [baby |-> b, upd |-> u] /\ job'[w] \in Event
  BY <1>1, <1>2 DEF TypeOK, Event
<1>4. \A v \in Writers \ {w} : job'[v] = job[v] /\ pc'[v] = pc[v]
  BY <1>1 DEF TypeOK, Store
<1>5. \A f \in Fields : u[f].val # Nil => <<b, f>> \in Scope[w]
  <2>1. PICK v \in [Fields -> Values \cup {Nil}] :
           /\ \A f \in Fields : v[f] # Nil => <<b, f>> \in Scope[w]
           /\ u = [f \in Fields |-> IF v[f] = Nil THEN Unset
                                                  ELSE [val |-> v[f], at |-> Len(log) + 1]]
    BY DEF PartialStates
  <2>2. QED
    BY <2>1 DEF Unset
<1>6. \A c \in Babies, f \in Fields :
         board'[c][f] = IF c = b /\ u[f].val # Nil THEN u[f] ELSE board[c][f]
  BY <1>1 DEF TypeOK, Merge
<1>7. QED
  BY <1>3, <1>4, <1>5, <1>6 DEF Store, TypeOK, Touches

\* Between its store and its return a goroutine keeps publishing what is on the board:
\* only a writer of the same field could change it.
LEMMA JobCurrentStep ==
    ASSUME SingleWriter, TypeOK, JobCurrent, [Next]_vars
    PROVE  JobCurrent'
<1>1. ASSUME NEW w \in Writers, NEW b \in Babies, Store(w, b) PROVE JobCurrent'
  <2> SUFFICES ASSUME NEW v \in Writers, NEW c \in Babies, NEW f \in Fields,
                      pc'[v] # "idle", Touches(job'[v], c, f)
               PROVE  <<c, f>> \in Scope[v] /\ board'[c][f].val = job'[v].upd[f].val
    BY DEF JobCurrent, Touches
  <2>1. CASE v = w
    BY <1>1, <2>1, StoreEffect DEF Touches
  <2>2. CASE v # w
    <3>1. <<c, f>> \in Scope[v] /\ board[c][f].val = job[v].upd[f].val /\ job'[v] = job[v]
      BY <1>1, <2>2, StoreEffect DEF JobCurrent
    <3>2. ~Touches(job'[w], c, f)
      BY <1>1, <2>2, <3>1, StoreEffect DEF SingleWriter, Touches
    <3>3. QED
      BY <1>1, <3>1, <3>2, StoreEffect
  <2>3. QED
    BY <2>1, <2>2
<1>2. ASSUME NEW w \in Writers, Snapshot(w) \/ Return(w) PROVE JobCurrent'
  BY <1>2 DEF JobCurrent, Snapshot, Return, TypeOK, Touches
<1>3. ASSUME UNCHANGED <<board, pc, job>> PROVE JobCurrent'
  BY <1>3 DEF JobCurrent, Touches
<1>4. QED
  BY <1>1, <1>2, <1>3 DEF Next, vars, WriterStep, SubscribeStep, WorkerStep, Enqueue,
     Subscribe, BeginPriming, Prime, EndPriming, Unsubscribe, CloseDone, Receive,
     Callback, Exit

\* Nothing is stored while the read lock is held.
LEMMA PrimingCurrentStep ==
    ASSUME TypeOK, PrimingCurrent, [Next]_vars
    PROVE  PrimingCurrent'
<1>1. ASSUME NEW w \in Writers, NEW b \in Babies, Store(w, b) PROVE PrimingCurrent'
  BY <1>1 DEF PrimingCurrent, Store, StateLockFree
<1>2. ASSUME NEW s \in Subscribers, BeginPriming(s) PROVE PrimingCurrent'
  <2>1. \A e \in toPrime'[s] : e.upd = board[e.baby]
    BY <1>2 DEF BeginPriming, TypeOK
  <2>2. \A t \in Subscribers \ {s} : toPrime'[t] = toPrime[t] /\ phase'[t] = phase[t]
    BY <1>2 DEF BeginPriming, TypeOK
  <2>3. QED
    BY <1>2, <2>1, <2>2 DEF PrimingCurrent, BeginPriming
<1>3. ASSUME NEW s \in Subscribers, Prime(s) PROVE PrimingCurrent'
  BY <1>3 DEF PrimingCurrent, Prime, TypeOK
<1>4. ASSUME NEW s \in Subscribers,
             Subscribe(s) \/ EndPriming(s) \/ Unsubscribe(s) \/ CloseDone(s)
      PROVE  PrimingCurrent'
  BY <1>4 DEF PrimingCurrent, Subscribe, EndPriming, Unsubscribe, CloseDone, TypeOK
<1>5. ASSUME UNCHANGED <<board, phase, toPrime>> PROVE PrimingCurrent'
  BY <1>5 DEF PrimingCurrent
<1>6. QED
  BY <1>1, <1>2, <1>3, <1>4, <1>5 DEF Next, vars, WriterStep, SubscribeStep, WorkerStep,
     Snapshot, Enqueue, Return, Receive, Callback, Exit

\* A field is set by a store, which adds the baby to the map.
LEMMA KnownSetStep ==
    ASSUME TypeOK, KnownSet, [Next]_vars
    PROVE  KnownSet'
<1>1. ASSUME NEW w \in Writers, NEW b \in Babies, Store(w, b) PROVE KnownSet'
  <2>1. known' = known \cup {b}
    BY <1>1 DEF Store
  <2>2. \A c \in Babies \ {b}, f \in Fields : board'[c][f] = board[c][f]
    BY <1>1, StoreEffect DEF Touches
  <2>3. QED
    BY <2>1, <2>2 DEF KnownSet
<1>2. ASSUME UNCHANGED <<board, known>> PROVE KnownSet'
  BY <1>2 DEF KnownSet
<1>3. QED
  BY <1>1, <1>2 DEF Next, vars, WriterStep, SubscribeStep, WorkerStep, Snapshot, Enqueue,
     Return, Subscribe, BeginPriming, Prime, EndPriming, Unsubscribe, CloseDone, Receive,
     Callback, Exit

\* The Sourced facts about one subscriber.
SourcedFor(s, b, f) ==
    /\ \A e \in toPrime[s] : ~Touches(e, b, f)
    /\ \A i \in 1 .. Len(Pipeline(s)) : ~Touches(Pipeline(s)[i], b, f)
    /\ view[s][b][f].val = Nil

\* A Put of an event that does not mention a field keeps it out of every pipeline.
LEMMA PutSourced ==
    ASSUME TypeOK, NEW s \in Subscribers, NEW e \in Event, Put(s, e), UNCHANGED calling,
           NEW b, NEW f, ~Touches(e, b, f), NEW t \in Subscribers,
           \A i \in 1 .. Len(Pipeline(t)) : ~Touches(Pipeline(t)[i], b, f)
    PROVE  \A i \in 1 .. Len(Pipeline(t)') : ~Touches(Pipeline(t)'[i], b, f)
<1>1. CASE Pipeline(t)' = Pipeline(t)
  BY <1>1
<1>2. CASE t = s /\ Pipeline(t)' = Append(Pipeline(t), e)
  <2>1. Pipeline(t) \in Seq(Event)
    BY PipelineType
  <2>2. \A i \in 1 .. Len(Append(Pipeline(t), e)) :
           Append(Pipeline(t), e)[i] = IF i = Len(Pipeline(t)) + 1 THEN e ELSE Pipeline(t)[i]
    BY <2>1
  <2>3. Len(Append(Pipeline(t), e)) = Len(Pipeline(t)) + 1 /\ Len(Pipeline(t)) \in Nat
    BY <2>1
  <2>4. QED
    BY <1>2, <2>2, <2>3
<1>3. QED
  BY <1>1, <1>2, PutPipeline

\* A field that is not set on the board is mentioned nowhere.
LEMMA SourcedStep ==
    ASSUME TypeOK, Sourced, PrimingCurrent, [Next]_vars
    PROVE  Sourced'
<1> SUFFICES ASSUME NEW b \in Babies, NEW f \in Fields, board'[b][f].val = Nil
             PROVE  /\ \A w \in Writers : ~Touches(job'[w], b, f)
                    /\ \A s \in Subscribers : SourcedFor(s, b, f)'
  BY DEF Sourced, SourcedFor, Touches
<1>1. ASSUME NEW w \in Writers, NEW c \in Babies, Store(w, c)
      PROVE  /\ \A v \in Writers : ~Touches(job'[v], b, f)
             /\ \A s \in Subscribers : SourcedFor(s, b, f)'
  <2>1. ~Touches(job'[w], b, f)
    BY <1>1, StoreEffect DEF Touches
  <2>2. board[b][f].val = Nil
    BY <1>1, <2>1, StoreEffect
  <2>3. \A v \in Writers : ~Touches(job'[v], b, f)
    BY <1>1, <2>1, <2>2, StoreEffect DEF Sourced
  <2>4. UNCHANGED <<toPrime, queue, calling, view>>
    BY <1>1 DEF Store
  <2>5. QED
    BY <2>2, <2>3, <2>4 DEF Sourced, SourcedFor, Pipeline, Touches
<1>2. ASSUME UNCHANGED board
      PROVE  /\ \A w \in Writers : ~Touches(job[w], b, f)
             /\ \A s \in Subscribers : SourcedFor(s, b, f)
  BY <1>2 DEF Sourced, SourcedFor
<1>3. ASSUME NEW w \in Writers, NEW s \in Subscribers, Enqueue(w, s)
      PROVE  /\ \A v \in Writers : ~Touches(job'[v], b, f)
             /\ \A t \in Subscribers : SourcedFor(t, b, f)'
  <2>1. UNCHANGED <<board, job, toPrime, calling, view>> /\ Put(s, job[w]) /\ job[w] \in Event
    BY <1>3 DEF Enqueue, TypeOK
  <2>2. \A t \in Subscribers :
           \A i \in 1 .. Len(Pipeline(t)') : ~Touches(Pipeline(t)'[i], b, f)
    BY <1>2, <2>1, PutSourced DEF SourcedFor
  <2>3. QED
    BY <1>2, <2>1, <2>2 DEF SourcedFor, Touches
<1>4. ASSUME NEW s \in Subscribers, BeginPriming(s)
      PROVE  /\ \A v \in Writers : ~Touches(job'[v], b, f)
             /\ \A t \in Subscribers : SourcedFor(t, b, f)'
  <2>1. UNCHANGED <<board, job, queue, calling, view>>
    BY <1>4 DEF BeginPriming
  <2>2. \A e \in toPrime'[s] : ~Touches(e, b, f)
    BY <1>4, <2>1 DEF BeginPriming, TypeOK, Touches
  <2>3. \A t \in Subscribers \ {s} : toPrime'[t] = toPrime[t]
    BY <1>4 DEF BeginPriming, TypeOK
  <2>4. QED
    BY <1>2, <2>1, <2>2, <2>3 DEF SourcedFor, Pipeline, Touches
<1>5. ASSUME NEW s \in Subscribers, Prime(s)
      PROVE  /\ \A v \in Writers : ~Touches(job'[v], b, f)
             /\ \A t \in Subscribers : SourcedFor(t, b, f)'
  <2>1. PICK e \in toPrime[s] : Put(s, e) /\ toPrime' = [toPrime EXCEPT ![s] = @ \ {e}]
    BY <1>5 DEF Prime
  <2>2. UNCHANGED <<board, job, calling, view>> /\ e \in Event
    BY <1>5 DEF Prime, TypeOK
  <2>3. ~Touches(e, b, f)
    BY <1>2, <2>2 DEF SourcedFor
  <2>4. \A t \in Subscribers :
           \A i \in 1 .. Len(Pipeline(t)') : ~Touches(Pipeline(t)'[i], b, f)
    BY <1>2, <2>1, <2>2, <2>3, PutSourced DEF SourcedFor
  <2>5. \A t \in Subscribers : toPrime'[t] \subseteq toPrime[t]
    BY <2>1 DEF TypeOK
  <2>6. QED
    BY <1>2, <2>2, <2>4, <2>5 DEF SourcedFor, Touches
<1>6. ASSUME NEW s \in Subscribers, Receive(s)
      PROVE  /\ \A v \in Writers : ~Touches(job'[v], b, f)
             /\ \A t \in Subscribers : SourcedFor(t, b, f)'
  <2>1. UNCHANGED <<board, job, toPrime, view>>
    BY <1>6 DEF Receive
  <2>2. QED
    BY <1>2, <1>6, <2>1, ReceivePipeline DEF SourcedFor, Touches
<1>7. ASSUME NEW s \in Subscribers, Callback(s)
      PROVE  /\ \A v \in Writers : ~Touches(job'[v], b, f)
             /\ \A t \in Subscribers : SourcedFor(t, b, f)'
  <2>1. UNCHANGED <<board, job, toPrime>>
    BY <1>7 DEF Callback
  <2> DEFINE e == calling[s][1]
             q == Pipeline(s)'
  <2>2. Pipeline(s) = <<e>> \o q /\ q \in Seq(Event) /\ e \in Event
    BY <1>7, CallbackPipeline
  <2>3. /\ 1 \in 1 .. Len(<<e>> \o q) /\ (<<e>> \o q)[1] = e
        /\ \A i \in 1 .. Len(q) : i + 1 \in 1 .. Len(<<e>> \o q) /\ (<<e>> \o q)[i + 1] = q[i]
    BY <2>2
  <2>4. ~Touches(e, b, f) /\ \A i \in 1 .. Len(q) : ~Touches(q[i], b, f)
    <3> HIDE DEF e, q
    <3>1. SourcedFor(s, b, f)
      BY <1>2, <2>1
    <3>2. \A i \in 1 .. Len(Pipeline(s)) : ~Touches(Pipeline(s)[i], b, f)
      BY <3>1, Zenon DEF SourcedFor
    <3>3. \A i \in 1 .. Len(<<e>> \o q) : ~Touches((<<e>> \o q)[i], b, f)
      BY <2>2, <3>2
    <3> QED
      BY <2>3, <3>3
  <2>5. view'[s][b][f].val = Nil
    BY <1>2, <1>7, <2>1, <2>4, CallbackPipeline DEF SourcedFor
  <2>6. \A t \in Subscribers \ {s} : Pipeline(t)' = Pipeline(t) /\ view'[t] = view[t]
    BY <1>7, CallbackPipeline
  <2>7. QED
    BY <1>2, <2>1, <2>4, <2>5, <2>6 DEF SourcedFor, Touches
<1>8. ASSUME UNCHANGED <<board, job, toPrime, queue, calling, view>>
      PROVE  /\ \A v \in Writers : ~Touches(job'[v], b, f)
             /\ \A t \in Subscribers : SourcedFor(t, b, f)'
  BY <1>2, <1>8 DEF SourcedFor, Pipeline, Touches
<1>9. QED
  BY <1>1, <1>3, <1>4, <1>5, <1>6, <1>7, <1>8 DEF Next, vars, WriterStep, SubscribeStep,
     WorkerStep, Snapshot, Return, Subscribe, EndPriming, Unsubscribe, CloseDone, Exit

\* What WillCatchUp says of one subscriber and one field.
Waiting(s, b, f) ==
    /\ Primed(s, b)
    /\ dropped[s] = 0
    /\ board[b][f].val # Nil
    /\ \A w \in Writers : ~Owes(w, s, b, f)

Ends(s, b, f) == EndsWith(Pipeline(s), view[s][b][f].val, b, f, board[b][f].val)

\* An append of an event that carries the value on the board, or does not mention the
\* field, preserves the outcome; so does a Put that is not counted as a loss.
LEMMA PutEnds ==
    ASSUME TypeOK, NEW s \in Subscribers, NEW e \in Event, Put(s, e),
           UNCHANGED <<calling, view, board>>,
           NEW t \in Subscribers, NEW b \in Babies, NEW f \in Fields,
           dropped'[t] = 0, ~DoneClosed(t),
           \/ t = s /\ Touches(e, b, f) /\ e.upd[f].val = board[b][f].val
           \/ (t = s => ~Touches(e, b, f)) /\ Ends(t, b, f)
    PROVE  Ends(t, b, f)'
<1>1. Pipeline(t) \in Seq(Event)
  BY PipelineType
<1>2. CASE t # s
  BY <1>2, PutPipeline DEF Ends
<1>3. CASE t = s
  <2>1. Pipeline(s)' = Append(Pipeline(s), e)
    BY <1>3, PutPipeline
  <2>2. CASE Touches(e, b, f) /\ e.upd[f].val = board[b][f].val
    <3>1. EndsWith(Append(Pipeline(s), e), view[s][b][f].val, b, f, e.upd[f].val)
      BY <1>1, <1>3, <2>2, AppendSame
    <3>2. QED
      BY <1>3, <2>1, <2>2, <3>1 DEF Ends
  <2>3. CASE ~Touches(e, b, f) /\ Ends(s, b, f)
    <3>1. EndsWith(Pipeline(s), view[s][b][f].val, b, f, board[b][f].val)
      BY <2>3 DEF Ends
    <3>2. EndsWith(Append(Pipeline(s), e), view[s][b][f].val, b, f, board[b][f].val)
      BY <1>1, <1>3, <2>3, <3>1, AppendOther
    <3>3. QED
      BY <1>3, <2>1, <3>2 DEF Ends
  <2>4. QED
    BY <1>3, <2>2, <2>3
<1>4. QED
  BY <1>2, <1>3

\* Every step keeps the last undelivered event of a field equal to the board.
LEMMA WillCatchUpStep ==
    ASSUME CatchUpInv, [Next]_vars
    PROVE  WillCatchUp'
<1> USE DEF CatchUpInv
<1> SUFFICES ASSUME NEW s \in Subscribers, NEW b \in Babies, NEW f \in Fields,
                    Waiting(s, b, f)'
             PROVE  Ends(s, b, f)'
  BY DEF WillCatchUp, Waiting, Ends
<1>0. Waiting(s, b, f) => Ends(s, b, f)
  BY DEF WillCatchUp, Waiting, Ends
<1>1. ASSUME NEW w \in Writers, NEW c \in Babies, Store(w, c) PROVE Ends(s, b, f)'
  <2>1. UNCHANGED <<targets, phase, toPrime, queue, dropped, calling, view>>
    BY <1>1 DEF Store
  <2>2. ~Touches(job'[w], b, f)
    BY <1>1, StoreEffect DEF Waiting, Owes, Touches
  <2>3. board'[b][f] = board[b][f]
    BY <1>1, <2>2, StoreEffect
  <2>4. \A v \in Writers : ~Owes(v, s, b, f)
    BY <1>1, <2>1, StoreEffect DEF Waiting, Owes, Touches
  <2>5. Waiting(s, b, f)
    BY <2>1, <2>3, <2>4 DEF Waiting, Primed
  <2>6. QED
    BY <1>0, <2>1, <2>3, <2>5 DEF Ends, Pipeline
<1>2. ASSUME NEW w \in Writers, Snapshot(w) PROVE Ends(s, b, f)'
  <2>1. UNCHANGED <<board, job, phase, toPrime, queue, dropped, calling, view>>
    BY <1>2 DEF Snapshot
  <2>2. s \in Registered
    BY <2>1 DEF Waiting, Primed, Registered
  <2>3. targets' = [targets EXCEPT ![w] = Registered] /\ pc[w] = "stored"
        /\ pc' = [pc EXCEPT ![w] = "notifying"]
    BY <1>2 DEF Snapshot
  <2>4. \A v \in Writers : Owes(v, s, b, f) => Owes(v, s, b, f)'
    BY <2>1, <2>2, <2>3 DEF Owes, Touches, TypeOK
  <2>5. Waiting(s, b, f)
    BY <2>1, <2>4 DEF Waiting, Primed
  <2>6. QED
    BY <1>0, <2>1, <2>5 DEF Ends, Pipeline
<1>3. ASSUME NEW w \in Writers, NEW t \in Subscribers, Enqueue(w, t) PROVE Ends(s, b, f)'
  <2>1. /\ UNCHANGED <<board, pc, job, phase, toPrime, calling, view>>
        /\ Put(t, job[w]) /\ job[w] \in Event /\ pc[w] = "notifying"
        /\ targets' = [targets EXCEPT ![w] = @ \ {t}]
    BY <1>3 DEF Enqueue, TypeOK
  <2>2. dropped'[s] = 0 /\ ~DoneClosed(s)
    BY <2>1 DEF Waiting, Primed, DoneClosed
  <2>3. CASE t = s /\ Touches(job[w], b, f)
    <3>1. job[w].upd[f].val = board[b][f].val
      BY <2>1, <2>3 DEF JobCurrent
    <3>2. QED
      BY <2>1, <2>2, <2>3, <3>1, PutEnds
  <2>4. CASE ~(t = s /\ Touches(job[w], b, f))
    <3>1. \A v \in Writers : Owes(v, s, b, f) => Owes(v, s, b, f)'
      BY <2>1, <2>4 DEF Owes, Touches, TypeOK
    <3>2. dropped[s] = 0
      BY <2>1, <2>2, PutPipeline DEF TypeOK, Put
    <3>3. Waiting(s, b, f)
      BY <2>1, <3>1, <3>2 DEF Waiting, Primed
    <3>4. QED
      BY <1>0, <2>1, <2>2, <2>4, <3>3, PutEnds
  <2>5. QED
    BY <2>3, <2>4
<1>4. ASSUME NEW w \in Writers, Return(w) PROVE Ends(s, b, f)'
  <2>1. UNCHANGED <<board, job, targets, phase, toPrime, queue, dropped, calling, view>>
    BY <1>4 DEF Return
  <2>2. \A v \in Writers : Owes(v, s, b, f) => Owes(v, s, b, f)'
    BY <1>4, <2>1 DEF Return, Owes, Touches, TypeOK
  <2>3. Waiting(s, b, f)
    BY <2>1, <2>2 DEF Waiting, Primed
  <2>4. QED
    BY <1>0, <2>1, <2>3 DEF Ends, Pipeline
<1>5. ASSUME NEW t \in Subscribers, BeginPriming(t) PROVE Ends(s, b, f)'
  <2>1. /\ UNCHANGED <<board, known, pc, job, targets, queue, dropped, calling, view>>
        /\ phase' = [phase EXCEPT ![t] = "priming"]
        /\ toPrime' = [toPrime EXCEPT ![t] = {[baby |-> c, upd |-> board[c]] : c \in known}]
    BY <1>5 DEF BeginPriming
  <2>2. b \in known
    BY <2>1 DEF Waiting, KnownSet
  <2>3. s # t
    <3> SUFFICES ASSUME s = t PROVE FALSE
      OBVIOUS
    <3>1. [baby |-> b, upd |-> board[b]] \in toPrime'[s] /\ phase'[s] = "priming"
      BY <2>1, <2>2 DEF TypeOK
    <3>2. QED
      BY <3>1 DEF Waiting, Primed
  <2>4. Waiting(s, b, f)
    BY <2>1, <2>3 DEF Waiting, Primed, Owes, Touches, TypeOK
  <2>5. QED
    BY <1>0, <2>1, <2>4 DEF Ends, Pipeline
<1>6. ASSUME NEW t \in Subscribers, Prime(t) PROVE Ends(s, b, f)'
  <2>1. PICK e \in toPrime[t] : Put(t, e) /\ toPrime' = [toPrime EXCEPT ![t] = @ \ {e}]
    BY <1>6 DEF Prime
  <2>2. /\ UNCHANGED <<board, pc, job, targets, phase, calling, view>>
        /\ phase[t] = "priming" /\ e \in Event
    BY <1>6 DEF Prime, TypeOK
  <2>3. dropped'[s] = 0 /\ ~DoneClosed(s)
    BY <2>2 DEF Waiting, Primed, DoneClosed
  <2>4. CASE t = s /\ e.baby = b
    <3>1. e.upd = board[b]
      BY <2>2, <2>4 DEF PrimingCurrent
    <3>2. Touches(e, b, f) /\ e.upd[f].val = board[b][f].val
      BY <2>2, <2>4, <3>1 DEF Waiting, Touches
    <3>3. QED
      BY <2>1, <2>2, <2>3, <2>4, <3>2, PutEnds
  <2>5. CASE ~(t = s /\ e.baby = b)
    <3>1. dropped[s] = 0
      BY <2>1, <2>2, <2>3, PutPipeline DEF TypeOK, Put
    <3>2. Primed(s, b)
      BY <2>1, <2>2, <2>5 DEF Waiting, Primed, TypeOK
    <3>3. Waiting(s, b, f)
      BY <2>2, <3>1, <3>2 DEF Waiting, Owes, Touches
    <3>4. t = s => ~Touches(e, b, f)
      BY <2>5 DEF Touches
    <3>5. QED
      BY <1>0, <2>1, <2>2, <2>3, <3>3, <3>4, PutEnds
  <2>6. QED
    BY <2>4, <2>5
<1>7. ASSUME NEW t \in Subscribers, EndPriming(t) PROVE Ends(s, b, f)'
  <2>1. UNCHANGED <<board, pc, job, targets, toPrime, queue, dropped, calling, view>>
    BY <1>7 DEF EndPriming
  <2>2. Primed(s, b)
    BY <1>7, <2>1 DEF EndPriming, Waiting, Primed, TypeOK
  <2>3. Waiting(s, b, f)
    BY <2>1, <2>2 DEF Waiting, Owes, Touches
  <2>4. QED
    BY <1>0, <2>1, <2>3 DEF Ends, Pipeline
<1>8. ASSUME NEW t \in Subscribers, Subscribe(t) \/ Unsubscribe(t) \/ CloseDone(t)
      PROVE  Ends(s, b, f)'
  <2>1. UNCHANGED <<board, pc, job, targets, toPrime, queue, dropped, calling, view>>
    BY <1>8 DEF Subscribe, Unsubscribe, CloseDone
  <2>2. Primed(s, b)
    BY <1>8, <2>1 DEF Subscribe, Unsubscribe, CloseDone, Waiting, Primed, TypeOK
  <2>3. Waiting(s, b, f)
    BY <2>1, <2>2 DEF Waiting, Owes, Touches
  <2>4. QED
    BY <1>0, <2>1, <2>3 DEF Ends, Pipeline
<1>9. ASSUME NEW t \in Subscribers, Receive(t) PROVE Ends(s, b, f)'
  <2>1. UNCHANGED <<board, pc, job, targets, phase, toPrime, dropped, view>>
    BY <1>9 DEF Receive
  <2>2. Waiting(s, b, f)
    BY <2>1 DEF Waiting, Primed, Owes, Touches
  <2>3. QED
    BY <1>0, <1>9, <2>1, <2>2, ReceivePipeline DEF Ends
<1>10. ASSUME NEW t \in Subscribers, Callback(t) PROVE Ends(s, b, f)'
  <2>1. UNCHANGED <<board, pc, job, targets, phase, toPrime, queue, dropped>>
    BY <1>10 DEF Callback
  <2>2. Waiting(s, b, f)
    BY <2>1 DEF Waiting, Primed, Owes, Touches
  <2>3. Ends(s, b, f)
    BY <1>0, <2>2
  <2>4. CASE s # t
    BY <1>10, <2>1, <2>3, <2>4, CallbackPipeline DEF Ends
  <2>5. CASE s = t
    <3> DEFINE e == calling[s][1]
               q == Pipeline(s)'
    <3>1. Pipeline(s) = <<e>> \o q /\ q \in Seq(Event) /\ e \in Event
      BY <1>10, <2>5, CallbackPipeline
    <3>2. EndsWith(<<e>> \o q, view[s][b][f].val, b, f, board[b][f].val)
      BY <2>3, <3>1 DEF Ends
    <3>3. view'[s][b][f].val = IF Touches(e, b, f) THEN e.upd[f].val ELSE view[s][b][f].val
      BY <1>10, <2>5, CallbackPipeline
    <3>4. EndsWith(q, view'[s][b][f].val, b, f, board[b][f].val)
      BY <3>1, <3>2, <3>3, TakeFirst
    <3>5. QED
      BY <2>1, <3>4 DEF Ends
  <2>6. QED
    BY <2>4, <2>5
<1>11. ASSUME UNCHANGED <<board, pc, job, targets, phase, toPrime, queue, dropped, calling, view>>
       PROVE  Ends(s, b, f)'
  BY <1>0, <1>11 DEF Waiting, Ends, Primed, Owes, Touches, Pipeline
<1>12. QED
  BY <1>1, <1>2, <1>3, <1>4, <1>5, <1>6, <1>7, <1>8, <1>9, <1>10, <1>11
     DEF Next, vars, WriterStep, SubscribeStep, WorkerStep, Exit

-----------------------------------------------------------------------------
\* Initially no field is set and nothing is on its way.
LEMMA CatchUpInvInit == Init => CatchUpInv
<1> SUFFICES ASSUME Init PROVE CatchUpInv
  OBVIOUS
<1>1. TypeOK
  BY InitTypeOK
<1>2. JobCurrent /\ PrimingCurrent /\ KnownSet
  BY DEF Init, JobCurrent, PrimingCurrent, KnownSet, NewState, Unset
<1>3. \A s \in Subscribers : Pipeline(s) = <<>>
  BY DEF Init, Pipeline
<1>4. Sourced
  BY <1>3 DEF Init, Sourced, Touches, NewState, Unset
<1>5. WillCatchUp
  BY DEF Init, WillCatchUp, NewState, Unset
<1>6. QED
  BY <1>1, <1>2, <1>4, <1>5 DEF CatchUpInv

\* CatchUpInv is inductive when every field has one writing goroutine.
LEMMA CatchUpInvStep == SingleWriter /\ CatchUpInv /\ [Next]_vars => CatchUpInv'
BY NextTypeOK, JobCurrentStep, PrimingCurrentStep, KnownSetStep, SourcedStep, WillCatchUpStep
   DEF CatchUpInv

\* A pipeline without the field ends with what the view shows.
LEMMA CatchUpInvImplies == CatchUpInv => CaughtUp
<1> SUFFICES ASSUME CatchUpInv, NEW s \in Subscribers, NEW b \in Babies, NEW f \in Fields,
                    phase[s] = "subscribed", dropped[s] = 0,
                    \A w \in Writers : ~Owes(w, s, b, f),
                    \A i \in 1 .. Len(Pipeline(s)) : ~Touches(Pipeline(s)[i], b, f)
             PROVE  view[s][b][f].val = board[b][f].val
  BY DEF CaughtUp
<1>1. CASE board[b][f].val = Nil
  BY <1>1 DEF CatchUpInv, Sourced
<1>2. CASE board[b][f].val # Nil
  <2>1. EndsWith(Pipeline(s), view[s][b][f].val, b, f, board[b][f].val)
    BY <1>2 DEF CatchUpInv, WillCatchUp, Primed
  <2>2. QED
    BY <2>1 DEF EndsWith
<1>3. QED
  BY <1>1, <1>2

\* When every field has one writing goroutine, a subscriber that has lost nothing, is
\* owed nothing and has nothing left to handle was last told the values on the board.
THEOREM CaughtUpCorrect ==
    ASSUME SingleWriter
    PROVE  Spec => []CaughtUp
<1>1. CatchUpInv /\ [Next]_vars => CatchUpInv'
  BY CatchUpInvStep
<1>2. QED
  BY <1>1, CatchUpInvInit, CatchUpInvImplies, PTL DEF Spec

-----------------------------------------------------------------------------
(* StateManager implements StateFeed.                                       *)

\* The positions of events and of the cells on the board are numbers.
LEMMA Positions ==
    ASSUME TypeOK
    PROVE  /\ \A e \in Event, f \in Fields : e.upd[f].at \in Nat /\ e.baby \in Babies
           /\ \A b \in Babies, f \in Fields : board[b][f].at \in Nat
           /\ \A s \in Subscribers, b \in Babies, f \in Fields : view[s][b][f].at \in Nat
           /\ \A s \in Subscribers : /\ \A i \in 1 .. Len(calling[s]) : calling[s][i] \in Event
                                     /\ \A i \in 1 .. Len(queue[s]) : queue[s][i] \in Event
           /\ Len(log) \in Nat
<1>1. \A c \in Cell : c.at \in Nat
  BY DEF Cell
<1>2. \A e \in Event, f \in Fields : e.upd[f] \in Cell /\ e.baby \in Babies
  BY DEF Event, State
<1>3. \A b \in Babies, f \in Fields : board[b][f] \in Cell
  BY DEF TypeOK, State
<1>4. \A s \in Subscribers, b \in Babies, f \in Fields : view[s][b][f] \in Cell
  BY DEF TypeOK, State
<1>5. \A s \in Subscribers : /\ \A i \in 1 .. Len(calling[s]) : calling[s][i] \in Event
                             /\ \A i \in 1 .. Len(queue[s]) : queue[s][i] \in Event
  BY DEF TypeOK
<1>6. Len(log) \in Nat
  BY DEF TypeOK
<1> QED
  BY <1>1, <1>2, <1>3, <1>4, <1>5, <1>6

\* A Put puts the event into the queue or leaves the queues alone.
LEMMA PutQueue ==
    ASSUME TypeOK, NEW s \in Subscribers, NEW e \in Event, Put(s, e), NEW t \in Subscribers
    PROVE  queue'[t] = queue[t] \/ queue'[t] = Append(queue[t], e)
BY DEF TypeOK, Put

\* If the log does not change, the events that were in it still are.
LEMMA StillLogged ==
    ASSUME UNCHANGED log,
           \A t \in Subscribers : /\ \A i \in 1 .. Len(calling'[t]) : Logged(calling'[t][i])
                                  /\ \A i \in 1 .. Len(queue'[t]) : Logged(queue'[t][i])
    PROVE  OnlyLogged'
<1>1. ASSUME NEW c, NEW b, NEW f, Feed!InLog(c, b, f)
      PROVE  /\ c.at \in 1 .. Len(log')
             /\ log'[c.at].baby = b
             /\ log'[c.at].upd[f] = c
  BY <1>1 DEF Feed!InLog
<1>2. ASSUME NEW e, Logged(e), NEW f \in Fields, e.upd[f].val # Nil
      PROVE  /\ e.upd[f].at \in 1 .. Len(log')
             /\ log'[e.upd[f].at].baby = e.baby
             /\ log'[e.upd[f].at].upd[f] = e.upd[f]
  BY <1>1, <1>2 DEF Logged
<1>3. ASSUME NEW t \in Subscribers, NEW i \in 1 .. Len(calling'[t])
      PROVE  Logged(calling[t][i])'
  <2>1. Logged(calling'[t][i])
    OBVIOUS
  <2> QED
    BY <1>2, <2>1 DEF Logged, Feed!InLog
<1>4. ASSUME NEW t \in Subscribers, NEW i \in 1 .. Len(queue'[t])
      PROVE  Logged(queue[t][i])'
  <2>1. Logged(queue'[t][i])
    OBVIOUS
  <2> QED
    BY <1>2, <2>1 DEF Logged, Feed!InLog
<1> QED
  BY <1>3, <1>4 DEF OnlyLogged

\* An event that says what the board says may be put into any queue.
LEMMA PutFeed ==
    ASSUME TypeOK, OnlyLogged, Between, InOrder, UNCHANGED <<board, view, calling, log>>,
           NEW s \in Subscribers, NEW e \in Event, Put(s, e), Logged(e),
           \A f \in Fields : e.upd[f].val # Nil => e.upd[f] = board[e.baby][f]
    PROVE  OnlyLogged' /\ Between' /\ InOrder'
<1>1. ASSUME NEW t \in Subscribers
      PROVE  \/ queue'[t] = queue[t]
             \/ /\ Len(queue'[t]) = Len(queue[t]) + 1
                /\ \A i \in 1 .. Len(queue'[t]) :
                      queue'[t][i] = IF i = Len(queue[t]) + 1 THEN e ELSE queue[t][i]
  <2>1. queue[t] \in Seq(Event)
    BY DEF TypeOK
  <2>2. CASE queue'[t] = Append(queue[t], e)
    BY <2>1, <2>2
  <2> QED
    BY <2>2, PutQueue
<1>2. \A t \in Subscribers : Len(queue[t]) \in Nat
  BY DEF TypeOK
<1>3. OnlyLogged'
  <2>1. ASSUME NEW t \in Subscribers, NEW i \in 1 .. Len(queue'[t])
        PROVE  Logged(queue'[t][i])
    <3>1. CASE queue'[t] = queue[t]
      BY <3>1 DEF OnlyLogged
    <3>2. CASE queue'[t] # queue[t] /\ i = Len(queue[t]) + 1
      BY <1>1, <3>2
    <3>3. CASE queue'[t] # queue[t] /\ i # Len(queue[t]) + 1
      <4>1. i \in 1 .. Len(queue[t]) /\ queue'[t][i] = queue[t][i]
        BY <1>1, <1>2, <3>3
      <4> QED
        BY <4>1 DEF OnlyLogged
    <3> QED
      BY <3>1, <3>2, <3>3
  <2>2. \A t \in Subscribers : \A i \in 1 .. Len(calling'[t]) : Logged(calling'[t][i])
    BY DEF OnlyLogged
  <2> QED
    BY <2>1, <2>2, StillLogged
<1>4. \A b \in Babies, f \in Fields : Touches(e, b, f) => e.upd[f].at = board[b][f].at
  BY DEF Touches
<1>5. Between'
  <2> SUFFICES ASSUME NEW t \in Subscribers, NEW b \in Babies, NEW f \in Fields,
                      NEW i \in 1 .. Len(queue'[t]), Touches(queue'[t][i], b, f)
               PROVE  queue'[t][i].upd[f].at \in view[t][b][f].at .. board[b][f].at
    BY DEF Between, Touches
  <2>1. CASE queue'[t] = queue[t]
    BY <2>1 DEF Between
  <2>2. CASE queue'[t] # queue[t] /\ i = Len(queue[t]) + 1
    <3>1. queue'[t][i] = e
      BY <1>1, <2>2
    <3>2. e.upd[f].at = board[b][f].at
      BY <1>4, <3>1
    <3>3. view[t][b][f].at <= board[b][f].at
      BY DEF Between
    <3>4. board[b][f].at \in Nat /\ view[t][b][f].at \in Nat
      BY Positions
    <3> QED
      BY <3>1, <3>2, <3>3, <3>4
  <2>3. CASE queue'[t] # queue[t] /\ i # Len(queue[t]) + 1
    <3>1. i \in 1 .. Len(queue[t]) /\ queue'[t][i] = queue[t][i]
      BY <1>1, <1>2, <2>3
    <3> QED
      BY <3>1 DEF Between
  <2> QED
    BY <2>1, <2>2, <2>3
<1>6. InOrder'
  <2> SUFFICES ASSUME NEW t \in Subscribers, NEW b \in Babies, NEW f \in Fields,
                      NEW j \in 1 .. Len(queue'[t]), Touches(queue'[t][j], b, f)
               PROVE  /\ \A i \in 1 .. Len(calling[t]) :
                            Touches(calling[t][i], b, f) =>
                                calling[t][i].upd[f].at <= queue'[t][j].upd[f].at
                      /\ \A i \in 1 .. Len(queue'[t]) :
                            i < j /\ Touches(queue'[t][i], b, f) =>
                                queue'[t][i].upd[f].at <= queue'[t][j].upd[f].at
    BY DEF InOrder, Touches
  <2>1. CASE queue'[t] = queue[t]
    BY <2>1 DEF InOrder
  <2>2. CASE queue'[t] # queue[t] /\ j = Len(queue[t]) + 1
    <3>1. queue'[t][j].upd[f].at = board[b][f].at
      BY <1>1, <1>4, <2>2
    <3>2. board[b][f].at \in Nat /\ view[t][b][f].at \in Nat
      BY Positions
    <3>3. \A i \in 1 .. Len(calling[t]) :
            Touches(calling[t][i], b, f) => calling[t][i].upd[f].at <= board[b][f].at
      BY <3>2 DEF Between
    <3>4. \A i \in 1 .. Len(queue[t]) :
            Touches(queue[t][i], b, f) => queue[t][i].upd[f].at <= board[b][f].at
      BY <3>2 DEF Between
    <3>5. \A i \in 1 .. Len(queue'[t]) : i < j => i \in 1 .. Len(queue[t]) /\ queue'[t][i] = queue[t][i]
      BY <1>1, <1>2, <2>2
    <3> QED
      BY <3>1, <3>3, <3>4, <3>5
  <2>3. CASE queue'[t] # queue[t] /\ j # Len(queue[t]) + 1
    <3>1. j \in 1 .. Len(queue[t]) /\ queue'[t][j] = queue[t][j]
      BY <1>1, <1>2, <2>3
    <3>2. \A i \in 1 .. Len(queue'[t]) : i < j => i \in 1 .. Len(queue[t]) /\ queue'[t][i] = queue[t][i]
      BY <1>1, <1>2, <2>3, <3>1
    <3> QED
      BY <3>1, <3>2 DEF InOrder
  <2> QED
    BY <2>1, <2>2, <2>3
<1> QED
  BY <1>3, <1>5, <1>6

\* A store appends to the log the cells that it puts on the board.
LEMMA StoreFeed ==
    ASSUME TypeOK, NEW w \in Writers, NEW b \in Babies, Store(w, b)
    PROVE  /\ log' = Append(log, job'[w]) /\ Len(log') = Len(log) + 1 /\ log'[Len(log) + 1] = job'[w]
           /\ \A i \in 1 .. Len(log) : log'[i] = log[i]
           /\ \A f \in Fields : job'[w].upd[f].val # Nil => job'[w].upd[f].at = Len(log) + 1
<1>1. PICK u \in PartialStates(w, b) :
        /\ log' = Append(log, [baby |-> b, upd |-> u])
        /\ job' = [job EXCEPT ![w] = [baby |-> b, upd |-> u]]
  BY DEF Store
<1>2. job'[w] = [baby |-> b, upd |-> u]
  BY <1>1 DEF TypeOK
<1>3. \A f \in Fields : u[f].val # Nil => u[f].at = Len(log) + 1
  BY DEF PartialStates, Unset
<1> DEFINE e == [baby |-> b, upd |-> u]
<1>4. log' = Append(log, e) /\ log \in Seq(Event)
  BY <1>1 DEF TypeOK
<1>5. e = job'[w] /\ e.upd = u
  BY <1>2
<1> HIDE DEF e
<1>6. /\ Len(log') = Len(log) + 1 /\ log'[Len(log) + 1] = e
      /\ \A i \in 1 .. Len(log) : log'[i] = log[i]
  BY <1>4
<1> QED
  BY <1>3, <1>4, <1>5, <1>6

\* What is in the log stays in it.
LEMMA LogStays ==
    ASSUME TypeOK, NEW w \in Writers, NEW b \in Babies, Store(w, b),
           NEW c, NEW d, NEW f, Feed!InLog(c, d, f)
    PROVE  /\ c.at \in 1 .. Len(log') /\ log'[c.at].baby = d /\ log'[c.at].upd[f] = c
<1>1. Len(log) \in Nat
  BY DEF TypeOK
<1> QED
  BY <1>1, StoreFeed DEF Feed!InLog

LEMMA StoreCellsCurrent ==
    ASSUME SingleWriter, FeedInv, NEW w \in Writers, NEW b \in Babies, Store(w, b)
    PROVE  CellsCurrent'
<1> USE DEF FeedInv
<1> DEFINE e == job'[w]
<1>1. /\ e \in Event /\ e.baby = b
      /\ \A v \in Writers \ {w} : job'[v] = job[v] /\ pc'[v] = pc[v]
      /\ \A f \in Fields : Touches(e, b, f) => <<b, f>> \in Scope[w]
      /\ \A c \in Babies, f \in Fields :
            board'[c][f] = IF Touches(e, c, f) THEN e.upd[f] ELSE board[c][f]
  BY StoreEffect
<1>2. /\ Len(log') = Len(log) + 1 /\ log'[Len(log) + 1] = e
      /\ \A f \in Fields : e.upd[f].val # Nil => e.upd[f].at = Len(log) + 1
  BY StoreFeed
<1>3. Len(log) \in Nat
  BY Positions
<1> HIDE DEF e
<1>4. ASSUME NEW c \in Babies, NEW f \in Fields, board'[c][f].val # Nil
      PROVE  /\ board'[c][f].at \in 1 .. Len(log')
             /\ log'[board'[c][f].at].baby = c /\ log'[board'[c][f].at].upd[f] = board'[c][f]
  <2>1. CASE Touches(e, c, f)
    <3>1. board'[c][f] = e.upd[f] /\ e.baby = c /\ e.upd[f].at = Len(log) + 1
      BY <1>1, <1>2, <2>1 DEF Touches
    <3> QED
      BY <1>2, <1>3, <3>1
  <2>2. CASE ~Touches(e, c, f)
    <3>1. board'[c][f] = board[c][f]
      BY <1>1, <2>2
    <3>2. Feed!InLog(board[c][f], c, f)
      BY <1>4, <3>1 DEF CellsCurrent, Logged
    <3> QED
      BY <3>1, <3>2, LogStays
  <2> QED
    BY <2>1, <2>2
<1>5. \A c \in Babies, f \in Fields : board'[c][f].at <= Len(log')
  <2> SUFFICES ASSUME NEW c \in Babies, NEW f \in Fields PROVE board'[c][f].at <= Len(log')
    OBVIOUS
  <2>1. CASE Touches(e, c, f)
    <3>1. board'[c][f].at = Len(log) + 1
      BY <1>1, <1>2, <2>1 DEF Touches
    <3> QED
      BY <1>2, <1>3, <3>1
  <2>2. CASE ~Touches(e, c, f)
    <3>1. board'[c][f].at = board[c][f].at /\ board[c][f].at <= Len(log) /\ board[c][f].at \in Nat
      BY <1>1, <2>2, Positions DEF CellsCurrent
    <3> QED
      BY <1>2, <1>3, <3>1
  <2> QED
    BY <2>1, <2>2
<1>6. ASSUME NEW v \in Writers, NEW f \in Fields, pc'[v] # "idle", job'[v].upd[f].val # Nil
      PROVE  job'[v].upd[f] = board'[job'[v].baby][f]
  <2>1. CASE v = w
    BY <1>1, <1>6, <2>1 DEF Touches, Event, e
  <2>2. CASE v # w
    <3>1. job'[v] = job[v] /\ pc[v] # "idle" /\ job[v].baby \in Babies
      BY <1>1, <1>6, <2>2 DEF TypeOK, Event
    <3>2. job[v].upd[f] = board[job[v].baby][f] /\ <<job[v].baby, f>> \in Scope[v]
      BY <1>6, <3>1 DEF CellsCurrent, JobCurrent, Touches
    <3>3. ~Touches(e, job[v].baby, f)
      BY <1>1, <2>2, <3>2 DEF SingleWriter, Touches
    <3> QED
      BY <1>1, <3>1, <3>2, <3>3
  <2> QED
    BY <2>1, <2>2
<1> QED
  BY <1>4, <1>5, <1>6 DEF CellsCurrent, Logged, Feed!InLog

\* Every step keeps the cells on the board and in the hands of the writers.
LEMMA CellsCurrentStep == SingleWriter /\ FeedInv /\ [Next]_vars => CellsCurrent'
<1> SUFFICES ASSUME SingleWriter, FeedInv, [Next]_vars PROVE CellsCurrent'
  OBVIOUS
<1>1. ASSUME NEW w \in Writers, NEW b \in Babies, Store(w, b) PROVE CellsCurrent'
  BY <1>1, StoreCellsCurrent
<1>2. ASSUME UNCHANGED <<board, log, job>>, \A w \in Writers : pc[w] = "idle" => pc'[w] = "idle"
      PROVE  CellsCurrent'
  BY <1>2 DEF FeedInv, CellsCurrent, Logged, Feed!InLog
<1>3. ASSUME NEW w \in Writers, WriterStep(w)
      PROVE  UNCHANGED <<board, log, job>> /\ \A v \in Writers : pc[v] = "idle" => pc'[v] = "idle"
  BY <1>3 DEF WriterStep, Snapshot, Enqueue, Return, FeedInv, TypeOK
<1>4. ASSUME NEW s \in Subscribers, Subscribe(s) \/ SubscribeStep(s) \/ Unsubscribe(s) \/ WorkerStep(s)
      PROVE  UNCHANGED <<board, log, job, pc>>
  BY <1>4 DEF Subscribe, SubscribeStep, Unsubscribe, WorkerStep, BeginPriming, Prime, EndPriming,
     CloseDone, Receive, Callback, Exit
<1>5. CASE UNCHANGED vars
  BY <1>2, <1>5 DEF vars
<1> QED
  BY <1>1, <1>2, <1>3, <1>4, <1>5 DEF Next

\* A store leaves what is on its way behind what it puts on the board.
LEMMA StoreKeepsFeed ==
    ASSUME FeedInv, NEW w \in Writers, NEW b \in Babies, Store(w, b)
    PROVE  OnlyLogged' /\ Between' /\ InOrder'
<1> USE DEF FeedInv
<1>1. UNCHANGED <<calling, queue, view>>
  BY DEF Store
<1>2. ASSUME NEW e \in Event, Logged(e)
      PROVE  \A f \in Fields : e.upd[f].val # Nil =>
                /\ e.upd[f].at \in 1 .. Len(log')
                /\ log'[e.upd[f].at].baby = e.baby /\ log'[e.upd[f].at].upd[f] = e.upd[f]
  BY <1>2, LogStays DEF Logged
<1>3. OnlyLogged'
  <2>1. \A s \in Subscribers :
          /\ \A i \in 1 .. Len(calling[s]) : calling[s][i] \in Event /\ Logged(calling[s][i])
          /\ \A i \in 1 .. Len(queue[s]) : queue[s][i] \in Event /\ Logged(queue[s][i])
    BY Positions DEF OnlyLogged
  <2>2. ASSUME NEW s \in Subscribers, NEW i \in 1 .. Len(calling[s]), NEW f \in Fields,
               calling[s][i].upd[f].val # Nil
        PROVE  Feed!InLog(calling[s][i].upd[f], calling[s][i].baby, f)'
    BY <1>1, <1>2, <2>1, <2>2 DEF Feed!InLog
  <2>3. ASSUME NEW s \in Subscribers, NEW i \in 1 .. Len(queue[s]), NEW f \in Fields,
               queue[s][i].upd[f].val # Nil
        PROVE  Feed!InLog(queue[s][i].upd[f], queue[s][i].baby, f)'
    BY <1>1, <1>2, <2>1, <2>3 DEF Feed!InLog
  <2>4. \A s \in Subscribers : \A i \in 1 .. Len(calling[s]) : Logged(calling[s][i])'
    BY <1>1, <2>2 DEF Logged
  <2>5. \A s \in Subscribers : \A i \in 1 .. Len(queue[s]) : Logged(queue[s][i])'
    BY <1>1, <2>3 DEF Logged
  <2> QED
    BY <1>1, <2>4, <2>5 DEF OnlyLogged
<1>4. \A c \in Babies, f \in Fields :
         board'[c][f].at \in Nat /\ board[c][f].at \in Nat /\ board[c][f].at <= board'[c][f].at
  <2> SUFFICES ASSUME NEW c \in Babies, NEW f \in Fields
               PROVE  board'[c][f].at \in Nat /\ board[c][f].at \in Nat /\ board[c][f].at <= board'[c][f].at
    OBVIOUS
  <2>1. board[c][f].at \in Nat /\ board[c][f].at <= Len(log) /\ Len(log) \in Nat
    BY Positions DEF CellsCurrent
  <2>2. board'[c][f].at = board[c][f].at \/ board'[c][f].at = Len(log) + 1
    BY StoreEffect, StoreFeed DEF Touches
  <2> QED
    BY <2>1, <2>2
<1>5. Between'
  <2> SUFFICES ASSUME NEW s \in Subscribers, NEW c \in Babies, NEW f \in Fields
               PROVE  /\ view[s][c][f].at <= board'[c][f].at
                      /\ \A i \in 1 .. Len(calling[s]) :
                            Touches(calling[s][i], c, f) =>
                                calling[s][i].upd[f].at \in view[s][c][f].at .. board'[c][f].at
                      /\ \A i \in 1 .. Len(queue[s]) :
                            Touches(queue[s][i], c, f) =>
                                queue[s][i].upd[f].at \in view[s][c][f].at .. board'[c][f].at
    BY <1>1 DEF Between, Touches
  <2>1. board'[c][f].at \in Nat /\ board[c][f].at \in Nat /\ board[c][f].at <= board'[c][f].at
    BY <1>4
  <2>2. view[s][c][f].at \in Nat
    BY Positions
  <2>3. \A n \in view[s][c][f].at .. board[c][f].at : n \in view[s][c][f].at .. board'[c][f].at
    BY <2>1, <2>2
  <2>4. view[s][c][f].at <= board[c][f].at
    BY DEF Between
  <2>5. view[s][c][f].at <= board'[c][f].at
    BY <2>1, <2>2, <2>4
  <2> QED
    BY <2>3, <2>5 DEF Between
<1>6. InOrder'
  BY <1>1 DEF InOrder, Touches
<1> QED
  BY <1>3, <1>5, <1>6

\* The worker takes the oldest event.
LEMMA ReceiveKeepsFeed ==
    ASSUME FeedInv, NEW s \in Subscribers, Receive(s)
    PROVE  OnlyLogged' /\ Between' /\ InOrder'
<1> USE DEF FeedInv
<1>1. UNCHANGED <<log, board, view>> /\ \A t \in Subscribers \ {s} : calling'[t] = calling[t] /\ queue'[t] = queue[t]
  BY DEF Receive, TypeOK
<1>2. queue[s] \in Seq(Event) /\ queue[s] # <<>> /\ calling'[s] = <<Head(queue[s])>> /\ queue'[s] = Tail(queue[s])
  BY DEF Receive, TypeOK
<1>3. /\ Len(queue[s]) \in Nat \ {0} /\ Len(queue'[s]) = Len(queue[s]) - 1
      /\ \A i \in 1 .. Len(queue'[s]) : queue'[s][i] = queue[s][i + 1] /\ i + 1 \in 1 .. Len(queue[s])
      /\ Len(calling'[s]) = 1 /\ calling'[s][1] = queue[s][1] /\ 1 \in 1 .. Len(queue[s])
  BY <1>2
<1>4. OnlyLogged'
  <2>1. ASSUME NEW t \in Subscribers
        PROVE  /\ \A i \in 1 .. Len(calling'[t]) : Logged(calling'[t][i])
               /\ \A i \in 1 .. Len(queue'[t]) : Logged(queue'[t][i])
    <3>1. CASE t = s
      BY <1>3, <3>1 DEF OnlyLogged
    <3>2. CASE t # s
      BY <1>1, <3>2 DEF OnlyLogged
    <3> QED
      BY <3>1, <3>2
  <2>2. log' = log
    BY <1>1
  <2> QED
    BY <2>1, <2>2, StillLogged
<1>5. Between'
  <2> SUFFICES ASSUME NEW t \in Subscribers, NEW b \in Babies, NEW f \in Fields
               PROVE  /\ \A i \in 1 .. Len(calling'[t]) :
                            Touches(calling'[t][i], b, f) =>
                                calling'[t][i].upd[f].at \in view[t][b][f].at .. board[b][f].at
                      /\ \A i \in 1 .. Len(queue'[t]) :
                            Touches(queue'[t][i], b, f) =>
                                queue'[t][i].upd[f].at \in view[t][b][f].at .. board[b][f].at
    BY <1>1 DEF Between, Touches
  <2>1. CASE t = s
    <3>1. ASSUME NEW i \in 1 .. Len(queue'[s]), Touches(queue'[s][i], b, f)
          PROVE  queue'[s][i].upd[f].at \in view[s][b][f].at .. board[b][f].at
      <4>1. queue'[s][i] = queue[s][i + 1] /\ i + 1 \in 1 .. Len(queue[s])
        BY <1>3
      <4> QED
        BY <3>1, <4>1 DEF Between
    <3>2. \A i \in 1 .. Len(calling'[s]) : calling'[s][i] = queue[s][1]
      BY <1>3
    <3>3. Touches(queue[s][1], b, f) => queue[s][1].upd[f].at \in view[s][b][f].at .. board[b][f].at
      BY <1>3 DEF Between
    <3> QED
      BY <2>1, <3>1, <3>2, <3>3
  <2>2. CASE t # s
    BY <1>1, <2>2 DEF Between
  <2> QED
    BY <2>1, <2>2
<1>6. InOrder'
  <2> SUFFICES ASSUME NEW t \in Subscribers, NEW b \in Babies, NEW f \in Fields
               PROVE  /\ \A i \in 1 .. Len(calling'[t]), j \in 1 .. Len(queue'[t]) :
                            Touches(calling'[t][i], b, f) /\ Touches(queue'[t][j], b, f) =>
                                calling'[t][i].upd[f].at <= queue'[t][j].upd[f].at
                      /\ \A i, j \in 1 .. Len(queue'[t]) :
                            i < j /\ Touches(queue'[t][i], b, f) /\ Touches(queue'[t][j], b, f) =>
                                queue'[t][i].upd[f].at <= queue'[t][j].upd[f].at
    BY DEF InOrder, Touches
  <2>1. CASE t = s
    <3>1. ASSUME NEW j \in 1 .. Len(queue'[s]), Touches(queue'[s][j], b, f), Touches(calling'[s][1], b, f)
          PROVE  calling'[s][1].upd[f].at <= queue'[s][j].upd[f].at
      <4>1. queue'[s][j] = queue[s][j + 1] /\ j + 1 \in 1 .. Len(queue[s]) /\ 1 < j + 1
        BY <1>3
      <4> QED
        BY <1>3, <3>1, <4>1 DEF InOrder
    <3>2. ASSUME NEW i \in 1 .. Len(queue'[s]), NEW j \in 1 .. Len(queue'[s]), i < j,
                 Touches(queue'[s][i], b, f), Touches(queue'[s][j], b, f)
          PROVE  queue'[s][i].upd[f].at <= queue'[s][j].upd[f].at
      <4>1. /\ queue'[s][j] = queue[s][j + 1] /\ j + 1 \in 1 .. Len(queue[s])
            /\ queue'[s][i] = queue[s][i + 1] /\ i + 1 \in 1 .. Len(queue[s])
            /\ i + 1 < j + 1
        BY <1>3, <3>2, SMTT(20)
      <4> QED
        BY <3>2, <4>1 DEF InOrder
    <3>3. \A i \in 1 .. Len(calling'[s]) : i = 1
      BY <1>3
    <3> QED
      BY <2>1, <3>1, <3>2, <3>3
  <2>2. CASE t # s
    BY <1>1, <2>2 DEF InOrder
  <2> QED
    BY <2>1, <2>2
<1> QED
  BY <1>4, <1>5, <1>6

\* The callback is given an event that is neither older than what it has been given nor newer
\* than what is left in its queue.
LEMMA CallbackKeepsFeed ==
    ASSUME FeedInv, NEW s \in Subscribers, Callback(s)
    PROVE  OnlyLogged' /\ Between' /\ InOrder'
<1> USE DEF FeedInv
<1> DEFINE e == calling[s][1]
<1>1. UNCHANGED <<log, board, queue>> /\ \A t \in Subscribers \ {s} : calling'[t] = calling[t]
  BY DEF Callback, TypeOK
<1>2. calling'[s] = <<>> /\ calling[s] # <<>> /\ calling[s] \in Seq(Event)
  BY DEF Callback, TypeOK
<1>3. Len(calling'[s]) = 0 /\ 1 \in 1 .. Len(calling[s])
  BY <1>2
<1>4. /\ \A t \in Subscribers \ {s} : view'[t] = view[t]
      /\ \A b \in Babies, f \in Fields :
            view'[s][b][f] = IF Touches(e, b, f) THEN e.upd[f] ELSE view[s][b][f]
  BY CallbackPipeline
<1> HIDE DEF e
<1>5. OnlyLogged'
  <2>1. ASSUME NEW t \in Subscribers
        PROVE  /\ \A i \in 1 .. Len(calling'[t]) : Logged(calling'[t][i])
               /\ \A i \in 1 .. Len(queue'[t]) : Logged(queue'[t][i])
    <3>1. CASE t = s
      BY <1>1, <1>3, <3>1 DEF OnlyLogged
    <3>2. CASE t # s
      BY <1>1, <3>2 DEF OnlyLogged
    <3> QED
      BY <3>1, <3>2
  <2>2. UNCHANGED log
    BY <1>1
  <2> QED
    BY <2>1, <2>2, StillLogged
<1>6. Between'
  <2> SUFFICES ASSUME NEW t \in Subscribers, NEW b \in Babies, NEW f \in Fields
               PROVE  /\ view'[t][b][f].at <= board[b][f].at
                      /\ \A i \in 1 .. Len(calling'[t]) :
                            Touches(calling'[t][i], b, f) =>
                                calling'[t][i].upd[f].at \in view'[t][b][f].at .. board[b][f].at
                      /\ \A i \in 1 .. Len(queue[t]) :
                            Touches(queue[t][i], b, f) =>
                                queue[t][i].upd[f].at \in view'[t][b][f].at .. board[b][f].at
    BY <1>1 DEF Between, Touches
  <2>1. CASE t # s
    BY <1>1, <1>4, <2>1 DEF Between
  <2>2. CASE t = s /\ ~Touches(e, b, f)
    <3>1. view'[t][b][f] = view[t][b][f]
      BY <1>4, <2>2
    <3> QED
      BY <1>3, <2>2, <3>1 DEF Between
  <2>3. CASE t = s /\ Touches(e, b, f)
    <3>1. view'[t][b][f].at = e.upd[f].at
      BY <1>4, <2>3
    <3>2. e.upd[f].at \in view[s][b][f].at .. board[b][f].at
      BY <1>3, <2>3 DEF Between, e
    <3>3. view[s][b][f].at \in Nat /\ board[b][f].at \in Nat
      BY Positions
    <3>4. \A i \in 1 .. Len(queue[s]) :
             Touches(queue[s][i], b, f) =>
                 /\ queue[s][i].upd[f].at \in view[s][b][f].at .. board[b][f].at
                 /\ e.upd[f].at <= queue[s][i].upd[f].at
      BY <1>3, <2>3 DEF Between, InOrder, e
    <3> QED
      BY <1>3, <2>3, <3>1, <3>2, <3>3, <3>4
  <2> QED
    BY <2>1, <2>2, <2>3
<1>7. InOrder'
  <2> SUFFICES ASSUME NEW t \in Subscribers, NEW b \in Babies, NEW f \in Fields
               PROVE  \A i \in 1 .. Len(calling'[t]), j \in 1 .. Len(queue[t]) :
                            Touches(calling'[t][i], b, f) /\ Touches(queue[t][j], b, f) =>
                                calling'[t][i].upd[f].at <= queue[t][j].upd[f].at
    BY <1>1 DEF InOrder, Touches
  <2>1. CASE t = s
    BY <1>3, <2>1
  <2>2. CASE t # s
    BY <1>1, <2>2 DEF InOrder
  <2> QED
    BY <2>1, <2>2
<1> QED
  BY <1>5, <1>6, <1>7

\* Every step keeps what is on its way to the callbacks.
LEMMA OnTheWayStep == FeedInv /\ [Next]_vars => OnlyLogged' /\ Between' /\ InOrder'
<1> SUFFICES ASSUME FeedInv, [Next]_vars PROVE OnlyLogged' /\ Between' /\ InOrder'
  OBVIOUS
<1> USE DEF FeedInv
<1>1. ASSUME NEW w \in Writers, NEW s \in Subscribers, Enqueue(w, s)
      PROVE  OnlyLogged' /\ Between' /\ InOrder'
  <2>1. UNCHANGED <<board, view, calling, log>> /\ Put(s, job[w]) /\ pc[w] = "notifying" /\ job[w] \in Event
    BY <1>1 DEF Enqueue, TypeOK
  <2>2. \A f \in Fields : job[w].upd[f].val # Nil => job[w].upd[f] = board[job[w].baby][f]
    BY <2>1 DEF CellsCurrent
  <2>3. job[w].baby \in Babies
    BY <2>1 DEF Event
  <2>4. Logged(job[w])
    BY <2>2, <2>3 DEF CellsCurrent, Logged
  <2> QED
    BY <2>1, <2>2, <2>4, PutFeed
<1>2. ASSUME NEW s \in Subscribers, Prime(s)
      PROVE  OnlyLogged' /\ Between' /\ InOrder'
  <2>1. PICK e \in toPrime[s] : Put(s, e)
    BY <1>2 DEF Prime
  <2>2. UNCHANGED <<board, view, calling, log>> /\ e \in Event /\ e.upd = board[e.baby]
    BY <1>2 DEF Prime, TypeOK, PrimingCurrent
  <2>3. e.baby \in Babies
    BY <2>2 DEF Event
  <2>4. Logged(e)
    BY <2>2, <2>3 DEF CellsCurrent, Logged
  <2> QED
    BY <2>1, <2>2, <2>4, PutFeed
<1>3. ASSUME UNCHANGED <<log, board, calling, queue, view>>
      PROVE  OnlyLogged' /\ Between' /\ InOrder'
  <2>1. OnlyLogged'
    <3>1. \A t \in Subscribers : /\ \A i \in 1 .. Len(calling'[t]) : Logged(calling'[t][i])
                                 /\ \A i \in 1 .. Len(queue'[t]) : Logged(queue'[t][i])
      BY <1>3 DEF OnlyLogged
    <3> QED
      BY <1>3, <3>1, StillLogged
  <2>2. Between' /\ InOrder'
    BY <1>3 DEF Between, InOrder, Touches
  <2> QED
    BY <2>1, <2>2
<1>4. ASSUME NEW w \in Writers, Snapshot(w) \/ Return(w)
      PROVE  UNCHANGED <<log, board, calling, queue, view>>
  BY <1>4 DEF Snapshot, Return
<1>5. ASSUME NEW s \in Subscribers,
             Subscribe(s) \/ BeginPriming(s) \/ EndPriming(s) \/ Unsubscribe(s) \/ CloseDone(s) \/ Exit(s)
      PROVE  UNCHANGED <<log, board, calling, queue, view>>
  BY <1>5 DEF Subscribe, BeginPriming, EndPriming, Unsubscribe, CloseDone, Exit
<1>6. CASE UNCHANGED vars
  BY <1>3, <1>6 DEF vars
<1>7. ASSUME NEW w \in Writers, NEW b \in Babies, Store(w, b) PROVE OnlyLogged' /\ Between' /\ InOrder'
  BY <1>7, StoreKeepsFeed
<1>8. ASSUME NEW s \in Subscribers, Receive(s) PROVE OnlyLogged' /\ Between' /\ InOrder'
  BY <1>8, ReceiveKeepsFeed
<1>9. ASSUME NEW s \in Subscribers, Callback(s) PROVE OnlyLogged' /\ Between' /\ InOrder'
  BY <1>9, CallbackKeepsFeed
<1> QED
  BY <1>1, <1>2, <1>3, <1>4, <1>5, <1>6, <1>7, <1>8, <1>9
     DEF Next, WriterStep, SubscribeStep, WorkerStep

LEMMA FeedInvStep == SingleWriter /\ FeedInv /\ [Next]_vars => FeedInv'
BY NextTypeOK, JobCurrentStep, PrimingCurrentStep, CellsCurrentStep, OnTheWayStep DEF FeedInv

LEMMA FeedInvInit == Init => FeedInv
<1> SUFFICES ASSUME Init PROVE FeedInv
  OBVIOUS
<1>1. TypeOK
  BY InitTypeOK
<1>2. JobCurrent /\ PrimingCurrent
  BY DEF Init, JobCurrent, PrimingCurrent
<1>3. CellsCurrent
  BY DEF Init, CellsCurrent, Logged, NewState, Unset
<1>4. OnlyLogged /\ Between /\ InOrder
  BY DEF Init, OnlyLogged, Between, InOrder, NewState, Unset
<1> QED
  BY <1>1, <1>2, <1>3, <1>4 DEF FeedInv

\* A store publishes its event in the feed.
LEMMA StorePublishes ==
    ASSUME TypeOK, NEW w \in Writers, NEW b \in Babies, Store(w, b)
    PROVE  Feed!Publish
<1>1. PICK u \in PartialStates(w, b) : log' = Append(log, [baby |-> b, upd |-> u])
  BY DEF Store
<1>2. PICK v \in [Fields -> Values \cup {Nil}] :
        u = [f \in Fields |-> IF v[f] = Nil THEN Unset ELSE [val |-> v[f], at |-> Len(log) + 1]]
  BY DEF PartialStates
<1>3. u = Feed!Stamped(v, Len(log) + 1)
  BY <1>2 DEF Feed!Stamped, Feed!Unset, Unset
<1>4. view' = view
  BY DEF Store
<1> QED
  BY <1>1, <1>3, <1>4 DEF Feed!Publish

\* A callback shows the cells of its event, which are in the log and not older than those shown.
LEMMA CallbackShows ==
    ASSUME FeedInv, NEW s \in Subscribers, Callback(s)
    PROVE  Feed!Show(s)
<1> USE DEF FeedInv
<1> DEFINE e == calling[s][1]
           b == e.baby
<1>1. UNCHANGED log /\ calling[s] # <<>> /\ calling[s] \in Seq(Event)
      /\ view' = [view EXCEPT ![s][b] = Merge(@, e.upd)]
  BY DEF Callback, TypeOK
<1>2. e \in Event /\ 1 \in 1 .. Len(calling[s])
  BY <1>1
<1>3. b \in Babies
  BY <1>2 DEF Event
<1>4. view' = [view EXCEPT ![s][b] = view'[s][b]]
  <2>1. view'[s][b] = Merge(view[s][b], e.upd)
    BY <1>1, <1>3 DEF TypeOK
  <2> QED
    BY <1>1, <2>1
<1>5. ASSUME NEW f \in Fields
      PROVE  \/ view'[s][b][f] = view[s][b][f]
             \/ Feed!InLog(view'[s][b][f], b, f) /\ view'[s][b][f].at >= view[s][b][f].at
  <2>1. view'[s][b][f] = IF Touches(e, b, f) THEN e.upd[f] ELSE view[s][b][f]
    BY <1>3, CallbackPipeline
  <2>2. CASE Touches(e, b, f)
    <3>1. Feed!InLog(e.upd[f], b, f)
      BY <1>2, <2>2 DEF OnlyLogged, Logged, Touches
    <3>2. e.upd[f].at \in view[s][b][f].at .. board[b][f].at /\ view[s][b][f].at \in Nat
      BY <1>2, <1>3, <2>2, Positions DEF Between
    <3> QED
      BY <2>1, <2>2, <3>1, <3>2
  <2> QED
    BY <2>1, <2>2
<1> HIDE DEF b
<1> QED
  BY <1>1, <1>3, <1>4, <1>5 DEF Feed!Show

\* Every step is a step of the feed or none.
LEMMA FeedStep == FeedInv /\ [Next]_vars => [Feed!FeedNext]_(Feed!feedVars)
<1> SUFFICES ASSUME FeedInv, [Next]_vars PROVE [Feed!FeedNext]_(Feed!feedVars)
  OBVIOUS
<1>1. ASSUME NEW w \in Writers, NEW b \in Babies, Store(w, b) PROVE Feed!FeedNext
  BY <1>1, StorePublishes DEF FeedInv, Feed!FeedNext
<1>2. ASSUME NEW s \in Subscribers, Callback(s) PROVE Feed!FeedNext
  BY <1>2, CallbackShows DEF Feed!FeedNext
<1>3. ASSUME NEW w \in Writers, WriterStep(w) PROVE UNCHANGED <<log, view>>
  BY <1>3 DEF WriterStep, Snapshot, Enqueue, Return
<1>4. ASSUME NEW s \in Subscribers,
             Subscribe(s) \/ SubscribeStep(s) \/ Unsubscribe(s) \/ Receive(s) \/ Exit(s)
      PROVE  UNCHANGED <<log, view>>
  BY <1>4 DEF Subscribe, SubscribeStep, Unsubscribe, BeginPriming, Prime, EndPriming, CloseDone, Receive, Exit
<1> QED
  BY <1>1, <1>2, <1>3, <1>4 DEF Next, WorkerStep, vars, Feed!feedVars

\* When every field has one writing goroutine, StateManager implements StateFeed: every callback
\* reads the log of stores forwards, for any queues, drops and subscribers.
THEOREM FeedCorrect ==
    ASSUME SingleWriter
    PROVE  Spec => FeedRefinement
<1>1. Init => Feed!FeedInit
  BY DEF Init, Feed!FeedInit, NewState, Unset, Feed!Unset
<1>2. FeedInv /\ [Next]_vars => FeedInv'
  BY FeedInvStep
<1> QED
  BY <1>1, <1>2, FeedInvInit, FeedStep, PTL DEF Spec, FeedRefinement, Feed!FeedSpec

\* No callback is given an older value of a field than it was given before (enqueue and the
\* worker keep the order of the stores, whatever is dropped).
THEOREM ForwardsCorrect ==
    ASSUME SingleWriter
    PROVE  Spec => NeverBackwards
<1>1. ASSUME FeedInv, [Next]_vars
      PROVE  [\A s \in Subscribers, b \in Babies, f \in Fields : view'[s][b][f].at >= view[s][b][f].at]_vars
  <2> SUFFICES ASSUME NEW s \in Subscribers, NEW b \in Babies, NEW f \in Fields
               PROVE  view'[s][b][f].at >= view[s][b][f].at
    OBVIOUS
  <2>1. view[s][b][f].at \in Nat
    BY <1>1, Positions DEF FeedInv
  <2>2. CASE UNCHANGED view
    BY <2>1, <2>2
  <2>3. ASSUME NEW t \in Subscribers, Callback(t) PROVE view'[s][b][f].at >= view[s][b][f].at
    <3>1. CASE t # s \/ ~Touches(calling[t][1], b, f)
      <4>1. view'[s][b][f] = view[s][b][f]
        BY <1>1, <2>3, <3>1, CallbackPipeline DEF FeedInv
      <4> QED
        BY <2>1, <4>1
    <3>2. CASE t = s /\ Touches(calling[t][1], b, f)
      <4>1. view'[s][b][f] = calling[s][1].upd[f]
        BY <1>1, <2>3, <3>2, CallbackPipeline DEF FeedInv
      <4>2. 1 \in 1 .. Len(calling[s])
        BY <1>1, <2>3, <3>2 DEF Callback, FeedInv, TypeOK
      <4>3. calling[s][1].upd[f].at \in view[s][b][f].at .. board[b][f].at
        BY <1>1, <3>2, <4>2 DEF FeedInv, Between
      <4> QED
        BY <2>1, <4>1, <4>3
    <3> QED
      BY <3>1, <3>2
  <2>4. \/ UNCHANGED view
        \/ \E t \in Subscribers : Callback(t)
    BY <1>1 DEF Next, WriterStep, SubscribeStep, WorkerStep, Store, Snapshot, Enqueue, Return, Subscribe,
       BeginPriming, Prime, EndPriming, Unsubscribe, CloseDone, Receive, Exit, vars
  <2> QED
    BY <2>2, <2>3, <2>4
<1>2. FeedInv /\ [Next]_vars => FeedInv'
  BY FeedInvStep
<1> QED
  BY <1>1, <1>2, FeedInvInit, PTL DEF Spec, NeverBackwards

=============================================================================
