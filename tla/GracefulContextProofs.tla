------------------------ MODULE GracefulContextProofs ------------------------
(***************************************************************************)
(* Proofs about GracefulContext, for every finite tree of contexts,        *)
(* whoever calls RunAsChild, and whenever.                                 *)
(***************************************************************************)
EXTENDS GracefulContext, FiniteSetTheorems, TLAPS

\* The node whose parent is concerned is in the tree.
LEMMA ParentInTree ==
    ASSUME NEW n \in Nodes, n # Root
    PROVE  Parent[n] \in Nodes /\ n \in Children(Parent[n])
BY ParentAssumption DEF Children

\* The set of children that have not reported is finite.
LEMMA OutstandingFinite ==
    ASSUME NEW n \in Nodes
    PROVE  IsFiniteSet(Outstanding(n)) /\ Cardinality(Outstanding(n)) \in Nat
<1>1. Outstanding(n) \in SUBSET Nodes
  BY DEF Outstanding, Children
<1>2. IsFiniteSet(Outstanding(n))
  BY <1>1, FiniteAssumption, FS_Subset
<1>3. QED
  BY <1>2, FS_CardinalityType

\* One goroutine moves on: only the set of its parent can change, and only by it.
LEMMA OutstandingStep ==
    ASSUME TypeOK, NEW n \in Nodes, NEW x, stage' = [stage EXCEPT ![n] = x],
           NEW m \in Nodes
    PROVE  Outstanding(m)' = IF n \notin Children(m) THEN Outstanding(m)
                             ELSE IF x \in Counted THEN Outstanding(m) \cup {n}
                             ELSE Outstanding(m) \ {n}
BY DEF TypeOK, Outstanding, Children

\* What Done changes.
LEMMA DoneEffect ==
    ASSUME TypeOK, NEW p \in Nodes, Done(p), wg[p] > 0
    PROVE  /\ wg' = [wg EXCEPT ![p] = @ - 1]
           /\ wg' \in [Nodes -> Nat]
           /\ canceller' \in [Nodes -> {"none", "select", "failed", "gone"} \cup Waits]
           /\ joiner' \in [Nodes -> {"idle"} \cup Waits]
           /\ \A n \in Nodes : \/ canceller'[n] = canceller[n]
                               \/ canceller[n] = "blocked" /\ canceller'[n] = "woken"
<1>1. wg' = [wg EXCEPT ![p] = @ - 1] /\ wg' \in [Nodes -> Nat]
  BY DEF Done, TypeOK
<1>2. CASE UNCHANGED <<canceller, joiner>>
  BY <1>1, <1>2 DEF TypeOK
<1>3. CASE canceller' = Woken(canceller, p) /\ joiner' = Woken(joiner, p)
  BY <1>1, <1>3 DEF TypeOK, Woken, Waits
<1>4. QED
  BY <1>2, <1>3 DEF Done

\* A counted child makes the counter of its parent positive; so does a live goroutine.
LEMMA CounterPositive ==
    ASSUME TypeOK, WaitGroupExact, NEW n \in Nodes,
           (stage[n] \in Alive) \/ (\E c \in Children(n) : stage[c] \in Counted)
    PROVE  wg[n] > 0
<1>1. Cardinality(Outstanding(n)) \in Nat /\ IsFiniteSet(Outstanding(n))
  BY OutstandingFinite
<1>2. wg[n] = Cardinality(Outstanding(n)) + IF stage[n] \in Alive THEN 1 ELSE 0
  BY DEF WaitGroupExact
<1>3. CASE stage[n] \in Alive
  BY <1>1, <1>2, <1>3
<1>4. CASE \E c \in Children(n) : stage[c] \in Counted
  <2>1. Outstanding(n) # {}
    BY <1>4 DEF Outstanding
  <2>2. Cardinality(Outstanding(n)) # 0
    BY <1>1, <2>1, FS_EmptySet
  <2>3. QED
    BY <1>1, <1>2, <2>2
<1>5. QED
  BY <1>3, <1>4

\* A counter at zero means that the goroutine has ended and no child is counted.
LEMMA CounterZero ==
    ASSUME TypeOK, WaitGroupExact, NEW n \in Nodes, wg[n] = 0
    PROVE  stage[n] \notin Alive /\ \A c \in Children(n) : stage[c] \notin Counted
BY CounterPositive

-----------------------------------------------------------------------------
\* Initially only the goroutine of the root is counted.
LEMMA TreeInvInit == Init => TreeInv
<1> SUFFICES ASSUME Init PROVE TreeInv
  OBVIOUS
<1>1. TypeOK
  BY RootAssumption DEF Init, TypeOK, Stages, Ended, Counted, Alive, Waits
<1>2. WaitGroupExact
  <2> SUFFICES ASSUME NEW n \in Nodes
               PROVE  wg[n] = Cardinality(Outstanding(n)) + IF stage[n] \in Alive THEN 1 ELSE 0
    BY DEF WaitGroupExact
  <2>1. Outstanding(n) = {}
    BY DEF Init, Outstanding, Children, Counted
  <2>2. Cardinality(Outstanding(n)) = 0
    BY <2>1, FS_EmptySet
  <2>3. QED
    BY <2>2 DEF Init, Alive
<1>3. Born
  BY RootAssumption DEF Init, Born, Started, Alive, Children
<1>4. CancelledFirst
  BY DEF Init, CancelledFirst
<1>5. CancelAwaitsChildren
  BY DEF Init, CancelAwaitsChildren
<1>6. QED
  BY <1>1, <1>2, <1>3, <1>4, <1>5 DEF TreeInv

\* Every step keeps the types; Done never takes a counter below zero.
LEMMA TypeStep == TreeInv /\ [Next]_vars => TypeOK'
<1> SUFFICES ASSUME TreeInv, [Next]_vars PROVE TypeOK'
  OBVIOUS
<1> USE DEF TreeInv
<1>1. ASSUME NEW n \in Nodes, Add(n) PROVE TypeOK'
  BY <1>1, ParentInTree DEF TypeOK, Add, Stages, Counted
<1>2. ASSUME NEW n \in Nodes, Refuse(n) PROVE TypeOK'
  <2>1. n # Root
    BY <1>2 DEF Refuse, Born
  <2>2. wg[Parent[n]] > 0
    BY <1>2, <2>1, ParentInTree, CounterPositive DEF Refuse, Counted
  <2>3. QED
    BY <1>2, <2>1, <2>2, ParentInTree, DoneEffect DEF Refuse, TypeOK, Stages, Ended
<1>3. ASSUME NEW n \in Nodes, Accept(n) PROVE TypeOK'
  BY <1>3 DEF TypeOK, Accept, Stages, Counted
<1>4. ASSUME NEW n \in Nodes, Start(n) PROVE TypeOK'
  BY <1>4 DEF TypeOK, Start, Stages, Counted
<1>5. ASSUME NEW n \in Nodes, CallbackReturns(n) PROVE TypeOK'
  BY <1>5 DEF TypeOK, CallbackReturns, Stages, Counted
<1>6. ASSUME NEW n \in Nodes, ReportToParent(n) PROVE TypeOK'
  <2>1. wg[Parent[n]] > 0
    BY <1>6, ParentInTree, CounterPositive DEF ReportToParent, Counted
  <2>2. QED
    BY <1>6, <2>1, ParentInTree, DoneEffect DEF ReportToParent, TypeOK, Stages, Alive
<1>7. ASSUME NEW n \in Nodes, Unblock(n) PROVE TypeOK'
  BY <1>7 DEF TypeOK, Unblock, Stages, Alive
<1>8. ASSUME NEW n \in Nodes, Finish(n) PROVE TypeOK'
  <2>1. wg[n] > 0
    BY <1>8, CounterPositive DEF Finish, Alive
  <2>2. QED
    BY <1>8, <2>1, DoneEffect DEF Finish, TypeOK, Stages, Ended
<1>9. ASSUME NEW n \in Nodes, Fail(n) \/ CancelFails(n) PROVE TypeOK'
  BY <1>9 DEF TypeOK, Fail, CancelFails
<1>10. ASSUME NEW n \in Nodes,
              CancellerLeaves(n) \/ CancelWaits(n) \/ CancelWakes(n)
              \/ JoinWaits(n) \/ JoinWakes(n)
       PROVE  TypeOK'
  BY <1>10 DEF TypeOK, CancellerLeaves, CancelWaits, CancelWakes, JoinWaits, JoinWakes, Waits
<1>11. CASE UNCHANGED vars
  BY <1>11 DEF TypeOK, vars
<1>12. QED
  BY <1>1, <1>2, <1>3, <1>4, <1>5, <1>6, <1>7, <1>8, <1>9, <1>10, <1>11
     DEF Next, Spawning, Leaving, Cancelling

\* What is said of one counter.
Exact(m) == wg[m] = Cardinality(Outstanding(m)) + IF stage[m] \in Alive THEN 1 ELSE 0

\* Every step keeps the counters exact: Add, Done and Start move a counter and the set
\* of what it counts together.
LEMMA ExactStep == TreeInv /\ [Next]_vars => WaitGroupExact'
<1> SUFFICES ASSUME TreeInv, [Next]_vars, NEW m \in Nodes PROVE Exact(m)'
  BY DEF WaitGroupExact, Exact
<1> USE DEF TreeInv
<1>0. /\ Exact(m)
      /\ IsFiniteSet(Outstanding(m)) /\ Cardinality(Outstanding(m)) \in Nat
      /\ wg[m] \in Nat
  BY OutstandingFinite DEF WaitGroupExact, Exact, TypeOK
<1>1. ASSUME NEW n \in Nodes, Add(n) PROVE Exact(m)'
  <2>1. stage' = [stage EXCEPT ![n] = "adding"] /\ wg' = [wg EXCEPT ![Parent[n]] = @ + 1]
        /\ stage[n] = "none" /\ n # Root
    BY <1>1 DEF Add
  <2>2. stage'[m] \in Alive <=> stage[m] \in Alive
    BY <2>1 DEF TypeOK, Alive
  <2>3. CASE n \in Children(m)
    <3>1. Outstanding(m)' = Outstanding(m) \cup {n} /\ n \notin Outstanding(m)
      BY <2>1, <2>3, OutstandingStep DEF Counted, Outstanding
    <3>2. Cardinality(Outstanding(m)') = Cardinality(Outstanding(m)) + 1
      BY <1>0, <3>1, FS_AddElement
    <3>3. wg'[m] = wg[m] + 1
      BY <2>1, <2>3 DEF TypeOK, Children
    <3>4. QED
      BY <1>0, <2>2, <3>2, <3>3 DEF Exact
  <2>4. CASE n \notin Children(m)
    <3>1. Outstanding(m)' = Outstanding(m)
      BY <2>1, <2>4, OutstandingStep
    <3>2. wg'[m] = wg[m]
      BY <2>1, <2>4 DEF TypeOK, Children
    <3>3. QED
      BY <1>0, <2>2, <3>1, <3>2 DEF Exact
  <2>5. QED
    BY <2>3, <2>4
<1>2. ASSUME NEW n \in Nodes, Refuse(n) \/ ReportToParent(n) PROVE Exact(m)'
  <2>1. n # Root /\ stage[n] \in {"adding", "returned"}
    BY <1>2 DEF Refuse, ReportToParent, Born
  <2>2. PICK x \in {"refused", "reported"} :
           /\ stage' = [stage EXCEPT ![n] = x]
           /\ stage[n] = IF x = "refused" THEN "adding" ELSE "returned"
    BY <1>2 DEF Refuse, ReportToParent
  <2>3. wg' = [wg EXCEPT ![Parent[n]] = @ - 1]
    BY <1>2 DEF Refuse, ReportToParent, Done
  <2>4. stage'[m] \in Alive <=> stage[m] \in Alive
    BY <2>2 DEF TypeOK, Alive
  <2>5. CASE n \in Children(m)
    <3>1. Outstanding(m)' = Outstanding(m) \ {n} /\ n \in Outstanding(m)
      BY <2>1, <2>2, <2>5, OutstandingStep DEF Counted, Outstanding
    <3>2. Cardinality(Outstanding(m)') = Cardinality(Outstanding(m)) - 1
      BY <1>0, <3>1, FS_RemoveElement
    <3>3. wg'[m] = wg[m] - 1
      BY <2>3, <2>5 DEF TypeOK, Children
    <3>4. QED
      BY <1>0, <2>4, <3>2, <3>3 DEF Exact
  <2>6. CASE n \notin Children(m)
    <3>1. Outstanding(m)' = Outstanding(m)
      BY <2>2, <2>6, OutstandingStep
    <3>2. wg'[m] = wg[m]
      BY <2>1, <2>3, <2>6 DEF TypeOK, Children
    <3>3. QED
      BY <1>0, <2>4, <3>1, <3>2 DEF Exact
  <2>7. QED
    BY <2>5, <2>6
<1>3. ASSUME NEW n \in Nodes, Accept(n) \/ CallbackReturns(n) \/ Unblock(n) PROVE Exact(m)'
  <2>1. PICK x \in {"checked", "returned", "unblocked"} :
           /\ stage' = [stage EXCEPT ![n] = x]
           /\ stage[n] = IF x = "checked" THEN "adding"
                         ELSE IF x = "returned" THEN "running" ELSE "reported"
    BY <1>3 DEF Accept, CallbackReturns, Unblock
  <2>2. wg' = wg
    BY <1>3 DEF Accept, CallbackReturns, Unblock
  <2>3. stage'[m] \in Alive <=> stage[m] \in Alive
    BY <2>1 DEF TypeOK, Alive
  <2>4. Outstanding(m)' = Outstanding(m)
    BY <2>1 DEF TypeOK, Outstanding, Children, Counted
  <2>5. QED
    BY <1>0, <2>2, <2>3, <2>4 DEF Exact
<1>4. ASSUME NEW n \in Nodes, Start(n) PROVE Exact(m)'
  <2>1. /\ stage' = [stage EXCEPT ![n] = "running"] /\ wg' = [wg EXCEPT ![n] = 1]
        /\ stage[n] = "checked"
    BY <1>4 DEF Start
  <2>2. Outstanding(m)' = Outstanding(m)
    BY <2>1 DEF TypeOK, Outstanding, Children, Counted
  <2>3. CASE m # n
    BY <1>0, <2>1, <2>2, <2>3 DEF Exact, TypeOK
  <2>4. CASE m = n
    <3>1. ~Started(n)
      BY <2>1 DEF Started, Alive
    <3>2. Outstanding(n) = {}
      BY <3>1 DEF Born, Outstanding, Counted
    <3>3. Cardinality(Outstanding(n)) = 0
      BY <3>2, FS_EmptySet
    <3>4. wg'[n] = 1 /\ stage'[n] \in Alive
      BY <2>1 DEF TypeOK, Alive
    <3>5. QED
      BY <2>2, <2>4, <3>3, <3>4 DEF Exact
  <2>5. QED
    BY <2>3, <2>4
<1>5. ASSUME NEW n \in Nodes, Finish(n) PROVE Exact(m)'
  <2>1. /\ stage' = [stage EXCEPT ![n] = "finished"] /\ wg' = [wg EXCEPT ![n] = @ - 1]
        /\ stage[n] \in Alive /\ (n # Root => stage[n] = "unblocked")
    BY <1>5 DEF Finish, Done, Alive
  <2>2. Outstanding(m)' = Outstanding(m)
    BY <2>1 DEF TypeOK, Outstanding, Children, Counted
  <2>3. CASE m # n
    BY <1>0, <2>1, <2>2, <2>3 DEF Exact, TypeOK
  <2>4. CASE m = n
    <3>1. stage'[n] \notin Alive /\ wg'[n] = wg[n] - 1
      BY <2>1 DEF TypeOK, Alive
    <3>2. QED
      BY <1>0, <2>1, <2>2, <2>4, <3>1 DEF Exact
  <2>5. QED
    BY <2>3, <2>4
<1>6. ASSUME UNCHANGED <<stage, wg>> PROVE Exact(m)'
  BY <1>0, <1>6 DEF Exact, Outstanding
<1>7. QED
  BY <1>1, <1>2, <1>3, <1>4, <1>5, <1>6
     DEF Next, vars, Spawning, Leaving, Cancelling, Fail, CancelFails, CancellerLeaves,
         CancelWaits, CancelWakes, JoinWaits, JoinWakes

\* A goroutine that has been started stays so.
LEMMA StartedStays ==
    ASSUME TypeOK, [Next]_vars, NEW m \in Nodes, Started(m)
    PROVE  Started(m)'
BY DEF TypeOK, Next, vars, Spawning, Leaving, Cancelling, Add, Refuse, Accept, Start,
       CallbackReturns, ReportToParent, Unblock, Finish, Fail, CancelFails,
       CancellerLeaves, CancelWaits, CancelWakes, JoinWaits, JoinWakes, Started, Alive

\* Every step keeps the tree rooted in goroutines that have been started.
LEMMA BornStep == TreeInv /\ [Next]_vars => Born'
<1> SUFFICES ASSUME TreeInv, [Next]_vars PROVE Born'
  OBVIOUS
<1> USE DEF TreeInv
<1>1. stage'[Root] \in {"running", "returned", "finished"}
  BY RootAssumption DEF Born, TypeOK, Next, vars, Spawning, Leaving, Cancelling, Add, Refuse,
     Accept, Start, CallbackReturns, ReportToParent, Unblock, Finish, Fail, CancelFails,
     CancellerLeaves, CancelWaits, CancelWakes, JoinWaits, JoinWakes
<1>2. ASSUME NEW m \in Nodes, cancelled'[m] PROVE Started(m)'
  <2>1. CASE cancelled[m]
    BY <2>1, StartedStays DEF Born
  <2>2. CASE ~cancelled[m]
    <3>1. Fail(m) \/ CancelFails(m)
      BY <1>2, <2>2 DEF TypeOK, Next, vars, Spawning, Leaving, Cancelling, Add, Refuse,
         Accept, Start, CallbackReturns, ReportToParent, Unblock, Finish, Fail, CancelFails,
         CancellerLeaves, CancelWaits, CancelWakes, JoinWaits, JoinWakes
    <3>2. Started(m)
      BY <3>1 DEF Born, Fail, CancelFails, Started
    <3>3. QED
      BY <3>2, StartedStays
  <2>3. QED
    BY <2>1, <2>2
<1>3. ASSUME NEW m \in Nodes, canceller'[m] # "none" PROVE Started(m)'
  <2>1. CASE canceller[m] # "none"
    BY <2>1, StartedStays DEF Born
  <2>2. CASE canceller[m] = "none"
    <3>1. Start(m)
      BY <1>3, <2>2 DEF TypeOK, Next, vars, Spawning, Leaving, Cancelling, Add, Refuse,
         Accept, Start, CallbackReturns, ReportToParent, Unblock, Finish, Fail, CancelFails,
         CancellerLeaves, CancelWaits, CancelWakes, JoinWaits, JoinWakes, Done, Woken
    <3>2. QED
      BY <3>1 DEF Start, TypeOK, Started, Alive
  <2>3. QED
    BY <2>1, <2>2
<1>4. ASSUME NEW m \in Nodes, NEW c \in Children(m), stage'[c] # "none" PROVE Started(m)'
  <2>1. c \in Nodes \ {Root} /\ Parent[c] = m
    BY DEF Children
  <2>2. CASE stage[c] # "none"
    BY <2>2, StartedStays DEF Born
  <2>3. CASE stage[c] = "none"
    <3>1. Add(c)
      BY <1>4, <2>1, <2>3 DEF TypeOK, Next, vars, Spawning, Leaving, Cancelling, Add, Refuse,
         Accept, Start, CallbackReturns, ReportToParent, Unblock, Finish, Fail, CancelFails,
         CancellerLeaves, CancelWaits, CancelWakes, JoinWaits, JoinWakes
    <3>2. Started(m)
      BY <2>1, <3>1 DEF Add, Born, Started, Alive
    <3>3. QED
      BY <3>2, StartedStays
  <2>4. QED
    BY <2>2, <2>3
<1>5. \A m \in Nodes : Children(m)' = Children(m)
  BY DEF Children
<1>6. QED
  BY <1>1, <1>2, <1>3, <1>4, <1>5 DEF Born

\* A context never stops being cancelled.
LEMMA FailStep ==
    ASSUME TypeOK, [Next]_vars, NEW m \in Nodes
    PROVE  cancelled[m] => cancelled'[m]
BY DEF TypeOK, Next, vars, Spawning, Leaving, Cancelling, Add, Refuse, Accept,
       Start, CallbackReturns, ReportToParent, Unblock, Finish, Fail, CancelFails,
       CancellerLeaves, CancelWaits, CancelWakes, JoinWaits, JoinWakes

\* Every step keeps the order of Fail and Wait inside Cancel.
LEMMA CancelledFirstStep == TreeInv /\ [Next]_vars => CancelledFirst'
<1> SUFFICES ASSUME TreeInv, [Next]_vars, NEW m \in Nodes,
                    canceller'[m] \in {"failed", "blocked", "woken", "done"}
             PROVE  cancelled'[m]
  BY FailStep DEF TreeInv, CancelledFirst
<1> USE DEF TreeInv
<1>1. CASE canceller[m] \in {"failed", "blocked", "woken", "done"}
  BY <1>1, FailStep DEF CancelledFirst
<1>2. CASE canceller[m] \notin {"failed", "blocked", "woken", "done"}
  <2>1. CancelFails(m)
    BY <1>2 DEF TypeOK, Next, vars, Spawning, Leaving, Cancelling, Add, Refuse, Accept,
       Start, CallbackReturns, ReportToParent, Unblock, Finish, Fail, CancelFails,
       CancellerLeaves, CancelWaits, CancelWakes, JoinWaits, JoinWakes, Done, Woken
  <2>2. QED
    BY <2>1 DEF CancelFails, TypeOK
<1>3. QED
  BY <1>1, <1>2

\* A wait inside Cancel returns only at zero, and a child refused after it stays out.
LEMMA CancelAwaitsStep == TreeInv /\ [Next]_vars => CancelAwaitsChildren'
<1> SUFFICES ASSUME TreeInv, [Next]_vars, NEW m \in Nodes, canceller'[m] = "done"
             PROVE  /\ stage'[m] = "finished"
                    /\ \A c \in Children(m) : stage'[c] \notin InCallback
  BY DEF CancelAwaitsChildren, Children
<1> USE DEF TreeInv
<1>1. CASE canceller[m] = "done"
  <2>1. stage[m] = "finished" /\ cancelled[m]
    BY <1>1 DEF CancelAwaitsChildren, CancelledFirst
  <2>2. stage'[m] = "finished"
    BY <2>1 DEF TypeOK, Next, vars, Spawning, Leaving, Cancelling, Add, Refuse, Accept,
       Start, CallbackReturns, ReportToParent, Unblock, Finish, Fail, CancelFails,
       CancellerLeaves, CancelWaits, CancelWakes, JoinWaits, JoinWakes, Alive
  <2>3. ASSUME NEW c \in Children(m) PROVE stage'[c] \notin InCallback
    <3>1. c \in Nodes /\ Parent[c] = m /\ stage[c] \notin InCallback
      BY <1>1 DEF CancelAwaitsChildren, Children
    <3>2. QED
      BY <2>1, <3>1 DEF TypeOK, Next, vars, Spawning, Leaving, Cancelling, Add, Refuse, Accept,
         Start, CallbackReturns, ReportToParent, Unblock, Finish, Fail, CancelFails,
         CancellerLeaves, CancelWaits, CancelWakes, JoinWaits, JoinWakes, InCallback
  <2>4. QED
    BY <2>2, <2>3
<1>2. CASE canceller[m] # "done"
  <2>1. CancelWaits(m) \/ CancelWakes(m)
    BY <1>2 DEF TypeOK, Next, vars, Spawning, Leaving, Cancelling, Add, Refuse, Accept,
       Start, CallbackReturns, ReportToParent, Unblock, Finish, Fail, CancelFails,
       CancellerLeaves, CancelWaits, CancelWakes, JoinWaits, JoinWakes, Done, Woken
  <2>2. wg[m] = 0 /\ canceller[m] # "none" /\ stage' = stage
    BY <2>1 DEF CancelWaits, CancelWakes, TypeOK
  <2>3. stage[m] \notin Alive /\ \A c \in Children(m) : stage[c] \notin Counted
    BY <2>2, CounterZero
  <2>4. stage[m] = "finished"
    BY <2>2, <2>3 DEF Born, Started
  <2>5. QED
    BY <2>2, <2>3, <2>4 DEF InCallback, Counted
<1>3. QED
  BY <1>1, <1>2

\* The inductive invariant of the tree of contexts.
THEOREM TreeInvariant == Spec => []TreeInv
<1>1. TreeInv /\ [Next]_vars => TreeInv'
  BY TypeStep, ExactStep, BornStep, CancelledFirstStep, CancelAwaitsStep DEF TreeInv
<1>2. QED
  BY <1>1, TreeInvInit, PTL DEF Spec

-----------------------------------------------------------------------------
\* In every tree of contexts the WaitGroup counters are exact, hence never
\* negative: no wait on one is released while a child or its own goroutine is counted.
THEOREM WaitGroupCorrect == Spec => []WaitGroupExact
BY TreeInvariant, PTL DEF TreeInv

\* In every tree of contexts, a returned Cancel means that the callback of the context
\* and those of its children have returned and that no child can enter its own any more,
\* even if goroutines left behind call RunAsChild at any moment.
THEOREM CancelCorrect == Spec => []CancelAwaitsChildren
BY TreeInvariant, PTL DEF TreeInv

-----------------------------------------------------------------------------
(* Who can make a wait panic                                               *)

\* A counter reaches zero when the goroutine has ended.
EndedAtZero == \A n \in Nodes : wg[n] = 0 => stage[n] \notin Alive

LEMMA Zero == TypeOK /\ WaitGroupExact => EndedAtZero
BY CounterZero DEF EndedAtZero

\* A waiter is woken by the Done that reaches zero.
LEMMA WokenByZero ==
    ASSUME TypeOK, [Next]_vars, NEW m \in Nodes,
           "woken" \in {canceller'[m], joiner'[m]}, "woken" \notin {canceller[m], joiner[m]}
    PROVE  wg'[m] = 0 /\ "blocked" \in {canceller[m], joiner[m]}
BY ParentInTree DEF TypeOK, Next, vars, Spawning, Leaving, Cancelling, Add, Refuse, Accept, Start,
         CallbackReturns, ReportToParent, Unblock, Finish, Fail, CancelFails, CancellerLeaves,
         CancelWaits, CancelWakes, JoinWaits, JoinWakes, Done, Woken

\* A goroutine that has ended stays so.
LEMMA FinishedStays ==
    ASSUME TypeOK, [Next]_vars, NEW m \in Nodes, stage[m] = "finished"
    PROVE  stage'[m] = "finished"
BY DEF TypeOK, Next, vars, Spawning, Leaving, Cancelling, Add, Refuse, Accept, Start,
       CallbackReturns, ReportToParent, Unblock, Finish, Fail, CancelFails, CancellerLeaves,
       CancelWaits, CancelWakes, JoinWaits, JoinWakes, Alive

\* Every step keeps woken waiters with goroutines that have ended.
LEMMA WokenLastStep ==
    ASSUME TreeInv, TreeInv', WokenLast, [Next]_vars
    PROVE  WokenLast'
<1> SUFFICES ASSUME NEW m \in Nodes
             PROVE  /\ joiner'[m] # "idle" => Started(m)'
                    /\ "woken" \in {canceller'[m], joiner'[m]} => stage'[m] = "finished"
  BY DEF WokenLast
<1> USE DEF TreeInv
<1>1. ASSUME joiner'[m] # "idle" PROVE Started(m)'
  <2>1. joiner[m] # "idle" \/ JoinWaits(m)
    BY <1>1 DEF TypeOK, Next, vars, Spawning, Leaving, Cancelling, Add, Refuse, Accept, Start,
         CallbackReturns, ReportToParent, Unblock, Finish, Fail, CancelFails, CancellerLeaves,
         CancelWaits, CancelWakes, JoinWaits, JoinWakes, Done, Woken
  <2>2. Started(m)
    BY <2>1 DEF WokenLast, JoinWaits, Started
  <2> QED
    BY <2>2, StartedStays
<1>2. ASSUME "woken" \in {canceller'[m], joiner'[m]} PROVE stage'[m] = "finished"
  <2>1. CASE "woken" \in {canceller[m], joiner[m]}
    BY <2>1, FinishedStays DEF WokenLast
  <2>2. CASE "woken" \notin {canceller[m], joiner[m]}
    <3>1. wg'[m] = 0 /\ "blocked" \in {canceller[m], joiner[m]}
      BY <1>2, <2>2, WokenByZero
    <3>2. Started(m)'
      BY <3>1, StartedStays DEF WokenLast, Born
    <3>3. TypeOK' /\ WaitGroupExact' => EndedAtZero'
      BY Zero, PTL
    <3> QED
      BY <3>1, <3>2, <3>3 DEF EndedAtZero, Started
  <2> QED
    BY <2>1, <2>2
<1> QED
  BY <1>1, <1>2

\* A waiter that panics has been woken, and finds a child that was counted after its
\* goroutine had ended.  Nothing happens after a panic.
LEMMA PanicStep ==
    ASSUME TreeInv, WokenLast, OnlyLateCallersPanic, [Next]_vars
    PROVE  OnlyLateCallersPanic'
<1> SUFFICES ASSUME NEW m \in Nodes, "panic" \in {canceller'[m], joiner'[m]}
             PROVE  stage'[m] = "finished" /\ \E c \in Children(m) : stage'[c] \in Counted
  BY DEF OnlyLateCallersPanic, Children
<1> USE DEF TreeInv
<1>1. CASE UNCHANGED vars
  BY <1>1 DEF OnlyLateCallersPanic, vars
<1>2. CASE Next
  <2>1. "panic" \notin {canceller[m], joiner[m]}
    BY <1>2 DEF Next, Panicked
  <2>2. CancelWakes(m) \/ JoinWakes(m)
    BY <1>2, <2>1 DEF TypeOK, Next, vars, Spawning, Leaving, Cancelling, Add, Refuse, Accept, Start,
         CallbackReturns, ReportToParent, Unblock, Finish, Fail, CancelFails, CancellerLeaves,
         CancelWaits, CancelWakes, JoinWaits, JoinWakes, Done, Woken
  <2>3. stage' = stage /\ "woken" \in {canceller[m], joiner[m]} /\ wg[m] # 0
    BY <2>1, <2>2 DEF CancelWakes, JoinWakes, TypeOK
  <2>4. stage[m] = "finished"
    BY <2>3 DEF WokenLast
  <2>5. Outstanding(m) # {}
    <3>1. Cardinality(Outstanding(m)) # 0
      BY <2>3, <2>4 DEF WaitGroupExact, Alive
    <3> QED
      BY <3>1, FS_EmptySet
  <2> QED
    BY <2>3, <2>4, <2>5 DEF Outstanding
<1> QED
  BY <1>1, <1>2

\* In every tree of contexts, Wait and Cancel panic only over a RunAsChild that was called
\* after the goroutine of the context had ended.
THEOREM PanicCorrect == Spec => []OnlyLateCallersPanic
<1>1. Init => WaitInv
  <2>1. Init => WokenLast /\ OnlyLateCallersPanic
    BY DEF Init, WokenLast, OnlyLateCallersPanic
  <2> QED
    BY <2>1, TreeInvInit DEF WaitInv
<1>2. WaitInv /\ [Next]_vars => WaitInv'
  <2>1. TreeInv /\ [Next]_vars => TreeInv'
    BY TypeStep, ExactStep, BornStep, CancelledFirstStep, CancelAwaitsStep DEF TreeInv
  <2> QED
    BY <2>1, WokenLastStep, PanicStep DEF WaitInv
<1>3. WaitInv => OnlyLateCallersPanic
  BY DEF WaitInv
<1> QED
  BY <1>1, <1>2, <1>3, PTL DEF Spec
=============================================================================
