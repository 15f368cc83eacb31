--------------------------- MODULE GracefulContext ---------------------------
(***************************************************************************)
(* The tree of cancellable contexts every long-running goroutine of the    *)
(* bridge lives in (pkg/utils/graceful.go).                                *)
(*                                                                         *)
(* A context is started by its parent with RunAsChild; three parties then  *)
(* run concurrently: the goroutine that runs the callback, the goroutine   *)
(* that cancels the child when the parent is cancelled ("canceller"), and  *)
(* whoever waits for it (Wait, or the Wait inside Cancel).  wg is the      *)
(* sync.WaitGroup of the context, modelled as Go's: a Done that reaches    *)
(* zero wakes the blocked waiters, and a woken waiter that finds the       *)
(* counter in use again panics.                                            *)
(*                                                                         *)
(* RunAsChild may be called on a context at any moment, by its callback or *)
(* by a goroutine that outlives it, as those of OnLogin (app.go:82-89) and *)
(* of OnConnected (websocket.go:123-139) do; and a callback may return at  *)
(* any moment, with or without running children.                           *)
(***************************************************************************)
EXTENDS Naturals, FiniteSets

CONSTANTS
    Nodes,       \* contexts, each created at most once
    Root,        \* the context of RunWithGracefulCancel in main
    Parent       \* Parent[n]: the context whose RunAsChild creates n

ASSUME RootAssumption   == Root \in Nodes
ASSUME ParentAssumption == Parent \in [Nodes \ {Root} -> Nodes]
ASSUME FiniteAssumption == IsFiniteSet(Nodes)

VARIABLES
    stage,      \* progress of the goroutine that runs the callback
    cancelled,  \* hasBeenCanceled; cancelC is closed with it
    wg,         \* the WaitGroup counter
    canceller,  \* the goroutine that calls runner.Cancel
    joiner      \* a goroutine that calls runner.Wait

vars == <<stage, cancelled, wg, canceller, joiner>>

-----------------------------------------------------------------------------
Children(n) == {c \in Nodes \ {Root} : Parent[c] = n}

\* The child has been added to its parent's WaitGroup and not yet been taken off.
Counted == {"adding", "checked", "running", "returned"}

\* The goroutine started by RunWithGracefulCancel has not called its own wg.Done.
Alive == {"running", "returned", "reported", "unblocked"}

\* The callback may be executing, or is about to.
InCallback == {"checked", "running"}

Ended == {"none", "refused", "finished"}

Woken(w, n) == [w EXCEPT ![n] = IF @ = "blocked" THEN "woken" ELSE @]

\* wg.Done on context n; reaching zero wakes both waiters.
Done(n) ==
    /\ wg' = [wg EXCEPT ![n] = @ - 1]
    /\ IF wg[n] = 1
       THEN canceller' = Woken(canceller, n) /\ joiner' = Woken(joiner, n)
       ELSE UNCHANGED <<canceller, joiner>>

\* The callback of n has been started, and maybe returned.
Started(n) == stage[n] \in Alive \cup {"finished"}

Init ==
    /\ stage = [n \in Nodes |-> IF n = Root THEN "running" ELSE "none"]
    /\ cancelled = [n \in Nodes |-> FALSE]
    /\ wg = [n \in Nodes |-> IF n = Root THEN 1 ELSE 0]
    /\ canceller = [n \in Nodes |-> IF n = Root THEN "select" ELSE "none"]
    /\ joiner = [n \in Nodes |-> "idle"]

-----------------------------------------------------------------------------
(* RunAsChild                                                              *)

\* Mutant: the parent's WaitGroup is incremented by the child goroutine only.
AddLate(n) ==
    /\ n # Root
    /\ stage[n] = "none"
    /\ Started(Parent[n])
    /\ stage' = [stage EXCEPT ![n] = "adding"]
    /\ UNCHANGED <<cancelled, wg, canceller, joiner>>

\* wg.Add(1) on the parent comes before everything else.
Add(n) ==
    /\ n # Root
    /\ stage[n] = "none"
    /\ Started(Parent[n])
    /\ stage' = [stage EXCEPT ![n] = "adding"]
    /\ wg' = [wg EXCEPT ![Parent[n]] = @ + 1]
    /\ UNCHANGED <<cancelled, canceller, joiner>>

\* Mutant: the addition is not undone.
RefuseLeaking(n) ==
    /\ stage[n] = "adding"
    /\ cancelled[Parent[n]]
    /\ stage' = [stage EXCEPT ![n] = "refused"]
    /\ UNCHANGED <<cancelled, wg, canceller, joiner>>

\* The parent has been cancelled: the addition is undone and an already cancelled
\* runner returned.
Refuse(n) ==
    /\ stage[n] = "adding"
    /\ cancelled[Parent[n]]
    /\ Done(Parent[n])
    /\ stage' = [stage EXCEPT ![n] = "refused"]
    /\ UNCHANGED cancelled

\* The parent has not been cancelled when its mutex is held.
Accept(n) ==
    /\ stage[n] = "adding"
    /\ ~cancelled[Parent[n]]
    /\ stage' = [stage EXCEPT ![n] = "checked"]
    /\ UNCHANGED <<cancelled, wg, canceller, joiner>>

\* Mutant: no canceller goroutine.
StartAlone(n) ==
    /\ stage[n] = "checked"
    /\ stage' = [stage EXCEPT ![n] = "running"]
    /\ wg' = [wg EXCEPT ![n] = 1]
    /\ UNCHANGED <<cancelled, canceller, joiner>>

\* Mutant: the goroutine is not added to the WaitGroup of its own context.
StartUncounted(n) ==
    /\ stage[n] = "checked"
    /\ stage' = [stage EXCEPT ![n] = "running"]
    /\ canceller' = [canceller EXCEPT ![n] = "select"]
    /\ UNCHANGED <<cancelled, wg, joiner>>

\* RunWithGracefulCancel for the child; the canceller goroutine is spawned.
Start(n) ==
    /\ stage[n] = "checked"
    /\ stage' = [stage EXCEPT ![n] = "running"]
    /\ wg' = [wg EXCEPT ![n] = 1]
    /\ canceller' = [canceller EXCEPT ![n] = "select"]
    /\ UNCHANGED <<cancelled, joiner>>

(* The goroutine of the callback                                           *)

\* Nothing in RunAsChild keeps a callback from returning while its children run.
CallbackReturns(n) ==
    /\ stage[n] = "running"
    /\ stage' = [stage EXCEPT ![n] = "returned"]
    /\ UNCHANGED <<cancelled, wg, canceller, joiner>>

\* The child tells its parent that it is done.
ReportToParent(n) ==
    /\ n # Root
    /\ stage[n] = "returned"
    /\ Done(Parent[n])
    /\ stage' = [stage EXCEPT ![n] = "reported"]
    /\ UNCHANGED cancelled

\* close(cancelC) of RunAsChild, which lets the canceller go.
Unblock(n) ==
    /\ stage[n] = "reported"
    /\ stage' = [stage EXCEPT ![n] = "unblocked"]
    /\ UNCHANGED <<cancelled, wg, canceller, joiner>>

\* The goroutine's own wg.Done.
Finish(n) ==
    /\ stage[n] = IF n = Root THEN "returned" ELSE "unblocked"
    /\ Done(n)
    /\ stage' = [stage EXCEPT ![n] = "finished"]
    /\ UNCHANGED cancelled

\* Fail called from inside, or by a goroutine the callback left behind; only the first
\* Fail of a context has an effect.
Fail(n) ==
    /\ Started(n)
    /\ ~cancelled[n]
    /\ cancelled' = [cancelled EXCEPT ![n] = TRUE]
    /\ UNCHANGED <<stage, wg, canceller, joiner>>

(* The canceller and Wait                                                  *)

\* runner.Cancel fails the context: when the parent's Done channel is closed, or, for
\* the root, when main receives the interrupt.
CancelFails(n) ==
    /\ canceller[n] = "select"
    /\ n # Root => cancelled[Parent[n]]
    /\ cancelled' = [cancelled EXCEPT ![n] = TRUE]
    /\ canceller' = [canceller EXCEPT ![n] = "failed"]
    /\ UNCHANGED <<stage, wg, joiner>>

\* The other branch of the select: the child finished first.
CancellerLeaves(n) ==
    /\ n # Root
    /\ canceller[n] = "select"
    /\ stage[n] \in {"unblocked", "finished"}
    /\ canceller' = [canceller EXCEPT ![n] = "gone"]
    /\ UNCHANGED <<stage, cancelled, wg, joiner>>

\* runner.Cancel goes on to wg.Wait.
CancelWaits(n) ==
    /\ canceller[n] = "failed"
    /\ canceller' = [canceller EXCEPT ![n] = IF wg[n] = 0 THEN "done" ELSE "blocked"]
    /\ UNCHANGED <<stage, cancelled, wg, joiner>>

\* wg.Wait inside Cancel has been woken: it returns, or panics if the counter was
\* raised in between.
CancelWakes(n) ==
    /\ canceller[n] = "woken"
    /\ canceller' = [canceller EXCEPT ![n] = IF wg[n] = 0 THEN "done" ELSE "panic"]
    /\ UNCHANGED <<stage, cancelled, wg, joiner>>

\* runner.Wait, as RunWithPerseverance calls it on each attempt.
JoinWaits(n) ==
    /\ n # Root
    /\ joiner[n] = "idle"
    /\ Started(n)
    /\ joiner' = [joiner EXCEPT ![n] = IF wg[n] = 0 THEN "done" ELSE "blocked"]
    /\ UNCHANGED <<stage, cancelled, wg, canceller>>

JoinWakes(n) ==
    /\ joiner[n] = "woken"
    /\ joiner' = [joiner EXCEPT ![n] = IF wg[n] = 0 THEN "done" ELSE "panic"]
    /\ UNCHANGED <<stage, cancelled, wg, canceller>>

-----------------------------------------------------------------------------
\* A panic ends the process.
Panicked == \E n \in Nodes : canceller[n] = "panic" \/ joiner[n] = "panic"

Spawning(n) == Refuse(n) \/ Accept(n) \/ Start(n)

Leaving(n) == ReportToParent(n) \/ Unblock(n) \/ Finish(n)

Cancelling(n) == CancelWaits(n) \/ CancelWakes(n)

Next ==
    /\ ~Panicked
    /\ \E n \in Nodes :
          \/ Add(n) \/ Spawning(n) \/ CallbackReturns(n) \/ Leaving(n) \/ Fail(n)
          \/ CancelFails(n) \/ CancellerLeaves(n) \/ Cancelling(n)
          \/ JoinWaits(n) \/ JoinWakes(n)

Spec == Init /\ [][Next]_vars

\* A goroutine inside RunAsChild, Cancel or the epilogue of a callback keeps running;
\* a canceller whose select is ready proceeds; a callback whose context is cancelled
\* eventually returns.  Nothing forces a callback to return or to fail by itself, a
\* child to be started, or main to be interrupted.
Fairness ==
    \A n \in Nodes :
        /\ WF_vars(~Panicked /\ Spawning(n))
        /\ WF_vars(~Panicked /\ Leaving(n))
        /\ WF_vars(~Panicked /\ Cancelling(n))
        /\ WF_vars(~Panicked /\ cancelled[n] /\ CallbackReturns(n))
        /\ WF_vars(/\ ~Panicked /\ n # Root
                   /\ CancelFails(n) \/ CancellerLeaves(n))

FairSpec == Spec /\ Fairness

-----------------------------------------------------------------------------
(* Properties                                                              *)

Stages == Ended \cup Counted \cup Alive
Waits  == {"blocked", "woken", "done", "panic"}

\* Every variable has its type; a WaitGroup counter is never negative (Go panics).
TypeOK ==
    /\ stage \in [Nodes -> Stages]
    /\ cancelled \in [Nodes -> BOOLEAN]
    /\ wg \in [Nodes -> Nat]
    /\ canceller \in [Nodes -> {"none", "select", "failed", "gone"} \cup Waits]
    /\ joiner \in [Nodes -> {"idle"} \cup Waits]

Outstanding(n) == {c \in Children(n) : stage[c] \in Counted}

\* The counter of a context is exactly the number of its children that have not
\* reported plus one for its own goroutine, so that Wait returns neither early nor never.
WaitGroupExact ==
    \A n \in Nodes :
        wg[n] = Cardinality(Outstanding(n)) + IF stage[n] \in Alive THEN 1 ELSE 0

\* When Cancel has returned, the callback of the context and those of all its children
\* have returned, and no child can enter its callback any more.
CancelAwaitsChildren ==
    \A n \in Nodes :
        canceller[n] = "done" =>
            /\ stage[n] = "finished"
            /\ \A c \in Children(n) : stage[c] \notin InCallback

\* n is a descendant of m or m itself.
Below(n, m) ==
    LET above[k \in Nodes] == IF k = m THEN TRUE ELSE IF k = Root THEN FALSE ELSE above[Parent[k]]
    IN  above[n]

\* "the cancel function waits until the handler finishes all the cleanup"
\* (graceful.go:31-32): when Cancel returns, nothing below the context is in its
\* callback any more.
CleanupFinished ==
    \A n, m \in Nodes :
        (canceller[m] = "done" /\ Below(n, m)) => stage[n] \notin InCallback

\* "Cancel - notifies handler to cancel the execution and awaits graceful return"
\* (graceful.go:26): waiting for a context never panics.
WaitNeverPanics == ~Panicked

\* A waiter panics only over a call of RunAsChild that came after the goroutine of the
\* context had ended: nothing that a context does before its end, the reports and refusals of
\* its children included, can make a wait for it panic.
OnlyLateCallersPanic ==
    \A n \in Nodes :
        "panic" \in {canceller[n], joiner[n]} =>
            /\ stage[n] = "finished"
            /\ \E c \in Children(n) : stage[c] \in Counted

\* The cancellation of a context reaches every child whose callback is running, unless
\* that callback returns by itself.
CancelReachesChildren ==
    \A n \in Nodes \ {Root} :
        (stage[n] = "running" /\ cancelled[Parent[n]])
            ~> (cancelled[n] \/ stage[n] # "running" \/ Panicked)

\* No callback returns uncancelled while its children run.  App.Run, handleBaby and
\* manager.run return when their context is cancelled; RunWithPerseverance awaits its children.
NobodyLeftBehind ==
    \A n \in Nodes :
        Started(n) /\ stage[n] # "running" /\ ~cancelled[n] =>
            \A c \in Children(n) : stage[c] \in Ended

\* After the root is cancelled, in the end no callback of the whole tree is running and none
\* is ever started again, if no callback leaves running children behind.
ShutdownCompletes ==
    []NobodyLeftBehind =>
        (cancelled[Root] ~> [](Panicked \/ \A n \in Nodes : stage[n] \notin InCallback))

\* Cancel returns: the wait inside it is not forever.
CancelReturns == \A n \in Nodes : canceller[n] = "failed" ~> canceller[n] = "done" \/ Panicked

-----------------------------------------------------------------------------
(* The strengthening of WaitGroupExact and CancelAwaitsChildren that every  *)
(* step preserves.                                                          *)

\* Only a context whose goroutine has been started can be cancelled, have a canceller,
\* or have children.
Born ==
    /\ stage[Root] \in {"running", "returned", "finished"}
    /\ \A n \in Nodes :
          /\ cancelled[n] => Started(n)
          /\ canceller[n] # "none" => Started(n)
          /\ \A c \in Children(n) : stage[c] # "none" => Started(n)

\* Cancel waits for a context only after it has cancelled it.
CancelledFirst ==
    \A n \in Nodes :
        canceller[n] \in {"failed", "blocked", "woken", "done"} => cancelled[n]

TreeInv ==
    /\ TypeOK
    /\ WaitGroupExact
    /\ Born
    /\ CancelledFirst
    /\ CancelAwaitsChildren

\* The waiters of a context are woken when its goroutine has ended.
WokenLast ==
    \A n \in Nodes :
        /\ joiner[n] # "idle" => Started(n)
        /\ "woken" \in {canceller[n], joiner[n]} => stage[n] = "finished"

WaitInv == TreeInv /\ WokenLast /\ OnlyLateCallersPanic
=============================================================================
