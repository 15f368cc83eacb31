-------------------------- MODULE CameraLinkProofs --------------------------
(***************************************************************************)
(* Proofs about CameraLink: for any number of managers of a baby and of    *)
(* attempts, and for a sole manager where the property needs it.           *)
(***************************************************************************)
EXTENDS CameraLink, TLAPS

\* An attempt is a manager and a number.
LEMMA AttemptParts ==
    /\ \A a \in Attempts : /\ Owner(a) \in Managers
                           /\ a[2] \in 1 .. AttemptLimit
                           /\ a = <<Owner(a), a[2]>>
    /\ \A m \in Managers, i \in 1 .. AttemptLimit : /\ <<m, i>> \in Attempts
                                                    /\ Owner(<<m, i>>) = m
                                                    /\ <<m, i>>[2] = i
BY DEF Attempts, Owner

\* No attempt is the empty connection.
LEMMA NoConnIsNone == NoConn \notin Attempts
BY DEF Attempts, NoConn

\* The current attempt of a manager whose loop has begun one.
LEMMA CurrentAttempt ==
    ASSUME TypeOK, NEW m \in Managers, try[m] # 0
    PROVE  /\ Now(m) \in Attempts
           /\ Owner(Now(m)) = m
           /\ Now(m)[2] = try[m]
           /\ \A a \in Attempts : a = Now(m) <=> Owner(a) = m /\ a[2] = try[m]
<1>1. try[m] \in 1 .. AttemptLimit
  BY DEF TypeOK
<1>2. QED
  BY <1>1, AttemptParts DEF Now

\* Every step keeps the types.
LEMMA TypeStep == LinkInv /\ [Next]_vars => TypeOK'
<1> SUFFICES ASSUME LinkInv, [Next]_vars PROVE TypeOK'
  OBVIOUS
<1>0. TypeOK
  BY DEF LinkInv
<1>1. ASSUME NEW a \in Attempts, Authorize(a) PROVE TypeOK'
  BY <1>0, <1>1 DEF TypeOK, Authorize, Fail, Disconnected
<1>2. ASSUME NEW a \in Attempts, AuthorizationFails(a) PROVE TypeOK'
  BY <1>0, <1>2 DEF TypeOK, AuthorizationFails, Fail, Disconnected
<1>3. ASSUME NEW a \in Attempts, Connects(a) PROVE TypeOK'
  BY <1>0, <1>3 DEF TypeOK, Connects, Fail, Disconnected
<1>4. ASSUME NEW a \in Attempts, ConnectFails(a) PROVE TypeOK'
  BY <1>0, <1>4 DEF TypeOK, ConnectFails, Fail, Disconnected
<1>5. ASSUME NEW a \in Attempts, Close(a) PROVE TypeOK'
  BY <1>0, <1>5 DEF TypeOK, Close, Fail, Disconnected
<1>6. ASSUME NEW a \in Attempts, Closed(a) PROVE TypeOK'
  BY <1>0, <1>6 DEF TypeOK, Closed, Fail, Disconnected
<1>7. ASSUME NEW a \in Attempts, OpenerSetsReady(a) PROVE TypeOK'
  BY <1>0, <1>7, AttemptParts DEF TypeOK, OpenerSetsReady, Fail, Disconnected
<1>8. ASSUME NEW a \in Attempts, OpenerSetsAlive(a) PROVE TypeOK'
  BY <1>0, <1>8 DEF TypeOK, OpenerSetsAlive, Fail, Disconnected
<1>9. ASSUME NEW a \in Attempts, OpenerNotifies(a) PROVE TypeOK'
  BY <1>0, <1>9 DEF TypeOK, OpenerNotifies, Fail, Disconnected
<1>10. ASSUME NEW a \in Attempts, ServerCloses(a) PROVE TypeOK'
  BY <1>0, <1>10 DEF TypeOK, ServerCloses, Fail, Disconnected
<1>11. ASSUME NEW a \in Attempts, OnDisconnected(a) PROVE TypeOK'
  <2>1. UNCHANGED <<loop, try, stopped, run, socket, opener, handler, ready, commander, streaming>>
    BY <1>11 DEF OnDisconnected
  <2>2. /\ failed' \in [Attempts -> {"nil", "error", "cancelled"}]
        /\ closer' \in [Attempts -> {"none", "updating", "failing", "done"}]
        /\ alive' \in BOOLEAN
    BY <1>0, <1>11 DEF TypeOK, OnDisconnected, Fail
  <2> QED
    BY <1>0, <2>1, <2>2 DEF TypeOK
<1>12. ASSUME NEW a \in Attempts, Handling(a) PROVE TypeOK'
  <2>1. CASE HandlerStarts(a)
    BY <1>0, <2>1 DEF TypeOK, HandlerStarts
  <2>2. CASE HandlerLeaves(a)
    BY <1>0, <2>2 DEF TypeOK, HandlerLeaves
  <2>3. CASE StopAnswered(a)
    BY <1>0, <2>3 DEF TypeOK, StopAnswered
  <2>4. CASE StopForbidden(a)
    BY <1>0, <2>4 DEF TypeOK, StopForbidden
  <2>5. CASE StopAgain(a)
    BY <1>0, <2>5 DEF TypeOK, StopAgain
  <2>6. CASE StopTimesOut(a)
    BY <1>0, <2>6 DEF TypeOK, StopTimesOut
  <2>7. CASE HandlerReturns(a)
    BY <1>0, <2>7 DEF TypeOK, HandlerReturns
  <2> QED
    BY <1>12, <2>1, <2>2, <2>3, <2>4, <2>5, <2>6, <2>7 DEF Handling
<1>13. ASSUME NEW m \in Managers, BeginAttempt(m) PROVE TypeOK'
  <2>1. try[m] \in 0 .. AttemptLimit
    BY <1>0 DEF TypeOK
  <2>2. try[m] + 1 \in 0 .. AttemptLimit
    BY <1>13, <2>1, AttemptAssumption DEF BeginAttempt
  <2>3. QED
    BY <1>0, <1>13, <2>2 DEF TypeOK, BeginAttempt
<1>14. ASSUME NEW m \in Managers, EndAttempt(m) PROVE TypeOK'
  BY <1>0, <1>14 DEF TypeOK, EndAttempt, Fail
<1>15. ASSUME NEW m \in Managers, StopLoop(m) PROVE TypeOK'
  BY <1>0, <1>15 DEF TypeOK, StopLoop, Fail
<1>16. ASSUME NEW m \in Managers, CancelAttempt(m) PROVE TypeOK'
  BY <1>0, <1>16 DEF TypeOK, CancelAttempt, Fail
<1>17. ASSUME NEW m \in Managers, Cancel(m) PROVE TypeOK'
  BY <1>0, <1>17 DEF TypeOK, Cancel, Fail
<1>18. CASE StreamChanges
  BY <1>0, <1>18 DEF TypeOK, StreamChanges
<1>19. CASE UNCHANGED vars
  BY <1>0, <1>19 DEF TypeOK, vars
<1>20. QED
  BY <1>1, <1>2, <1>3, <1>4, <1>5, <1>6, <1>7, <1>8, <1>9, <1>10, <1>11, <1>12, <1>13, <1>14, <1>15, <1>16, <1>17, <1>18, <1>19 DEF Next, Looping, Running, Opening

-----------------------------------------------------------------------------
\* What the invariant says of one attempt.
Orderly(a) == InTurn(a) /\ Phase(a)

\* A step that leaves an attempt and the loop of its manager alone keeps it orderly, also if
\* the manager is stopped.
LEMMA AttemptUntouched ==
    ASSUME NEW a \in Attempts, Orderly(a),
           run'[a] = run[a], failed'[a] = failed[a], socket'[a] = socket[a],
           opener'[a] = opener[a], closer'[a] = closer[a], handler'[a] = handler[a],
           loop'[Owner(a)] = loop[Owner(a)], try'[Owner(a)] = try[Owner(a)],
           stopped[Owner(a)] => stopped'[Owner(a)]
    PROVE  Orderly(a)'
<1>1. InTurn(a)'
  BY DEF Orderly, InTurn, Fresh, Over
<1>2. Phase(a)'
  BY DEF Orderly, Phase
<1>3. QED
  BY <1>1, <1>2 DEF Orderly

\* Only the current attempt of a running loop is at work or connected.
LEMMA WorkIsCurrent ==
    ASSUME LinkInv, NEW a \in Attempts,
           \/ run[a] \notin {"none", "returned"}
           \/ handler[a] \notin {"none", "returned"}
           \/ socket[a] = "open"
    PROVE  loop[Owner(a)] = "attempt" /\ a[2] = try[Owner(a)]
<1>1. InTurn(a) /\ Phase(a)
  BY DEF LinkInv
<1>2. ~Fresh(a) /\ ~Over(a)
  BY <1>1 DEF Fresh, Over, Phase
<1>3. /\ a[2] \in 1 .. AttemptLimit
      /\ try[Owner(a)] \in 0 .. AttemptLimit
      /\ loop[Owner(a)] \in {"cooling", "attempt", "stopped"}
  BY AttemptParts DEF LinkInv, TypeOK
<1>4. a[2] = try[Owner(a)]
  BY <1>1, <1>2, <1>3 DEF InTurn
<1>5. QED
  BY <1>1, <1>2, <1>3, <1>4 DEF InTurn

\* A step of one attempt leaves the others alone, and the loops.
LEMMA OthersUntouched ==
    ASSUME LinkInv, NEW a \in Attempts,
           \/ Running(a) \/ Opening(a) \/ OnDisconnected(a) \/ Handling(a) \/ ServerCloses(a)
    PROVE  /\ UNCHANGED <<loop, try, stopped>>
           /\ \A b \in Attempts : b # a => Orderly(b)'
<1>0. TypeOK /\ \A b \in Attempts : Orderly(b)
  BY DEF LinkInv, Orderly
<1>1. UNCHANGED <<loop, try, stopped>>
  BY DEF Running, Opening, Handling, Authorize, AuthorizationFails, Connects,
                                     ConnectFails, Close, Closed, OpenerSetsReady,
                                     OpenerSetsAlive, OpenerNotifies, ServerCloses,
                                     OnDisconnected, HandlerStarts, HandlerLeaves,
                                     StopAnswered, StopForbidden, StopAgain,
                                     StopTimesOut, HandlerReturns
<1>2. ASSUME NEW b \in Attempts, b # a
      PROVE  /\ run'[b] = run[b] /\ failed'[b] = failed[b] /\ socket'[b] = socket[b]
             /\ opener'[b] = opener[b] /\ closer'[b] = closer[b] /\ handler'[b] = handler[b]
  <2>1. CASE Running(a)
    BY <1>0, <1>2, <2>1 DEF TypeOK, Running, Authorize, AuthorizationFails, Connects,
                                             ConnectFails, Close, Closed, Fail,
                                             Disconnected
  <2>2. CASE Opening(a) \/ OnDisconnected(a) \/ ServerCloses(a)
    BY <1>0, <1>2, <2>2 DEF TypeOK, Opening, OpenerSetsReady, OpenerSetsAlive,
                                             OpenerNotifies, ServerCloses,
                                             OnDisconnected, Fail, Disconnected
  <2>3. CASE Handling(a)
    BY <1>0, <1>2, <2>3 DEF TypeOK, Handling, HandlerStarts, HandlerLeaves,
                                              StopAnswered, StopForbidden, StopAgain,
                                              StopTimesOut, HandlerReturns
  <2>4. QED
    BY <2>1, <2>2, <2>3
<1>3. QED
  BY <1>0, <1>1, <1>2, AttemptUntouched

\* The attempt a step is about stays orderly.
LEMMA SameAttempt ==
    ASSUME LinkInv, NEW a \in Attempts,
           \/ Running(a) \/ Opening(a) \/ OnDisconnected(a) \/ Handling(a) \/ ServerCloses(a)
    PROVE  Orderly(a)'
<1>0. TypeOK /\ InTurn(a) /\ Phase(a)
  BY DEF LinkInv
<1>1. UNCHANGED <<loop, try, stopped>>
  BY OthersUntouched
<1>2. ASSUME Authorize(a) PROVE Orderly(a)'
  <2>1. InTurn(a)'
    BY <1>0, <1>1, <1>2 DEF TypeOK, InTurn, Fresh, Over, Phase, Authorize
  <2>2. Phase(a)'
    BY <1>0, <1>1, <1>2 DEF TypeOK, Phase, Authorize
  <2>3. QED
    BY <2>1, <2>2 DEF Orderly
<1>3. ASSUME AuthorizationFails(a) PROVE Orderly(a)'
  <2>1. InTurn(a)'
    <3>1. loop[Owner(a)] = "attempt" /\ a[2] = try[Owner(a)]
      BY <1>3, WorkIsCurrent DEF AuthorizationFails
    <3>2. run'[a] # "none"
      BY <1>0, <1>3, <3>1 DEF TypeOK, InTurn, AuthorizationFails
    <3>3. a[2] \in 1 .. AttemptLimit
      BY AttemptParts
    <3>4. QED
      BY <1>1, <3>1, <3>2, <3>3 DEF InTurn
  <2>2. Phase(a)'
    BY <1>0, <1>1, <1>3 DEF TypeOK, Phase, AuthorizationFails, Fail
  <2>3. QED
    BY <2>1, <2>2 DEF Orderly
<1>4. ASSUME Connects(a) PROVE Orderly(a)'
  <2>1. InTurn(a)'
    BY <1>0, <1>1, <1>4 DEF TypeOK, InTurn, Fresh, Over, Phase, Connects
  <2>2. Phase(a)'
    BY <1>0, <1>1, <1>4 DEF TypeOK, Phase, Connects
  <2>3. QED
    BY <2>1, <2>2 DEF Orderly
<1>5. ASSUME ConnectFails(a) PROVE Orderly(a)'
  <2>1. InTurn(a)'
    BY <1>0, <1>1, <1>5 DEF TypeOK, InTurn, Fresh, Over, Phase, ConnectFails, Fail
  <2>2. Phase(a)'
    BY <1>0, <1>1, <1>5 DEF TypeOK, Phase, ConnectFails, Fail
  <2>3. QED
    BY <2>1, <2>2 DEF Orderly
<1>6. ASSUME Close(a) PROVE Orderly(a)'
  <2>1. InTurn(a)'
    <3>1. loop[Owner(a)] = "attempt" /\ a[2] = try[Owner(a)]
      BY <1>6, WorkIsCurrent DEF Close
    <3>2. run'[a] # "none"
      BY <1>0, <1>6, <3>1 DEF TypeOK, InTurn, Close
    <3>3. a[2] \in 1 .. AttemptLimit
      BY AttemptParts
    <3>4. QED
      BY <1>1, <3>1, <3>2, <3>3 DEF InTurn
  <2>2. Phase(a)'
    BY <1>0, <1>1, <1>6 DEF TypeOK, Phase, Close, Disconnected
  <2>3. QED
    BY <2>1, <2>2 DEF Orderly
<1>7. ASSUME Closed(a) PROVE Orderly(a)'
  <2>1. InTurn(a)'
    <3>1. loop[Owner(a)] = "attempt" /\ a[2] = try[Owner(a)]
      BY <1>7, WorkIsCurrent DEF Closed
    <3>2. run'[a] # "none"
      BY <1>0, <1>7, <3>1 DEF TypeOK, InTurn, Closed
    <3>3. a[2] \in 1 .. AttemptLimit
      BY AttemptParts
    <3>4. QED
      BY <1>1, <3>1, <3>2, <3>3 DEF InTurn
  <2>2. Phase(a)'
    BY <1>0, <1>1, <1>7 DEF TypeOK, Phase, Closed
  <2>3. QED
    BY <2>1, <2>2 DEF Orderly
<1>8. ASSUME OpenerSetsReady(a) PROVE Orderly(a)'
  <2>1. InTurn(a)'
    BY <1>0, <1>1, <1>8 DEF TypeOK, InTurn, Fresh, Over, Phase, OpenerSetsReady
  <2>2. Phase(a)'
    BY <1>0, <1>1, <1>8 DEF TypeOK, Phase, OpenerSetsReady
  <2>3. QED
    BY <2>1, <2>2 DEF Orderly
<1>9. ASSUME OpenerSetsAlive(a) PROVE Orderly(a)'
  <2>1. InTurn(a)'
    BY <1>0, <1>1, <1>9 DEF TypeOK, InTurn, Fresh, Over, Phase, OpenerSetsAlive
  <2>2. Phase(a)'
    BY <1>0, <1>1, <1>9 DEF TypeOK, Phase, OpenerSetsAlive
  <2>3. QED
    BY <2>1, <2>2 DEF Orderly
<1>10. ASSUME OpenerNotifies(a) PROVE Orderly(a)'
  <2>1. InTurn(a)'
    BY <1>0, <1>1, <1>10 DEF TypeOK, InTurn, Fresh, Over, Phase, OpenerNotifies
  <2>2. Phase(a)'
    BY <1>0, <1>1, <1>10 DEF TypeOK, Phase, OpenerNotifies
  <2>3. QED
    BY <2>1, <2>2 DEF Orderly
<1>11. ASSUME ServerCloses(a) PROVE Orderly(a)'
  <2>1. InTurn(a)'
    BY <1>0, <1>1, <1>11 DEF TypeOK, InTurn, Fresh, Over, Phase, ServerCloses, Disconnected
  <2>2. Phase(a)'
    BY <1>0, <1>1, <1>11 DEF TypeOK, Phase, ServerCloses, Disconnected
  <2>3. QED
    BY <2>1, <2>2 DEF Orderly
<1>12. ASSUME OnDisconnected(a) PROVE Orderly(a)'
  <2>1. InTurn(a)'
    BY <1>0, <1>1, <1>12 DEF TypeOK, InTurn, Fresh, Over, Phase, OnDisconnected, Fail
  <2>2. Phase(a)'
    BY <1>0, <1>1, <1>12 DEF TypeOK, Phase, OnDisconnected, Fail
  <2>3. QED
    BY <2>1, <2>2 DEF Orderly
<1>13. ASSUME HandlerStarts(a) PROVE Orderly(a)'
  <2>1. InTurn(a)'
    BY <1>0, <1>1, <1>13 DEF TypeOK, InTurn, Fresh, Over, Phase, HandlerStarts
  <2>2. Phase(a)'
    BY <1>0, <1>1, <1>13 DEF TypeOK, Phase, HandlerStarts
  <2>3. QED
    BY <2>1, <2>2 DEF Orderly
<1>14. ASSUME HandlerLeaves(a) PROVE Orderly(a)'
  <2>1. InTurn(a)'
    BY <1>0, <1>1, <1>14 DEF TypeOK, InTurn, Fresh, Over, Phase, HandlerLeaves
  <2>2. Phase(a)'
    BY <1>0, <1>1, <1>14 DEF TypeOK, Phase, HandlerLeaves
  <2>3. QED
    BY <2>1, <2>2 DEF Orderly
<1>15. ASSUME StopAnswered(a) PROVE Orderly(a)'
  <2>1. InTurn(a)'
    BY <1>0, <1>1, <1>15 DEF TypeOK, InTurn, Fresh, Over, Phase, StopAnswered
  <2>2. Phase(a)'
    BY <1>0, <1>1, <1>15 DEF TypeOK, Phase, StopAnswered
  <2>3. QED
    BY <2>1, <2>2 DEF Orderly
<1>16. ASSUME StopForbidden(a) PROVE Orderly(a)'
  <2>1. InTurn(a)'
    BY <1>0, <1>1, <1>16 DEF TypeOK, InTurn, Fresh, Over, Phase, StopForbidden
  <2>2. Phase(a)'
    BY <1>0, <1>1, <1>16 DEF TypeOK, Phase, StopForbidden
  <2>3. QED
    BY <2>1, <2>2 DEF Orderly
<1>17. ASSUME StopAgain(a) PROVE Orderly(a)'
  <2>1. InTurn(a)'
    BY <1>0, <1>1, <1>17 DEF TypeOK, InTurn, Fresh, Over, Phase, StopAgain
  <2>2. Phase(a)'
    BY <1>0, <1>1, <1>17 DEF TypeOK, Phase, StopAgain
  <2>3. QED
    BY <2>1, <2>2 DEF Orderly
<1>18. ASSUME StopTimesOut(a) PROVE Orderly(a)'
  <2>1. InTurn(a)'
    BY <1>0, <1>1, <1>18 DEF TypeOK, InTurn, Fresh, Over, Phase, StopTimesOut
  <2>2. Phase(a)'
    BY <1>0, <1>1, <1>18 DEF TypeOK, Phase, StopTimesOut
  <2>3. QED
    BY <2>1, <2>2 DEF Orderly
<1>19. ASSUME HandlerReturns(a) PROVE Orderly(a)'
  <2>1. InTurn(a)'
    <3>1. loop[Owner(a)] = "attempt" /\ a[2] = try[Owner(a)]
      BY <1>19, WorkIsCurrent DEF HandlerReturns
    <3>2. run'[a] # "none"
      BY <1>0, <1>19, <3>1 DEF TypeOK, InTurn, HandlerReturns
    <3>3. a[2] \in 1 .. AttemptLimit
      BY AttemptParts
    <3>4. QED
      BY <1>1, <3>1, <3>2, <3>3 DEF InTurn
  <2>2. Phase(a)'
    BY <1>0, <1>1, <1>19 DEF TypeOK, Phase, HandlerReturns
  <2>3. QED
    BY <2>1, <2>2 DEF Orderly
<1>20. QED
  BY <1>2, <1>3, <1>4, <1>5, <1>6, <1>7, <1>8, <1>9, <1>10, <1>11, <1>12, <1>13, <1>14,
     <1>15, <1>16, <1>17, <1>18, <1>19 DEF Running, Opening, Handling

\* A step of the loop of a manager keeps its attempts, and those of other managers, orderly.
LEMMA LoopStep ==
    ASSUME LinkInv, NEW m \in Managers, Looping(m) \/ Cancel(m)
    PROVE  \A a \in Attempts : Orderly(a)'
<1>0. TypeOK /\ \A a \in Attempts : Orderly(a)
  BY DEF LinkInv, Orderly
<1> SUFFICES ASSUME NEW a \in Attempts PROVE Orderly(a)'
  OBVIOUS
<1>1. /\ Owner(a) \in Managers
      /\ a[2] \in 1 .. AttemptLimit
      /\ try[Owner(a)] \in 0 .. AttemptLimit
  BY <1>0, AttemptParts DEF TypeOK
<1>2. InTurn(a) /\ Phase(a)
  BY <1>0 DEF Orderly
<1>3. CASE Cancel(m)
  <2>1. /\ UNCHANGED <<loop, try, run, failed, socket, opener, closer, handler>>
        /\ stopped[Owner(a)] => stopped'[Owner(a)]
    BY <1>0, <1>1, <1>3 DEF TypeOK, Cancel
  <2>2. QED
    BY <1>0, <2>1, AttemptUntouched
<1>4. CASE StopLoop(m)
  <2>1. /\ UNCHANGED <<try, stopped, run, failed, socket, opener, closer, handler>>
        /\ loop[m] = "cooling"
        /\ loop'[Owner(a)] = IF Owner(a) = m THEN "stopped" ELSE loop[Owner(a)]
    BY <1>0, <1>1, <1>4 DEF TypeOK, StopLoop
  <2>2. CASE Owner(a) = m
    <3>1. InTurn(a)'
      BY <1>1, <1>2, <2>1, <2>2 DEF InTurn, Fresh, Over
    <3>2. Phase(a)'
      BY <1>2, <2>1 DEF Phase
    <3>3. QED
      BY <3>1, <3>2 DEF Orderly
  <2>3. CASE Owner(a) # m
    BY <1>0, <2>1, <2>3, AttemptUntouched
  <2>4. QED
    BY <2>2, <2>3
<1>5. CASE EndAttempt(m)
  <2>1. /\ UNCHANGED <<try, stopped, run, failed, socket, opener, closer, handler>>
        /\ loop[m] = "attempt" /\ run[Now(m)] = "returned"
        /\ handler[Now(m)] \in {"none", "returned"}
        /\ loop'[Owner(a)] = IF Owner(a) = m
                             THEN IF failed[Now(m)] = "cancelled" THEN "stopped" ELSE "cooling"
                             ELSE loop[Owner(a)]
    BY <1>0, <1>1, <1>5 DEF TypeOK, EndAttempt
  <2>2. CASE a = Now(m)
    <3>1. Owner(a) = m /\ a[2] = try[m]
      BY <1>0, <2>1, <2>2, CurrentAttempt DEF LinkInv
    <3>2. Over(a) /\ failed[a] \in {"error", "cancelled"}
      BY <1>0, <1>2, <2>1, <2>2 DEF TypeOK, Over, Phase
    <3>3. InTurn(a)'
      BY <1>1, <2>1, <2>2, <3>1, <3>2 DEF InTurn, Over
    <3>4. Phase(a)'
      BY <1>2, <2>1 DEF Phase
    <3>5. QED
      BY <3>3, <3>4 DEF Orderly
  <2>3. CASE a # Now(m) /\ Owner(a) = m
    <3>1. a[2] # try[m]
      BY <1>0, <2>1, <2>3, CurrentAttempt DEF LinkInv
    <3>2. InTurn(a)'
      BY <1>1, <1>2, <2>1, <2>3, <3>1 DEF InTurn, Fresh, Over
    <3>3. Phase(a)'
      BY <1>2, <2>1 DEF Phase
    <3>4. QED
      BY <3>2, <3>3 DEF Orderly
  <2>4. CASE Owner(a) # m
    BY <1>0, <2>1, <2>4, AttemptUntouched
  <2>5. QED
    BY <2>2, <2>3, <2>4
<1>6. CASE CancelAttempt(m)
  <2>1. /\ UNCHANGED <<loop, try, stopped, run, socket, opener, closer, handler>>
        /\ loop[m] = "attempt" /\ stopped[m] /\ failed[Now(m)] = "nil"
        /\ failed' = [failed EXCEPT ![Now(m)] = "cancelled"]
    BY <1>6 DEF CancelAttempt, Fail
  <2>2. CASE a = Now(m)
    <3>1. Owner(a) = m /\ a[2] = try[m]
      BY <1>0, <2>1, <2>2, CurrentAttempt DEF LinkInv
    <3>2. failed'[a] = "cancelled"
      BY <1>0, <2>1, <2>2 DEF TypeOK
    <3>3. InTurn(a)'
      BY <1>1, <1>2, <2>1, <3>1, <3>2 DEF InTurn
    <3>4. Phase(a)'
      BY <1>2, <2>1, <2>2, <3>1, <3>2 DEF Phase
    <3>5. QED
      BY <3>3, <3>4 DEF Orderly
  <2>3. CASE a # Now(m)
    <3>1. failed'[a] = failed[a]
      BY <1>0, <2>1, <2>3 DEF TypeOK
    <3>2. QED
      BY <1>0, <2>1, <3>1, AttemptUntouched
  <2>4. QED
    BY <2>2, <2>3
<1>7. CASE BeginAttempt(m)
  <2> DEFINE next == <<m, try[m] + 1>>
  <2>1. /\ UNCHANGED <<stopped, failed, socket, opener, closer, handler>>
        /\ loop[m] = "cooling"
        /\ try[m] < AttemptLimit
        /\ loop'[Owner(a)] = IF Owner(a) = m THEN "attempt" ELSE loop[Owner(a)]
        /\ try'[Owner(a)] = IF Owner(a) = m THEN try[m] + 1 ELSE try[Owner(a)]
        /\ run' = [run EXCEPT ![next] = "authorizing"]
    BY <1>0, <1>1, <1>7 DEF TypeOK, BeginAttempt
  <2>2. try[m] \in 0 .. AttemptLimit /\ AttemptLimit \in Nat
    BY <1>0, AttemptAssumption DEF TypeOK
  <2>3. next \in Attempts /\ Owner(next) = m /\ next[2] = try[m] + 1
    BY <2>1, <2>2, AttemptParts
  <2>4. a = next <=> Owner(a) = m /\ a[2] = try[m] + 1
    BY <2>3, AttemptParts
  <2>5. run'[a] = IF a = next THEN "authorizing" ELSE run[a]
    BY <1>0, <2>1, <2>3 DEF TypeOK
  <2> HIDE DEF next
  <2>6. CASE a = next
    <3>1. Fresh(a)
      BY <1>2, <2>2, <2>4, <2>6 DEF InTurn
    <3>2. InTurn(a)'
      BY <2>1, <2>2, <2>4, <2>5, <2>6 DEF InTurn
    <3>3. Phase(a)'
      BY <1>2, <2>1, <2>5, <2>6, <3>1 DEF Phase, Fresh
    <3>4. QED
      BY <3>2, <3>3 DEF Orderly
  <2>7. CASE a # next /\ Owner(a) = m
    <3>1. InTurn(a)'
      <4>1. CASE a[2] > try[m] + 1
        BY <1>1, <1>2, <2>1, <2>2, <2>5, <2>7, <4>1 DEF InTurn, Fresh
      <4>2. CASE a[2] <= try[m]
        <5>1. Over(a) /\ failed[a] = "error"
          BY <1>1, <1>2, <2>1, <2>2, <2>7, <4>2 DEF InTurn
        <5>2. QED
          BY <1>1, <2>1, <2>2, <2>5, <2>7, <4>2, <5>1 DEF InTurn, Over
      <4>3. QED
        BY <1>1, <2>2, <2>4, <2>7, <4>1, <4>2
    <3>2. Phase(a)'
      BY <1>2, <2>1, <2>5, <2>7 DEF Phase
    <3>3. QED
      BY <3>1, <3>2 DEF Orderly
  <2>8. CASE Owner(a) # m
    BY <1>0, <2>1, <2>4, <2>5, <2>8, AttemptUntouched
  <2>9. QED
    BY <2>6, <2>7, <2>8
<1>8. QED
  BY <1>3, <1>4, <1>5, <1>6, <1>7 DEF Looping

\* Initially every attempt is still to come.
LEMMA LinkInvInit == Init => LinkInv
<1> SUFFICES ASSUME Init PROVE LinkInv
  OBVIOUS
<1>1. 0 \in 0 .. AttemptLimit
  BY AttemptAssumption
<1>2. TypeOK
  BY <1>1 DEF Init, TypeOK
<1>3. ASSUME NEW a \in Attempts PROVE InTurn(a) /\ Phase(a)
  <2>1. Owner(a) \in Managers /\ a[2] \in 1 .. AttemptLimit
    BY AttemptParts
  <2>2. Fresh(a) /\ a[2] > try[Owner(a)] /\ try[Owner(a)] = 0
    BY <2>1, <1>3 DEF Init, Fresh
  <2>3. InTurn(a)
    BY <2>1, <2>2 DEF InTurn
  <2>4. Phase(a)
    BY <2>2 DEF Fresh, Phase
  <2>5. QED
    BY <2>3, <2>4
<1>4. QED
  BY <1>2, <1>3 DEF Init, LinkInv

\* Every step preserves the invariant.
LEMMA LinkInvStep == LinkInv /\ [Next]_vars => LinkInv'
<1> SUFFICES ASSUME LinkInv, [Next]_vars PROVE LinkInv'
  OBVIOUS
<1>0. TypeOK /\ \A a \in Attempts : Orderly(a)
  BY DEF LinkInv, Orderly
<1>1. TypeOK'
  BY TypeStep
<1>2. ASSUME NEW a \in Attempts,
             \/ Running(a) \/ Opening(a) \/ OnDisconnected(a) \/ Handling(a) \/ ServerCloses(a)
      PROVE  LinkInv'
  <2>1. UNCHANGED <<loop, try, stopped>> /\ \A b \in Attempts : Orderly(b)'
    BY <1>2, OthersUntouched, SameAttempt
  <2>2. QED
    BY <1>1, <2>1 DEF LinkInv, Orderly
<1>3. ASSUME NEW m \in Managers, Looping(m) \/ Cancel(m) PROVE LinkInv'
  <2>1. \A n \in Managers : loop'[n] = "attempt" => try'[n] # 0
    <3>1. CASE BeginAttempt(m)
      BY <1>0, <3>1 DEF TypeOK, LinkInv, BeginAttempt
    <3>2. CASE EndAttempt(m) \/ StopLoop(m) \/ CancelAttempt(m) \/ Cancel(m)
      BY <1>0, <3>2 DEF TypeOK, LinkInv, EndAttempt, StopLoop, CancelAttempt, Cancel
    <3>3. QED
      BY <1>3, <3>1, <3>2 DEF Looping
  <2>2. \A a \in Attempts : Orderly(a)'
    BY <1>3, LoopStep
  <2>3. QED
    BY <1>1, <2>1, <2>2 DEF LinkInv, Orderly
<1>4. CASE StreamChanges \/ UNCHANGED vars
  <2>1. UNCHANGED <<loop, try, stopped, run, failed, socket, opener, closer, handler>>
    BY <1>4 DEF StreamChanges, vars
  <2>2. \A a \in Attempts : Orderly(a)'
    BY <1>0, <2>1, AttemptUntouched
  <2>3. QED
    BY <1>1, <2>1, <2>2 DEF LinkInv, Orderly
<1>5. QED
  BY <1>2, <1>3, <1>4 DEF Next

-----------------------------------------------------------------------------
\* The attempts of every manager are in order in every reachable state.
THEOREM LinkInvariant == Spec => []LinkInv
BY LinkInvInit, LinkInvStep, PTL DEF Spec

\* For any number of managers and attempts: a manager has one connection at a time, that of
\* its current attempt, and only that one runs runWebsocket.
THEOREM OneLinkCorrect == Spec => []OneLink
<1>1. ASSUME LinkInv PROVE OneLink
  <2> SUFFICES ASSUME NEW m \in Managers, NEW a \in Attempts, Owner(a) = m,
                      socket[a] = "open" \/ handler[a] \notin {"none", "returned"}
               PROVE  loop[m] = "attempt" /\ a = Now(m)
    BY DEF OneLink
  <2>1. loop[m] = "attempt" /\ a[2] = try[m]
    BY <1>1, WorkIsCurrent
  <2>2. a = Now(m)
    BY <1>1, <2>1, CurrentAttempt DEF LinkInv
  <2>3. QED
    BY <2>1, <2>2
<1>2. QED
  BY <1>1, LinkInvariant, PTL

-----------------------------------------------------------------------------
\* With a sole manager, one attempt at most is at work or connected.
LEMMA OneAtWork ==
    ASSUME SoleManager, LinkInv, NEW a \in Attempts, NEW b \in Attempts,
           handler[a] \notin {"none", "returned"} \/ socket[a] = "open",
           handler[b] \notin {"none", "returned"} \/ socket[b] = "open"
    PROVE  a = b
<1>1. a[2] = try[Owner(a)] /\ b[2] = try[Owner(b)]
  BY WorkIsCurrent
<1>2. Owner(a) = Owner(b)
  BY AttemptParts DEF SoleManager
<1>3. a = <<Owner(a), a[2]>> /\ b = <<Owner(b), b[2]>>
  BY AttemptParts
<1>4. QED
  BY <1>1, <1>2, <1>3

\* Every step of a sole manager keeps the commander on the connection that is served.
LEMMA CommanderStep ==
    SoleManager /\ LinkInv /\ CommanderFollows /\ [Next]_vars => CommanderFollows'
<1> SUFFICES ASSUME SoleManager, LinkInv, CommanderFollows, [Next]_vars
             PROVE  CommanderFollows'
  OBVIOUS
<1>0. TypeOK /\ \A a \in Attempts : Phase(a)
  BY DEF LinkInv
<1>1. ASSUME UNCHANGED commander,
             \A a \in Attempts : Holding(a)' <=> Holding(a)
      PROVE  CommanderFollows'
  BY <1>1 DEF CommanderFollows
<1>2. ASSUME NEW a \in Attempts, Running(a) \/ OnDisconnected(a) \/ ServerCloses(a)
      PROVE  CommanderFollows'
  BY <1>1, <1>2
  DEF Holding, Running, Authorize, AuthorizationFails, Connects, ConnectFails, Close, Closed,
      OnDisconnected, ServerCloses
<1>3. ASSUME NEW a \in Attempts, OpenerSetsReady(a) \/ OpenerSetsAlive(a)
      PROVE  CommanderFollows'
  BY <1>1, <1>3 DEF Holding, OpenerSetsReady, OpenerSetsAlive
<1>4. ASSUME NEW a \in Attempts, OpenerNotifies(a) PROVE CommanderFollows'
  <2>1. handler[a] = "none"
    BY <1>0, <1>4 DEF Phase, OpenerNotifies
  <2>2. /\ UNCHANGED commander
        /\ handler'[a] \in {"none", "starting"}
        /\ \A b \in Attempts : b # a => handler'[b] = handler[b]
    BY <1>0, <1>4, <2>1 DEF TypeOK, OpenerNotifies
  <2>3. \A b \in Attempts : Holding(b)' <=> Holding(b)
    BY <2>1, <2>2 DEF Holding
  <2>4. QED
    BY <1>1, <2>2, <2>3
<1>5. ASSUME NEW a \in Attempts, HandlerStarts(a) PROVE CommanderFollows'
  <2>1. /\ handler[a] = "starting"
        /\ commander' = a
        /\ \A b \in Attempts : handler'[b] = IF b = a THEN "serving" ELSE handler[b]
    BY <1>0, <1>5 DEF TypeOK, HandlerStarts
  <2>2. \A b \in Attempts : b # a => ~Holding(b)
    BY <2>1, OneAtWork DEF Holding
  <2>3. QED
    BY <2>1, <2>2 DEF CommanderFollows, Holding
<1>6. ASSUME NEW a \in Attempts,
             \/ HandlerLeaves(a) \/ StopAnswered(a) \/ StopForbidden(a)
             \/ StopAgain(a) \/ StopTimesOut(a)
      PROVE  CommanderFollows'
  <2>1. /\ UNCHANGED commander
        /\ Holding(a) /\ Holding(a)'
        /\ \A b \in Attempts : b # a => handler'[b] = handler[b]
    BY <1>0, <1>6
    DEF TypeOK, Holding, HandlerLeaves, StopAnswered, StopForbidden, StopAgain, StopTimesOut
  <2>2. \A b \in Attempts : Holding(b)' <=> Holding(b)
    BY <2>1 DEF Holding
  <2>3. QED
    BY <1>1, <2>1, <2>2
<1>7. ASSUME NEW a \in Attempts, HandlerReturns(a) PROVE CommanderFollows'
  <2>1. /\ handler[a] = "clearing"
        /\ commander' = NoConn
        /\ \A b \in Attempts : handler'[b] = IF b = a THEN "returned" ELSE handler[b]
    BY <1>0, <1>7 DEF TypeOK, HandlerReturns
  <2>2. \A b \in Attempts : b # a => ~Holding(b)
    BY <2>1, OneAtWork DEF Holding
  <2>3. \A b \in Attempts : ~Holding(b)' /\ commander' # b
    BY <2>1, <2>2, NoConnIsNone DEF Holding
  <2>4. QED
    BY <2>3 DEF CommanderFollows
<1>8. ASSUME NEW m \in Managers, Looping(m) \/ Cancel(m) PROVE CommanderFollows'
  BY <1>1, <1>8
  DEF Holding, Looping, BeginAttempt, EndAttempt, StopLoop, CancelAttempt, Cancel
<1>9. CASE StreamChanges \/ UNCHANGED vars
  BY <1>1, <1>9 DEF Holding, StreamChanges, vars
<1>10. QED
  BY <1>2, <1>3, <1>4, <1>5, <1>6, <1>7, <1>8, <1>9 DEF Next, Opening, Handling

\* An attempt that is about to write its offline update has not been replaced.
LEMMA UpdatingIsLatest ==
    ASSUME LinkInv, NEW a \in Attempts, closer[a] = "updating"
    PROVE  a[2] = try[Owner(a)]
<1>1. InTurn(a) /\ Phase(a)
  BY DEF LinkInv
<1>2. ~Fresh(a) /\ failed[a] # "error"
  BY <1>1 DEF Fresh, Phase
<1>3. a[2] \in 1 .. AttemptLimit /\ try[Owner(a)] \in 0 .. AttemptLimit
  BY AttemptParts DEF LinkInv, TypeOK
<1>4. QED
  BY <1>1, <1>2, <1>3 DEF InTurn

\* Every step of a sole manager keeps an announced connection available.
LEMMA AvailableStep ==
    SoleManager /\ LinkInv /\ ConnectedIsAvailable /\ [Next]_vars => ConnectedIsAvailable'
<1> SUFFICES ASSUME SoleManager, LinkInv, ConnectedIsAvailable, [Next]_vars
             PROVE  ConnectedIsAvailable'
  OBVIOUS
<1> USE DEF ConnectedIsAvailable
<1>0. TypeOK /\ \A a \in Attempts : Phase(a)
  BY DEF LinkInv
<1>1. ASSUME UNCHANGED <<socket, opener, alive>> PROVE ConnectedIsAvailable'
  BY <1>1
<1>2. ASSUME NEW a \in Attempts,
             \/ Authorize(a) \/ AuthorizationFails(a) \/ ConnectFails(a) \/ Closed(a)
             \/ Handling(a)
      PROVE  ConnectedIsAvailable'
  BY <1>1, <1>2
  DEF Authorize, AuthorizationFails, ConnectFails, Closed, Handling, HandlerStarts,
      HandlerLeaves, StopAnswered, StopForbidden, StopAgain, StopTimesOut, HandlerReturns
<1>3. ASSUME NEW a \in Attempts, Connects(a) \/ OpenerSetsReady(a) PROVE ConnectedIsAvailable'
  BY <1>0, <1>3 DEF TypeOK, Connects, OpenerSetsReady
<1>4. ASSUME NEW a \in Attempts, Close(a) \/ ServerCloses(a) PROVE ConnectedIsAvailable'
  BY <1>0, <1>4 DEF TypeOK, Close, ServerCloses
<1>5. ASSUME NEW a \in Attempts, OpenerSetsAlive(a) \/ OpenerNotifies(a)
      PROVE  ConnectedIsAvailable'
  BY <1>0, <1>5 DEF TypeOK, OpenerSetsAlive, OpenerNotifies
<1>6. ASSUME NEW a \in Attempts, OnDisconnected(a) PROVE ConnectedIsAvailable'
  <2>1. CASE closer[a] = "failing"
    BY <1>1, <1>6, <2>1 DEF OnDisconnected
  <2>2. CASE closer[a] = "updating"
    <3>1. ASSUME NEW b \in Attempts, socket[b] = "open" PROVE FALSE
      <4>1. a[2] = try[Owner(a)] /\ b[2] = try[Owner(b)]
        BY <2>2, <3>1, UpdatingIsLatest, WorkIsCurrent
      <4>2. Owner(a) = Owner(b)
        BY AttemptParts DEF SoleManager
      <4>3. a = <<Owner(a), a[2]>> /\ b = <<Owner(b), b[2]>>
        BY AttemptParts
      <4>4. a = b
        BY <4>1, <4>2, <4>3
      <4>5. closer[b] = "none"
        BY <1>0, <3>1 DEF Phase
      <4>6. QED
        BY <2>2, <4>4, <4>5
    <3>2. UNCHANGED socket
      BY <1>6 DEF OnDisconnected
    <3>3. QED
      BY <3>1, <3>2
  <2>3. QED
    BY <1>6, <2>1, <2>2 DEF OnDisconnected
<1>7. ASSUME NEW m \in Managers, Looping(m) \/ Cancel(m) PROVE ConnectedIsAvailable'
  BY <1>1, <1>7
  DEF Looping, BeginAttempt, EndAttempt, StopLoop, CancelAttempt, Cancel
<1>8. CASE StreamChanges \/ UNCHANGED vars
  BY <1>1, <1>8 DEF StreamChanges, vars
<1>9. QED
  BY <1>2, <1>3, <1>4, <1>5, <1>6, <1>7, <1>8 DEF Next, Running, Opening

\* A connection that has announced itself and has not yet written its offline update.
Source(a) == opener[a] \in {"alive", "done"} /\ closer[a] \in {"none", "updating"}

\* Every step of a sole manager keeps a source for what the board says.
LEMMA SourceStep ==
    SoleManager /\ LinkInv /\ AliveHasSource /\ [Next]_vars => AliveHasSource'
<1> SUFFICES ASSUME SoleManager, LinkInv, AliveHasSource, [Next]_vars, NEW m \in Managers,
                    alive', ~stopped'[m], ~Cut(m)'
             PROVE  \E a \in Attempts : Source(a)'
  BY DEF AliveHasSource, Source
<1>0. TypeOK /\ \A a \in Attempts : Phase(a)
  BY DEF LinkInv
<1>1. ASSUME alive, ~stopped[m],
             \A a \in Attempts : socket[a] = "cut" => socket'[a] = "cut",
             \A a \in Attempts : Source(a) => Source(a)'
      PROVE  \E a \in Attempts : Source(a)'
  <2>1. ~Cut(m)
    BY <1>1 DEF Cut
  <2>2. QED
    BY <1>1, <2>1 DEF AliveHasSource, Source
<1>2. ASSUME UNCHANGED <<alive, stopped, socket, opener, closer>>
      PROVE  \E a \in Attempts : Source(a)'
  BY <1>1, <1>2 DEF Source
<1>3. ASSUME NEW a \in Attempts,
             \/ Authorize(a) \/ AuthorizationFails(a) \/ ConnectFails(a) \/ Closed(a)
             \/ Handling(a)
      PROVE  \E b \in Attempts : Source(b)'
  BY <1>2, <1>3
  DEF Authorize, AuthorizationFails, ConnectFails, Closed, Handling, HandlerStarts,
      HandlerLeaves, StopAnswered, StopForbidden, StopAgain, StopTimesOut, HandlerReturns
<1>4. ASSUME NEW a \in Attempts, Connects(a) PROVE \E b \in Attempts : Source(b)'
  <2>1. socket[a] = "new" /\ opener[a] = "none"
    BY <1>0, <1>4 DEF Phase, Connects
  <2>2. /\ UNCHANGED <<alive, stopped, closer>>
        /\ \A b \in Attempts : b # a => socket'[b] = socket[b] /\ opener'[b] = opener[b]
    BY <1>0, <1>4 DEF TypeOK, Connects
  <2>3. QED
    BY <1>1, <2>1, <2>2 DEF Source
<1>5. ASSUME NEW a \in Attempts, Close(a) \/ ServerCloses(a)
      PROVE  \E b \in Attempts : Source(b)'
  <2>1. UNCHANGED <<alive, stopped, opener>>
    BY <1>5 DEF Close, ServerCloses
  <2>2. \A b \in Attempts : socket[b] = "cut" => socket'[b] = "cut"
    BY <1>0, <1>5 DEF TypeOK, Close, ServerCloses
  <2>3. \A b \in Attempts : closer[b] \in {"none", "updating"} => closer'[b] \in {"none", "updating"}
    <3>1. UNCHANGED closer \/ Disconnected(a)
      BY <1>5 DEF Close, ServerCloses
    <3> QED
      BY <1>0, <3>1 DEF TypeOK, Disconnected
  <2>4. QED
    BY <1>1, <2>1, <2>2, <2>3 DEF Source
<1>6. ASSUME NEW a \in Attempts, OpenerSetsReady(a) \/ OpenerNotifies(a)
      PROVE  \E b \in Attempts : Source(b)'
  <2>1. UNCHANGED <<alive, stopped, socket, closer>>
    BY <1>6 DEF OpenerSetsReady, OpenerNotifies
  <2>2. \A b \in Attempts : opener[b] \in {"alive", "done"} => opener'[b] \in {"alive", "done"}
    <3>1. \/ opener[a] = "spawned" /\ opener' = [opener EXCEPT ![a] = "ready"]
          \/ opener' = [opener EXCEPT ![a] = "done"]
      BY <1>6 DEF OpenerSetsReady, OpenerNotifies
    <3> QED
      BY <1>0, <3>1 DEF TypeOK
  <2>3. QED
    BY <1>1, <2>1, <2>2 DEF Source
<1>7. ASSUME NEW a \in Attempts, OpenerSetsAlive(a) PROVE \E b \in Attempts : Source(b)'
  <2>1. /\ opener[a] = "ready" /\ opener'[a] = "alive"
        /\ UNCHANGED <<stopped, socket, closer>>
    BY <1>0, <1>7 DEF TypeOK, OpenerSetsAlive
  <2>2. Owner(a) = m
    BY AttemptParts DEF SoleManager
  <2>3. socket[a] # "cut"
    BY <2>1, <2>2 DEF Cut
  <2>4. closer[a] = "none"
    BY <1>0, <2>1, <2>2, <2>3 DEF Phase
  <2>5. QED
    BY <2>1, <2>4 DEF Source
<1>8. ASSUME NEW a \in Attempts, OnDisconnected(a) PROVE \E b \in Attempts : Source(b)'
  <2>1. /\ closer[a] = "failing"
        /\ UNCHANGED <<alive, stopped, socket, opener>>
        /\ \A b \in Attempts : b # a => closer'[b] = closer[b]
    BY <1>0, <1>8 DEF TypeOK, OnDisconnected
  <2>2. QED
    BY <1>1, <2>1 DEF Source
<1>9. ASSUME NEW n \in Managers, Looping(n) \/ Cancel(n) PROVE \E b \in Attempts : Source(b)'
  <2>1. UNCHANGED <<alive, socket, opener, closer>> /\ (stopped[m] => stopped'[m])
    <3>1. CASE Cancel(n)
      BY <1>0, <3>1 DEF TypeOK, Cancel
    <3>2. CASE Looping(n)
      BY <3>2 DEF Looping, BeginAttempt, EndAttempt, StopLoop, CancelAttempt
    <3> QED
      BY <1>9, <3>1, <3>2
  <2>2. QED
    BY <1>1, <2>1 DEF Source
<1>10. CASE StreamChanges \/ UNCHANGED vars
  BY <1>2, <1>10 DEF StreamChanges, vars
<1>11. QED
  BY <1>3, <1>4, <1>5, <1>6, <1>7, <1>8, <1>9, <1>10 DEF Next, Running, Opening

\* Initially there is no connection, and the board says so.
LEMMA SoleInvInit == Init => SoleInv
BY NoConnIsNone DEF Init, SoleInv, CommanderFollows, Holding, ConnectedIsAvailable, AliveHasSource

\* For a sole manager, what the commander, the board and the connections say fits together.
THEOREM SoleInvariant == ASSUME SoleManager PROVE Spec => []SoleInv
<1>1. LinkInv /\ SoleInv /\ [Next]_vars => SoleInv'
  BY CommanderStep, AvailableStep, SourceStep DEF SoleInv
<1>2. QED
  BY <1>1, SoleInvInit, LinkInvariant, PTL DEF Spec

\* For a sole manager and any number of attempts: commands go to the connection whose
\* runWebsocket is at work, and to none otherwise.
THEOREM CommanderCorrect == ASSUME SoleManager PROVE Spec => []CommanderFollows
<1>1. SoleInv => CommanderFollows
  BY DEF SoleInv
<1>2. QED
  BY <1>1, SoleInvariant, PTL

\* For a sole manager and any number of attempts: a connection that is up and announced is
\* shown as available, whatever earlier connections still have to write.
THEOREM AvailableCorrect == ASSUME SoleManager PROVE Spec => []ConnectedIsAvailable
<1>1. SoleInv => ConnectedIsAvailable
  BY DEF SoleInv
<1>2. QED
  BY <1>1, SoleInvariant, PTL

\* For a sole manager and any number of attempts: between two attempts nothing says that the
\* camera is connected, unless a connection was closed before OnConnected was through.
THEOREM UnavailableCorrect == ASSUME SoleManager PROVE Spec => []OfflineIsUnavailable
<1>1. LinkInv /\ SoleInv => OfflineIsUnavailable
  <2> SUFFICES ASSUME LinkInv, SoleInv, NEW m \in Managers,
                      loop[m] = "cooling", ~stopped[m], ~Cut(m), alive
               PROVE  FALSE
    BY DEF OfflineIsUnavailable
  <2>1. PICK a \in Attempts : opener[a] \in {"alive", "done"} /\ closer[a] \in {"none", "updating"}
    BY DEF SoleInv, AliveHasSource
  <2>2. InTurn(a) /\ Phase(a)
    BY DEF LinkInv
  <2>3. Owner(a) = m /\ a[2] \in 1 .. AttemptLimit /\ try[m] \in 0 .. AttemptLimit
    BY AttemptParts DEF SoleManager, LinkInv, TypeOK
  <2>4. ~Fresh(a)
    BY <2>1 DEF Fresh
  <2>5. failed[a] = "error"
    BY <2>2, <2>3, <2>4 DEF InTurn
  <2>6. QED
    BY <2>1, <2>2, <2>5 DEF Phase
<1>2. QED
  BY <1>1, LinkInvariant, SoleInvariant, PTL
=============================================================================
