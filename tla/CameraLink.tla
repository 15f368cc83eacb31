----------------------------- MODULE CameraLink -----------------------------
(***************************************************************************)
(* The websocket to the camera of one baby: the loop of connection         *)
(* attempts (utils.RunWithPerseverance, client.WebsocketConnectionManager),*)
(* the callbacks of the socket library, and what the application runs on a *)
(* ready connection (App.runWebsocket, babyCommander).                     *)
(*                                                                         *)
(* In one attempt up to four goroutines are at work: manager.run, the      *)
(* goroutine OnConnected starts ("opener"), the one in which the library   *)
(* calls OnDisconnected ("closer") and runWebsocket ("handler", a child    *)
(* context of the attempt).  They meet in the board of StateManager        *)
(* (alive, streaming), in manager.readyState and in babyCommander.conn.    *)
(* The next attempt starts when run and handler have returned: the         *)
(* WaitGroupExact of GracefulContext.                                      *)
(*                                                                         *)
(* There is one manager per call of App.handleBaby for the baby.           *)
(***************************************************************************)
EXTENDS Naturals

CONSTANTS
    Managers,      \* WebsocketConnectionManagers of the baby
    AttemptLimit   \* bound on the attempts of each manager

ASSUME AttemptAssumption == AttemptLimit \in Nat \ {0}

Attempts == Managers \X (1 .. AttemptLimit)

\* babyCommander.conn is nil.
NoConn == <<>>

VARIABLES
    loop,       \* RunWithPerseverance of each manager
    try,        \* the number of its current attempt, 0 before the first
    stopped,    \* the context handed to RunWithinContext is cancelled
    run,        \* progress of manager.run in each attempt
    failed,     \* the error of the context of the attempt
    socket,     \* gowebsocket.Socket; "cut": closed by the server before the opener was done
    opener,     \* the goroutine started by OnConnected
    closer,     \* the once.Do of OnDisconnected
    handler,    \* runWebsocket
    ready,      \* manager.readyState: the number of the attempt that set it, or 0
    commander,  \* babyCommander.conn: the attempt whose connection it is
    alive,      \* IsWebsocketAlive on the board
    streaming   \* StreamState is StreamState_Alive on the board

vars == <<loop, try, stopped, run, failed, socket, opener, closer, handler, ready,
          commander, alive, streaming>>

-----------------------------------------------------------------------------
Now(m) == <<m, try[m]>>

Owner(a) == a[1]

\* attempt.Fail: the first error stays.
Fail(a, e) == failed' = [failed EXCEPT ![a] = IF @ = "nil" THEN e ELSE @]

\* OnDisconnected is entered; sync.Once lets the first call through.
Disconnected(a) == closer' = [closer EXCEPT ![a] = IF @ = "none" THEN "updating" ELSE @]

Init ==
    /\ loop = [m \in Managers |-> "cooling"]
    /\ try = [m \in Managers |-> 0]
    /\ stopped = [m \in Managers |-> FALSE]
    /\ run = [a \in Attempts |-> "none"]
    /\ failed = [a \in Attempts |-> "nil"]
    /\ socket = [a \in Attempts |-> "new"]
    /\ opener = [a \in Attempts |-> "none"]
    /\ closer = [a \in Attempts |-> "none"]
    /\ handler = [a \in Attempts |-> "none"]
    /\ ready = [m \in Managers |-> 0]
    /\ commander = NoConn
    /\ alive = FALSE
    /\ streaming = FALSE

-----------------------------------------------------------------------------
(* RunWithPerseverance                                                     *)

\* The timer fires: the next attempt is run as a child.
BeginAttempt(m) ==
    /\ loop[m] = "cooling"
    /\ ~stopped[m]
    /\ try[m] < AttemptLimit
    /\ loop' = [loop EXCEPT ![m] = "attempt"]
    /\ try' = [try EXCEPT ![m] = @ + 1]
    /\ run' = [run EXCEPT ![<<m, try[m] + 1>>] = "authorizing"]
    /\ UNCHANGED <<stopped, failed, socket, opener, closer, handler, ready, commander,
                   alive, streaming>>

\* Mutant: the attempt is over as soon as manager.run returns, whatever its children do.
EndWithRun(m) ==
    /\ loop[m] = "attempt"
    /\ run[Now(m)] = "returned"
    /\ loop' = [loop EXCEPT ![m] = IF failed[Now(m)] = "cancelled" THEN "stopped" ELSE "cooling"]
    /\ UNCHANGED <<try, stopped, run, failed, socket, opener, closer, handler, ready,
                   commander, alive, streaming>>

\* Wait returns once run and its child have; a cancelled attempt is the last one, a
\* failed one is followed by a cooldown.
EndAttempt(m) ==
    /\ loop[m] = "attempt"
    /\ run[Now(m)] = "returned"
    /\ handler[Now(m)] \in {"none", "returned"}
    /\ loop' = [loop EXCEPT ![m] = IF failed[Now(m)] = "cancelled" THEN "stopped" ELSE "cooling"]
    /\ UNCHANGED <<try, stopped, run, failed, socket, opener, closer, handler, ready,
                   commander, alive, streaming>>

\* ctx.Done() during a cooldown.
StopLoop(m) ==
    /\ loop[m] = "cooling"
    /\ stopped[m]
    /\ loop' = [loop EXCEPT ![m] = "stopped"]
    /\ UNCHANGED <<try, stopped, run, failed, socket, opener, closer, handler, ready,
                   commander, alive, streaming>>

\* The context of handleBaby is cancelled, and with it that of the loop.
Cancel(m) ==
    /\ ~stopped[m]
    /\ stopped' = [stopped EXCEPT ![m] = TRUE]
    /\ UNCHANGED <<loop, try, run, failed, socket, opener, closer, handler, ready,
                   commander, alive, streaming>>

\* The cancellation reaches the context of the attempt (GracefulContext!CancelFails).
CancelAttempt(m) ==
    /\ loop[m] = "attempt"
    /\ stopped[m]
    /\ failed[Now(m)] = "nil"
    /\ Fail(Now(m), "cancelled")
    /\ UNCHANGED <<loop, try, stopped, run, socket, opener, closer, handler, ready,
                   commander, alive, streaming>>

(* manager.run                                                             *)

Authorize(a) ==
    /\ run[a] = "authorizing"
    /\ run' = [run EXCEPT ![a] = "connecting"]
    /\ UNCHANGED <<loop, try, stopped, failed, socket, opener, closer, handler, ready,
                   commander, alive, streaming>>

\* MaybeAuthorize fails: the attempt is failed and run returns.
AuthorizationFails(a) ==
    /\ run[a] = "authorizing"
    /\ Fail(a, "error")
    /\ run' = [run EXCEPT ![a] = "returned"]
    /\ UNCHANGED <<loop, try, stopped, socket, opener, closer, handler, ready, commander,
                   alive, streaming>>

\* socket.Connect calls OnConnected, which starts the opener and returns.
Connects(a) ==
    /\ run[a] = "connecting"
    /\ socket' = [socket EXCEPT ![a] = "open"]
    /\ opener' = [opener EXCEPT ![a] = "spawned"]
    /\ run' = [run EXCEPT ![a] = "waiting"]
    /\ UNCHANGED <<loop, try, stopped, failed, closer, handler, ready, commander, alive,
                   streaming>>

\* socket.Connect calls OnConnectError.
ConnectFails(a) ==
    /\ run[a] = "connecting"
    /\ Fail(a, "error")
    /\ run' = [run EXCEPT ![a] = "waiting"]
    /\ UNCHANGED <<loop, try, stopped, socket, opener, closer, handler, ready, commander,
                   alive, streaming>>

\* attempt.Done(): a socket that is still connected is closed, which calls
\* OnDisconnected in the goroutine of run.
Close(a) ==
    /\ run[a] = "waiting"
    /\ failed[a] # "nil"
    /\ IF socket[a] = "open"
       THEN /\ socket' = [socket EXCEPT ![a] = "closed"]
            /\ Disconnected(a)
            /\ run' = [run EXCEPT ![a] = "closing"]
       ELSE /\ run' = [run EXCEPT ![a] = "returned"]
            /\ UNCHANGED <<socket, closer>>
    /\ UNCHANGED <<loop, try, stopped, failed, opener, handler, ready, commander, alive,
                   streaming>>

\* once.Do has returned, and so does run.
Closed(a) ==
    /\ run[a] = "closing"
    /\ closer[a] = "done"
    /\ run' = [run EXCEPT ![a] = "returned"]
    /\ UNCHANGED <<loop, try, stopped, failed, socket, opener, closer, handler, ready,
                   commander, alive, streaming>>

(* The callbacks of the socket                                             *)

OpenerSetsReady(a) ==
    /\ opener[a] = "spawned"
    /\ ready' = [ready EXCEPT ![Owner(a)] = a[2]]
    /\ opener' = [opener EXCEPT ![a] = "ready"]
    /\ UNCHANGED <<loop, try, stopped, run, failed, socket, closer, handler, commander,
                   alive, streaming>>

OpenerSetsAlive(a) ==
    /\ opener[a] = "ready"
    /\ alive' = TRUE
    /\ opener' = [opener EXCEPT ![a] = "alive"]
    /\ UNCHANGED <<loop, try, stopped, run, failed, socket, closer, handler, ready,
                   commander, streaming>>

\* Mutant: the test of hasBeenCanceled in RunAsChild is missing.
OpenerAlwaysNotifies(a) ==
    /\ opener[a] = "alive"
    /\ handler' = [handler EXCEPT ![a] = "starting"]
    /\ opener' = [opener EXCEPT ![a] = "done"]
    /\ UNCHANGED <<loop, try, stopped, run, failed, socket, closer, ready, commander,
                   alive, streaming>>

\* notifyReadyHandler: RunAsChild refuses when the attempt has failed.
OpenerNotifies(a) ==
    /\ opener[a] = "alive"
    /\ handler' = [handler EXCEPT ![a] = IF failed[a] = "nil" THEN "starting" ELSE @]
    /\ opener' = [opener EXCEPT ![a] = "done"]
    /\ UNCHANGED <<loop, try, stopped, run, failed, socket, closer, ready, commander,
                   alive, streaming>>

\* The server closes the connection, or it is lost.
ServerCloses(a) ==
    /\ socket[a] = "open"
    /\ socket' = [socket EXCEPT ![a] = IF opener[a] = "done" THEN "closed" ELSE "cut"]
    /\ Disconnected(a)
    /\ UNCHANGED <<loop, try, stopped, run, failed, opener, handler, ready, commander,
                   alive, streaming>>

\* Mutant: OnDisconnected fails the attempt first and updates the board last.
DisconnectedFailsFirst(a) ==
    /\ \/ /\ closer[a] = "updating"
          /\ Fail(a, "error")
          /\ closer' = [closer EXCEPT ![a] = "failing"]
          /\ UNCHANGED alive
       \/ /\ closer[a] = "failing"
          /\ alive' = FALSE
          /\ closer' = [closer EXCEPT ![a] = "done"]
          /\ UNCHANGED failed
    /\ UNCHANGED <<loop, try, stopped, run, socket, opener, handler, ready, commander,
                   streaming>>

\* The body of OnDisconnected: update the board, then fail the attempt.
OnDisconnected(a) ==
    /\ \/ /\ closer[a] = "updating"
          /\ alive' = FALSE
          /\ closer' = [closer EXCEPT ![a] = "failing"]
          /\ UNCHANGED failed
       \/ /\ closer[a] = "failing"
          /\ Fail(a, "error")
          /\ closer' = [closer EXCEPT ![a] = "done"]
          /\ UNCHANGED alive
    /\ UNCHANGED <<loop, try, stopped, run, socket, opener, handler, ready, commander,
                   streaming>>

(* runWebsocket                                                            *)

HandlerStarts(a) ==
    /\ handler[a] = "starting"
    /\ commander' = a
    /\ handler' = [handler EXCEPT ![a] = "serving"]
    /\ UNCHANGED <<loop, try, stopped, run, failed, socket, opener, closer, ready, alive,
                   streaming>>

\* childCtx.Done(): cleanup asks the camera to stop streaming if, by the board, it is
\* both connected and streaming.
HandlerLeaves(a) ==
    /\ handler[a] = "serving"
    /\ failed[a] # "nil"
    /\ handler' = [handler EXCEPT ![a] = IF alive /\ streaming THEN "stopping" ELSE "clearing"]
    /\ UNCHANGED <<loop, try, stopped, run, failed, socket, opener, closer, ready,
                   commander, alive, streaming>>

\* The camera answers, with success or with an error that ends the request.
StopAnswered(a) ==
    /\ handler[a] = "stopping"
    /\ socket[a] = "open"
    /\ handler' = [handler EXCEPT ![a] = "clearing"]
    /\ UNCHANGED <<loop, try, stopped, run, failed, socket, opener, closer, ready,
                   commander, alive, streaming>>

\* "Number of Mobile App connections above limit": the request is made again after
\* five minutes, whatever has happened to the connection.
StopForbidden(a) ==
    /\ handler[a] = "stopping"
    /\ socket[a] = "open"
    /\ handler' = [handler EXCEPT ![a] = "sleeping"]
    /\ UNCHANGED <<loop, try, stopped, run, failed, socket, opener, closer, ready,
                   commander, alive, streaming>>

StopAgain(a) ==
    /\ handler[a] = "sleeping"
    /\ handler' = [handler EXCEPT ![a] = "stopping"]
    /\ UNCHANGED <<loop, try, stopped, run, failed, socket, opener, closer, ready,
                   commander, alive, streaming>>

\* Mutant: the request that timed out is made again, whatever the board says.
StopInsists(a) ==
    /\ handler[a] = "stopping"
    /\ UNCHANGED vars

\* After thirty seconds without an answer the request is given up if, by the board, the
\* camera is not connected.  Otherwise it is made again: a stuttering step.
StopTimesOut(a) ==
    /\ handler[a] = "stopping"
    /\ ~alive
    /\ handler' = [handler EXCEPT ![a] = "clearing"]
    /\ UNCHANGED <<loop, try, stopped, run, failed, socket, opener, closer, ready,
                   commander, alive, streaming>>

\* The deferred setConn(nil).
HandlerReturns(a) ==
    /\ handler[a] = "clearing"
    /\ commander' = NoConn
    /\ handler' = [handler EXCEPT ![a] = "returned"]
    /\ UNCHANGED <<loop, try, stopped, run, failed, socket, opener, closer, ready, alive,
                   streaming>>

\* The RTMP server sees the stream come or go.
StreamChanges ==
    /\ streaming' = ~streaming
    /\ UNCHANGED <<loop, try, stopped, run, failed, socket, opener, closer, handler, ready,
                   commander, alive>>

-----------------------------------------------------------------------------
Running(a) ==
    \/ Authorize(a) \/ AuthorizationFails(a) \/ Connects(a) \/ ConnectFails(a)
    \/ Close(a) \/ Closed(a)

Opening(a) == OpenerSetsReady(a) \/ OpenerSetsAlive(a) \/ OpenerNotifies(a)

Handling(a) ==
    \/ HandlerStarts(a) \/ HandlerLeaves(a) \/ StopAnswered(a) \/ StopForbidden(a)
    \/ StopAgain(a) \/ StopTimesOut(a) \/ HandlerReturns(a)

Looping(m) == BeginAttempt(m) \/ EndAttempt(m) \/ StopLoop(m) \/ CancelAttempt(m)

Next ==
    \/ \E m \in Managers : Looping(m) \/ Cancel(m)
    \/ \E a \in Attempts : Running(a) \/ Opening(a) \/ OnDisconnected(a) \/ Handling(a)
    \/ \E a \in Attempts : ServerCloses(a)
    \/ StreamChanges

Spec == Init /\ [][Next]_vars

\* Every goroutine that can go on does, and requests are answered or time out.  Nothing
\* makes the server close, main stop, or the stream change.
Fairness ==
    /\ \A m \in Managers : WF_vars(Looping(m))
    /\ \A a \in Attempts :
          /\ WF_vars(Running(a))
          /\ WF_vars(Opening(a))
          /\ WF_vars(OnDisconnected(a))
          /\ WF_vars(Handling(a))

FairSpec == Spec /\ Fairness

-----------------------------------------------------------------------------
(* Properties                                                              *)

\* Every variable has its type.
TypeOK ==
    /\ loop \in [Managers -> {"cooling", "attempt", "stopped"}]
    /\ try \in [Managers -> 0 .. AttemptLimit]
    /\ stopped \in [Managers -> BOOLEAN]
    /\ run \in [Attempts -> {"none", "authorizing", "connecting", "waiting", "closing",
                             "returned"}]
    /\ failed \in [Attempts -> {"nil", "error", "cancelled"}]
    /\ socket \in [Attempts -> {"new", "open", "closed", "cut"}]
    /\ opener \in [Attempts -> {"none", "spawned", "ready", "alive", "done"}]
    /\ closer \in [Attempts -> {"none", "updating", "failing", "done"}]
    /\ handler \in [Attempts -> {"none", "starting", "serving", "stopping", "sleeping",
                                 "clearing", "returned"}]
    /\ ready \in [Managers -> 0 .. AttemptLimit]
    /\ commander \in Attempts \cup {NoConn}
    /\ alive \in BOOLEAN
    /\ streaming \in BOOLEAN

\* runWebsocket has set the connection and not yet cleared it.
Holding(a) == handler[a] \in {"serving", "stopping", "sleeping", "clearing"}

\* Commands go to the connection whose runWebsocket is at work, and to none otherwise: a
\* runWebsocket that is late to leave never clears the connection of its successor.
CommanderFollows ==
    \A a \in Attempts : Holding(a) <=> commander = a

\* "callers always see the current one (or nil if the camera is offline)"
\* (commander.go:16-17): they are given no nil while a runWebsocket is at work on an open
\* connection and nobody is being stopped, however many managers the baby has.
CallersSeeCurrent ==
    /\ \A m \in Managers : ~stopped[m]
    /\ \E a \in Attempts : handler[a] = "serving" /\ socket[a] = "open"
    => commander # NoConn

\* A manager has one connection at a time: nothing of an attempt that is over is still
\* connected, or still in runWebsocket.
OneLink ==
    \A m \in Managers : \A a \in Attempts :
        (Owner(a) = m /\ (socket[a] = "open" \/ handler[a] \notin {"none", "returned"}))
            => loop[m] = "attempt" /\ a = Now(m)

\* A connection that is up and announced is shown as available: the offline update of an
\* earlier connection never comes after the online update of a later one.
ConnectedIsAvailable ==
    \A a \in Attempts :
        (socket[a] = "open" /\ opener[a] \in {"alive", "done"}) => alive

\* "entities go 'unavailable' when the camera is offline" (mqtt.go:185-186): between two
\* attempts nothing says that the camera is connected.
OfflineIsUnavailableEver ==
    \A m \in Managers : (loop[m] = "cooling" /\ ~stopped[m]) => ~alive

\* A connection of the manager was closed by the server before OnConnected was through.
Cut(m) == \E a \in Attempts : Owner(a) = m /\ socket[a] = "cut"

\* The same, as long as no connection is closed at once.
OfflineIsUnavailable ==
    \A m \in Managers : (loop[m] = "cooling" /\ ~stopped[m] /\ ~Cut(m)) => ~alive

\* A message that arrives before OnConnected has set the ready state is dropped
\* (websocket.go:179-180): while the socket of an attempt is open, the ready state is
\* nil or its own.
ReadyIsOwn ==
    \A a \in Attempts : socket[a] = "open" => ready[Owner(a)] \in {0, a[2]}

\* An attempt that has failed ends, and with it begins the cooldown before the next
\* one (attempter.go:34: "runs handler and tries it again if it fails"), unless a
\* connection was closed at once: then the cleanup may wait for ever.
FailedAttemptEnds ==
    \A m \in Managers :
        (loop[m] = "attempt" /\ failed[Now(m)] # "nil") ~> (loop[m] # "attempt" \/ Cut(m))

\* Once the context is cancelled, the loop ends and stays so, with the same exception.
LoopStops == \A m \in Managers : stopped[m] ~> [](loop[m] = "stopped" \/ Cut(m))

-----------------------------------------------------------------------------
(* What every step preserves                                               *)

\* Nothing has been done yet in an attempt that is still to come.
Fresh(a) ==
    /\ run[a] = "none" /\ failed[a] = "nil" /\ socket[a] = "new"
    /\ opener[a] = "none" /\ closer[a] = "none" /\ handler[a] = "none"

\* What Wait waits for has come to its end.
Over(a) == run[a] = "returned" /\ handler[a] \in {"none", "returned"}

\* The attempts of a manager come one after the other: later ones are fresh, and earlier
\* ones are over, with an error, or else there would have been no other.
InTurn(a) ==
    LET m == Owner(a) IN
    /\ a[2] > try[m] => Fresh(a)
    /\ a[2] < try[m] => Over(a) /\ failed[a] = "error"
    /\ a[2] = try[m] /\ loop[m] = "attempt" => run[a] # "none"
    /\ a[2] = try[m] /\ loop[m] = "cooling" => Over(a) /\ failed[a] = "error"
    /\ a[2] = try[m] /\ loop[m] = "stopped" => Over(a)

\* How far the socket and its callbacks can be in each phase of manager.run, and which
\* error can have ended the attempt by then.
Phase(a) ==
    /\ run[a] \in {"none", "authorizing", "connecting"} => socket[a] = "new" /\ failed[a] # "error"
    /\ run[a] \in {"closing", "returned"} => socket[a] # "open" /\ failed[a] # "nil"
    /\ socket[a] = "new" <=> opener[a] = "none"
    /\ socket[a] \in {"new", "open"} <=> closer[a] = "none"
    /\ closer[a] # "none" /\ opener[a] # "done" => socket[a] = "cut" \/ stopped[Owner(a)]
    /\ handler[a] # "none" => opener[a] = "done"
    /\ failed[a] = "error" => closer[a] = "done" \/ socket[a] = "new"
    /\ failed[a] = "cancelled" => stopped[Owner(a)]

\* The strengthening of OneLink that every step preserves.
LinkInv ==
    /\ TypeOK
    /\ \A m \in Managers : loop[m] = "attempt" => try[m] # 0
    /\ \A a \in Attempts : InTurn(a) /\ Phase(a)

\* The baby has one manager: it was configured at the start, and nobody logs in.
SoleManager == \A m, n \in Managers : m = n

\* The board says that the camera is connected because of a connection whose offline
\* update has not been written yet.
AliveHasSource ==
    \A m \in Managers :
        alive /\ ~stopped[m] /\ ~Cut(m) =>
            \E a \in Attempts : opener[a] \in {"alive", "done"} /\ closer[a] \in {"none", "updating"}

\* The strengthening of CommanderFollows, ConnectedIsAvailable and OfflineIsUnavailable
\* that the steps of a sole manager preserve.
SoleInv == CommanderFollows /\ ConnectedIsAvailable /\ AliveHasSource
=============================================================================
