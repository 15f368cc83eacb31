--------------------------- MODULE LocalStreaming ---------------------------
(***************************************************************************)
(* How the bridge asks the camera of one baby to publish its stream        *)
(* (App.runWebsocket, requestLocalStreaming), and how it learns whether    *)
(* the camera does (StreamState, written by the RTMP server).              *)
(*                                                                         *)
(* Three kinds of goroutines share the board of StateManager: runWebsocket *)
(* of each connection, the worker of the watcher it subscribes, and the    *)
(* requests the two of them start, which nobody keeps track of.            *)
(*                                                                         *)
(* The steps of a connection are those of CameraLink, those of an update   *)
(* are in StateManager.  Here a watcher's queue is the number of the       *)
(* "unhealthy" updates in it, all the others being ignored, and requests   *)
(* are counted, not named.                                                 *)
(***************************************************************************)
EXTENDS Naturals, FiniteSets

CONSTANTS
    ConnLimit,     \* bound on the connections to the camera
    PublishLimit   \* bound on the connections by which it publishes

ASSUME LimitAssumption == {ConnLimit, PublishLimit} \subseteq Nat

Conns    == 1 .. ConnLimit
Requests == Conns \X {"start", "stop"}
Places   == {"asking", "awaiting", "failing", "sleeping"}

VARIABLES
    conn,       \* the number of the last connection
    link,       \* it is "up" or "down"
    stopped,    \* the application is being stopped
    handler,    \* runWebsocket of each connection
    watcher,    \* the worker of its subscription
    queue,      \* the updates that say "unhealthy" in the worker's queue
    requests,   \* how many calls of requestLocalStreaming are where
    publishers, \* RTMP connections by which the camera publishes
    published,  \* how many there have been
    notices,    \* updates on their way from the board to the watchers
    alive,      \* IsWebsocketAlive on the board
    state,      \* StreamState on the board
    request,    \* StreamRequestState on the board
    due         \* history: the stream turned unhealthy, and nothing came of it so far

linkVars   == <<conn, link, stopped, alive>>
streamVars == <<publishers, published, notices, state>>
watchVars  == <<watcher, queue>>
vars == <<linkVars, handler, watchVars, requests, streamVars, request, due>>

-----------------------------------------------------------------------------
Init ==
    /\ conn = 0
    /\ link = "down"
    /\ stopped = FALSE
    /\ handler = [c \in Conns |-> "none"]
    /\ watcher = [c \in Conns |-> "none"]
    /\ queue = [c \in Conns |-> 0]
    /\ requests = [r \in Requests |-> [p \in Places |-> 0]]
    /\ publishers = 0
    /\ published = 0
    /\ notices = 0
    /\ alive = FALSE
    /\ state = "unknown"
    /\ request = "none"
    /\ due = FALSE

\* Another call of requestLocalStreaming.
Starts(r) == requests' = [requests EXCEPT ![r]["asking"] = @ + 1]

\* A call goes on to another place, or returns.
GoesOn(r, from, to) ==
    /\ requests[r][from] > 0
    /\ requests' = [requests EXCEPT ![r][from] = @ - 1, ![r][to] = @ + 1]

Returns(r, from) ==
    /\ requests[r][from] > 0
    /\ requests' = [requests EXCEPT ![r][from] = @ - 1]

-----------------------------------------------------------------------------
(* The connection                                                          *)

\* OnConnected; the attempt before has ended, its runWebsocket included.
Connect(c) ==
    /\ c = conn + 1
    /\ link = "down" /\ ~stopped
    /\ conn # 0 => handler[conn] = "gone"
    /\ conn' = c
    /\ link' = "up"
    /\ alive' = TRUE
    /\ handler' = [handler EXCEPT ![c] = "starting"]
    /\ UNCHANGED <<stopped, watchVars, requests, streamVars, request, due>>

\* OnDisconnected, be it that the connection was lost or that it has been closed.
Disconnect ==
    /\ link = "up"
    /\ link' = "down"
    /\ alive' = FALSE
    /\ UNCHANGED <<conn, stopped, handler, watchVars, requests, streamVars, request, due>>

Stop ==
    /\ ~stopped
    /\ stopped' = TRUE
    /\ UNCHANGED <<conn, link, alive, handler, watchVars, requests, streamVars, request, due>>

(* runWebsocket                                                            *)

\* Subscribe tells the watcher the state as it is.
Watch(c) ==
    /\ handler[c] = "starting"
    /\ handler' = [handler EXCEPT ![c] = "watching"]
    /\ watcher' = [watcher EXCEPT ![c] = "on"]
    /\ queue' = [queue EXCEPT ![c] = IF state = "unhealthy" THEN 1 ELSE 0]
    /\ UNCHANGED <<linkVars, requests, streamVars, request, due>>

CheckStream(c) ==
    /\ handler[c] = "watching"
    /\ handler' = [handler EXCEPT ![c] = "running"]
    /\ IF state = "unhealthy" \/ (state = "unknown" /\ request # "requested")
       THEN Starts(<<c, "start">>)
       ELSE UNCHANGED requests
    /\ UNCHANGED <<linkVars, watchVars, streamVars, request, due>>

\* cleanup: the watcher is told to end ...
Leave(c) ==
    /\ handler[c] = "running"
    /\ link = "down" \/ stopped
    /\ handler' = [handler EXCEPT ![c] = "leaving"]
    /\ watcher' = [watcher EXCEPT ![c] = "closed"]
    /\ UNCHANGED <<linkVars, queue, requests, streamVars, request, due>>

\* ... and the camera is told to stop if it publishes and can be reached.
StopStream(c) ==
    /\ handler[c] = "leaving"
    /\ IF alive /\ state = "alive"
       THEN /\ handler' = [handler EXCEPT ![c] = "stopping"]
            /\ Starts(<<c, "stop">>)
       ELSE /\ handler' = [handler EXCEPT ![c] = "gone"]
            /\ UNCHANGED requests
    /\ UNCHANGED <<linkVars, watchVars, streamVars, request, due>>

Return(c) ==
    /\ handler[c] = "stopping"
    /\ \A p \in Places : requests[<<c, "stop">>][p] = 0
    /\ handler' = [handler EXCEPT ![c] = "gone"]
    /\ UNCHANGED <<linkVars, watchVars, requests, streamVars, request, due>>

-----------------------------------------------------------------------------
(* The watcher                                                             *)

\* Mutant: a camera that has been asked already is not asked again.
WatchIfNotRequested(c) ==
    /\ watcher[c] \in {"on", "closed"}
    /\ queue[c] > 0
    /\ queue' = [queue EXCEPT ![c] = @ - 1]
    /\ IF request # "requested" THEN Starts(<<c, "start">>) ELSE UNCHANGED requests
    /\ UNCHANGED <<linkVars, handler, watcher, streamVars, request, due>>

\* The callback asks again, unless a request is known to have failed.  A worker whose
\* queue is not empty may be served even after it was told to end.
WatchUpdate(c) ==
    /\ watcher[c] \in {"on", "closed"}
    /\ queue[c] > 0
    /\ queue' = [queue EXCEPT ![c] = @ - 1]
    /\ IF request = "failed"
       THEN due' = (due /\ c # conn) /\ UNCHANGED requests
       ELSE Starts(<<c, "start">>) /\ UNCHANGED due
    /\ UNCHANGED <<linkVars, handler, watcher, streamVars, request>>

WatcherEnds(c) ==
    /\ watcher[c] = "closed"
    /\ watcher' = [watcher EXCEPT ![c] = "ended"]
    /\ queue' = [queue EXCEPT ![c] = 0]
    /\ UNCHANGED <<linkVars, handler, requests, streamVars, request, due>>

-----------------------------------------------------------------------------
(* requestLocalStreaming                                                   *)

Ask(r) ==
    /\ GoesOn(r, "asking", "awaiting")
    /\ due' = (due /\ r # <<conn, "start">>)
    /\ UNCHANGED <<linkVars, handler, watchVars, streamVars, request>>

\* The camera can answer while the connection the request went by is up.
Reachable(r) == r[1] = conn /\ link = "up"

\* Stopping is noted as a request, too.
Accepted(r) ==
    /\ Reachable(r)
    /\ Returns(r, "awaiting")
    /\ request' = "requested"
    /\ UNCHANGED <<linkVars, handler, watchVars, streamVars, due>>

\* "Number of Mobile App connections above limit": another try after five minutes.
Forbidden(r) ==
    /\ Reachable(r)
    /\ GoesOn(r, "awaiting", "sleeping")
    /\ request' = "failed"
    /\ UNCHANGED <<linkVars, handler, watchVars, streamVars, due>>

WakeUp(r) ==
    /\ GoesOn(r, "sleeping", "asking")
    /\ UNCHANGED <<linkVars, handler, watchVars, streamVars, request, due>>

\* Any other error does not count if the stream is alive.
Refused(r) ==
    /\ Reachable(r)
    /\ IF state = "alive" THEN Returns(r, "awaiting") ELSE GoesOn(r, "awaiting", "failing")
    /\ UNCHANGED <<linkVars, handler, watchVars, streamVars, request, due>>

NoteFailure(r) ==
    /\ Returns(r, "failing")
    /\ request' = "failed"
    /\ UNCHANGED <<linkVars, handler, watchVars, streamVars, due>>

\* Mutant: a request that was not answered is repeated whatever has become of the connection.
RetryAlways(r) ==
    /\ GoesOn(r, "awaiting", "asking")
    /\ UNCHANGED <<linkVars, handler, watchVars, streamVars, request, due>>

\* No answer in 30 seconds: it is repeated if the board says that there is a connection,
\* which need not be the one of the request.
TimesOut(r) ==
    /\ IF alive THEN GoesOn(r, "awaiting", "asking") ELSE Returns(r, "awaiting")
    /\ UNCHANGED <<linkVars, handler, watchVars, streamVars, request, due>>

-----------------------------------------------------------------------------
(* The RTMP server                                                         *)

\* The camera publishes, by a connection next to those it may still have.
Publish ==
    /\ published < PublishLimit
    /\ published' = published + 1
    /\ publishers' = publishers + 1
    /\ state' = "alive"
    /\ due' = FALSE
    /\ UNCHANGED <<linkVars, handler, watchVars, requests, notices, request>>

\* One of them ends.  An update that changes nothing is not told to anyone.
Lost ==
    /\ publishers > 0
    /\ publishers' = publishers - 1
    /\ state' = "unhealthy"
    /\ IF state = "unhealthy"
       THEN UNCHANGED <<notices, due>>
       ELSE notices' = notices + 1 /\ due' = TRUE
    /\ UNCHANGED <<linkVars, handler, watchVars, requests, published, request>>

\* notifySubscribers, after the lock of the board has been left.
Notify ==
    /\ notices > 0
    /\ notices' = notices - 1
    /\ queue' = [c \in Conns |-> IF watcher[c] = "on" THEN queue[c] + 1 ELSE queue[c]]
    /\ UNCHANGED <<linkVars, handler, watcher, requests, publishers, published, state, request, due>>

-----------------------------------------------------------------------------
Handling(c) == Watch(c) \/ CheckStream(c) \/ Leave(c) \/ StopStream(c) \/ Return(c)

Working(c) == WatchUpdate(c) \/ WatcherEnds(c)

Awaiting(r) == Accepted(r) \/ Forbidden(r) \/ Refused(r) \/ TimesOut(r)

Next ==
    \/ \E c \in Conns : Connect(c) \/ Handling(c) \/ Working(c)
    \/ Disconnect \/ Stop \/ Publish \/ Lost \/ Notify
    \/ \E r \in Requests : Ask(r) \/ Awaiting(r) \/ WakeUp(r) \/ NoteFailure(r)

Spec == Init /\ [][Next]_vars

\* Goroutines go on, and a request times out if nothing else comes of it.  Nobody has to
\* connect, to disconnect or to publish.
FairSpec ==
    /\ Spec
    /\ WF_vars(Notify)
    /\ \A c \in Conns : WF_vars(Handling(c)) /\ WF_vars(Working(c))
    /\ \A r \in Requests :
          WF_vars(Ask(r)) /\ WF_vars(Awaiting(r)) /\ WF_vars(WakeUp(r)) /\ WF_vars(NoteFailure(r))

-----------------------------------------------------------------------------
(* Properties                                                              *)

\* Every variable has its type.
TypeOK ==
    /\ conn \in 0 .. ConnLimit
    /\ link \in {"up", "down"}
    /\ {stopped, alive, due} \subseteq BOOLEAN
    /\ handler \in [Conns -> {"none", "starting", "watching", "running", "leaving", "stopping", "gone"}]
    /\ watcher \in [Conns -> {"none", "on", "closed", "ended"}]
    /\ queue \in [Conns -> Nat]
    /\ requests \in [Requests -> [Places -> Nat]]
    /\ {publishers, published, notices} \subseteq Nat
    /\ state \in {"unknown", "alive", "unhealthy"}
    /\ request \in {"none", "requested", "failed"}

Connected(c) == c = conn /\ handler[c] = "running" /\ link = "up" /\ ~stopped

Idle(r) == \A p \in Places : requests[r][p] = 0

\* "Do another streaming request if stream just turned unhealthy" (app.go:362), before or
\* after the connection came up, unless "we already received failure" (app.go:364).
AskedAgain == \A c \in Conns : (Connected(c) /\ due) ~> (~due \/ ~Connected(c))

\* Nobody cancels the requests of a connection that is gone, or waits for them; still, none
\* of them goes on for ever when the camera does not come back.
RequestsEnd == <>[]~alive => <>[](\A r \in Requests : Idle(r))

\* The same for each connection.  It does not hold: a request that goes on by the connection
\* that is gone is repeated as long as there is a later one.
RequestsEndWithLink == \A c \in Conns : [](c < conn => <>Idle(<<c, "start">>))

\* "Prevent duplicate request" (app.go:364).  It does not hold: a watcher of a stream that is
\* unhealthy is told so at once, and runWebsocket asks as well.
OneRequest == \A c \in Conns : \A p \in Places : requests[<<c, "start">>][p] < 2

\* The stream is not shown as unhealthy while the camera publishes.  It does not hold, nor is
\* the loss of that stream noticed: the end of a connection that has been replaced (server.go:90)
\* is the last change of the board.
HealthIsTrue == state = "alive" \/ publishers = 0

\* No request to publish follows the one to stop.  It does not hold: a request that has timed
\* out is repeated while the connection is up.
StopIsLast ==
    [][\A c \in Conns : handler[c] = "stopping" => requests'[<<c, "start">>]["awaiting"] <= requests[<<c, "start">>]["awaiting"]]_vars
=============================================================================
