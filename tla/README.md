# TLA+ models of nanit-onvif

The bridge connects Nanit cameras to local consumers: it keeps a websocket to every
camera, asks the camera to push its stream to a local RTMP server, and republishes
sensor state over MQTT, ONVIF and a dashboard. Nearly everything that can go wrong in
it is a matter of goroutines that meet in shared state. This directory holds TLA+
modules of those parts, the configurations with which TLC checks them, and proofs that
TLAPS checks.

    tlc -workers 2 -config StateManager_board.cfg MCStateManager    # one run
    tlapm StateManagerProofs.tla                                    # one module of proofs

`PROJECT.json` lists the runs, the source lines behind every definition (`map`), one
mutation of the code per property that makes it fail (`mutants`), the hazards and the
theorems. Line numbers are those of the modelled commit.

## 1. Inventory

| Part | State it keeps | Operations | What makes it correct |
|---|---|---|---|
| State board, `pkg/baby` | map of baby states under `stateMutex`; subscribers with a bounded queue and a worker each | `Update`, `Subscribe`, unsubscribe, `GetBabyState` | a subscriber that lost nothing ends with the board's values; never an older value after a newer one; `Update` never waits for a callback |
| Graceful contexts, `pkg/utils/graceful.go` | cancellation flag, first error and `WaitGroup` of each context | `RunAsChild`, `Fail`, `Cancel`, `Wait` | `Cancel` returns neither early nor never; cancellation reaches the whole tree; waiting never panics |
| Connection attempts, `pkg/utils/attempter.go`, `pkg/client/websocket.go` | try counter and cooldown; `readyState`; one `sync.Once` per attempt | `RunWithPerseverance`, `run`, `OnConnected`, `OnDisconnected`, `OnBinaryMessage` | one connection at a time; offline is shown as offline; a failed attempt is followed by another |
| Requests, `pkg/client/websocket_conn.go` | table of pending requests, request counter | `SendRequest`, awaiter, `handleResponse` | an awaiter gets its own answer or a timeout; no entry and no goroutine is left behind |
| Application, `pkg/app` | babyCommander's connection, timers of detected flags | `Run`, `handleBaby`, `OnLogin`, `runWebsocket`, `pollMessages`, `requestLocalStreaming`, MQTT commands | commands go to the live connection; a hold lasts from the latest event; one streaming request at a time |
| ONVIF events, `pkg/onvif/events.go` | subscriptions with queue, waiters and termination time; hold timers | `CreateSubscription`, `PullMessages`, `Renew`, `Unsubscribe`, janitor, `emit`, `handleState` | every event of a subscription is pulled once and in order; a long poll never sleeps through an event |
| RTMP server, `pkg/rtmpserver` | broadcaster per baby; subscribers with packet queues | publish, play, `closePublisher` | a publisher that has been replaced leaves the broadcaster of its successor alone; a slow subscriber drops data rather than holding up the publisher |
| RTSP server, `pkg/rtspserver` | stream entry per baby | `RegisterStream`, `WriteH264`, `WriteAAC`, `UnregisterStream`, `OnSetup` | nobody writes to a closed stream; a stream that can be found is open |
| REST client, `pkg/client/rest.go` | none of its own: works on the session | `MaybeAuthorize`, `RenewSession`, `FetchAuthorized`, `FetchNewMessages` | a message is reported once; a renewed token is not overwritten by an older one |
| Session store, `pkg/session` | session in memory and in a file | `Snapshot`, `Update`, `Load` | memory and file agree; a crash does not lose the tokens |
| MQTT bridge, `pkg/mqtt` | retained topics at the broker, the babies already announced | a subscriber of the board; discovery; command topics | the retained value is the last-known one; a setting comes to show what the camera has |
| Dashboard, `pkg/web` | open event streams, pending MFA login | pages, login, `handleSSE` | a blocked browser holds nobody up; an open page ends up with the board |
| ONVIF device services, snapshots, log tailer, command line, helpers | none, or one lock around a slice | | not modelled: text in, text out, or an external process |

How they interact: `cmd/nanit/main.go` runs `App.Run` in the root context. For each baby
`handleBaby` runs a connection manager and a message poller as child contexts; a login of the
dashboard runs it again for every baby, through `OnLogin`. On a ready
connection the manager runs `App.runWebsocket` as a child of the attempt; it registers
the connection with the baby's `babyCommander`, through which MQTT commands, arriving on
other goroutines, reach the camera. Everything that learns something writes it to the
state board (websocket reader, poller and its timers, RTMP server, connection manager);
everything that shows something subscribes to it (MQTT, ONVIF events, dashboard,
`runWebsocket` itself, for the health of the stream). Subscribers are called on worker
goroutines, one per subscriber. `App.Run`, pollers, connection managers and the logins of the
dashboard share the session through the REST client. The camera publishes to the RTMP server, which
serves RTMP players itself and hands every packet to the RTSP server.

What is hard, by kind (the complete list, line by line, is in `PROJECT.json`):

- *interleaving*: the board notifies after unlocking; `OnConnected` works on in a
  goroutine nobody waits for; polled events and the websocket write the same flags;
  two publishers of one baby share broadcaster map and RTSP stream; two clients renew one token;
  a login starts a second poller and a second manager of a baby that has them;
- *ordering*: priming against updates; a child context reports before its children end; the
  end of a replaced publisher comes after the beginning of its successor;
- *timeouts and retries*: an answer against its timer; a streaming request repeated on a
  dead connection; a timer that fires as its event is renewed (both intervals are 30 seconds by
  default, `main.go:43,47`);
- *bounds*: the board's queues and the channel of a page drop when full; packet queues drop data
  and block for headers;
- *delivery*: what is published while the broker is away is lost without an error;
- *stale state*: `readyState` survives its attempt; a subscription is renewed after its
  eviction; a stream is handed out after it was closed; what was changed at the camera
  while the bridge was away has to be asked for;
- *crash*: the session file is truncated before it is written.

## 2. Modules

| Module | Models | Uses |
|---|---|---|
| `StateFeed` | abstract: one log of updates, each subscriber reads it forwards, field by field | |
| `StateManager` | `pkg/baby/state_manager.go` | implements `StateFeed` (`Feed`, `FeedRefinement`) |
| `GracefulContext` | `pkg/utils/graceful.go` and Go's `WaitGroup` | |
| `CameraLink` | attempts, socket callbacks, `runWebsocket`, commander, online flag | what `GracefulContext` shows of attempts and their children |
| `RequestTable` | requests and answers on one connection | |
| `LocalStreaming` | `requestLocalStreaming`, the watcher and the cleanup of `runWebsocket`, `StreamState` | connections of `CameraLink`, updates of `StateManager` |
| `PullPoint` | subscriptions and long polls of ONVIF events | |
| `EventHold` | flags of polled events and their timers | |
| `Mirrors` | the board of a baby between its writers and MQTT, ONVIF and the dashboard; the commands of MQTT | extends `EventHold`; the board is `StateManager`'s with unbounded queues |
| `Streams` | `pkg/rtmpserver` and `pkg/rtspserver` for one baby | |
| `Session` | `pkg/client/rest.go`, `pkg/session`, and who authorizes, polls and logs in | |
| `MC...` | values of the constants for TLC | the module of that name |
| `...Proofs` | theorems | the module of that name, TLAPS (`MirrorsProofs` has those of `EventHold` too) |

How state and actions correspond to the code:

**StateManager.** `board` and `known` are `babiesByUID`; `queue`, `dropped`, `calling`,
`exited` are a `subscriberWorker` and its goroutine. `Update` is four actions because it
lets go of locks in between: `Store` (merge under `stateMutex`), `Snapshot` (copy of the
workers under `subscribersMutex`), `Enqueue` (one worker each), `Return`. `Subscribe` is
registration, then priming under the read lock, one baby per step: `StateLockFree` keeps
`Store` away meanwhile. `Exit` and `Receive` are both possible when `done` is closed and
the queue is not empty, as Go's `select` may choose either. `log`, the `at` of a cell and
`view` are history.

**GracefulContext.** One record of variables per context of a tree. `Add` is `wg.Add(1)`
*before* the test for cancellation, `Refuse` and `Accept` its two outcomes, `Start` the
goroutines it starts. `ReportToParent` precedes `Unblock` and `Finish`, as in the code.
The `WaitGroup` is Go's, with the panic of a waiter that finds the counter in use again.
`RunAsChild` may be called at any moment, also on a context whose callback has returned: the
goroutines of `OnLogin` and of `OnConnected` do so. A callback may return at any moment, with
running children or without.

**CameraLink.** An attempt is a pair of manager and number; `run`, `opener`, `closer` and
`handler` are the progress of the goroutines that serve it. `StopTimesOut` and
`StopForbidden` are the retries of `requestLocalStreaming` during cleanup. Cancelling and
awaiting the attempt is one action each, which `GracefulContext` justifies. `socket` is
"cut" when the server has closed it before the opener was through.

**RequestTable.** `resHandlers`, `lastRequestID`, and per request its channel `resC`
(capacity one) and `done`. `HandleResponse`, `DeleteEntry`, `HandOver` are the three
critical sections of `handleResponse`; `Finish` is two steps as in the code. The camera is
external: it answers a request any number of times, late, out of order, with any type.

**LocalStreaming.** Three kinds of goroutines: `runWebsocket` (`handler`), the worker of its
subscription (`watcher`, whose queue is the number of the "unhealthy" updates in it), and
the requests these two start, which nobody awaits or cancels: they are counted by connection,
kind and place. `CheckStream` is the decision of `runWebsocket` at the start, `WatchUpdate`
that of the callback, `StopStream` that of the cleanup. `TimesOut` asks the board, not the
connection, whether to repeat.

**PullPoint.** A waiter's channel is named by client and pull, so that the channel of a
pull that timed out stays in `waiters` as it does in the code. `Enqueue` is the critical
section of `enqueue`, `Wake` closes the channels afterwards, one by one. `Evict` and
`Unsubscribe` take a subscription from the table while clients still work on it.

**EventHold.** `Trigger` and `Arm` are the two halves of `trigger`, `ClearFlag` and
`DeleteEntry` those of a timer's function. There is no clock: an armed timer may fire in
any state, between the halves of `trigger` too, and its function may be late. `writer` is
history: who wrote the flag last.

**Mirrors.** Five kinds of writers (poller, timers, reader of the websocket, connection manager,
RTMP server) store a partial state with `Store` and tell it with `Notify`, a step of its own:
`notice` is what a writer has stored and not told. The steps of `EventHold` are conjoined with
what they store. The MQTT worker's `Publish` makes discovery first and once, and its
publications are lost, without an error, while paho has no connection (`online`), which comes
back without `runMqtt` noticing. The websocket is "open" once the manager has shown it on the
board, "up" once `runWebsocket` has lent it to the commander and asked for a first snapshot,
"lost" when it is closed and the commander still has it. `HandleMQTTCommand` runs in paho's own
handler and keeps it busy until `CommandReturns`; on a lost socket it sends in vain. The camera announces changes, answers `GET_SETTINGS` and confirms
commands; `Looks` says which of its messages the bridge reads. The callback of a page reads the
*whole* board after it is called (`PageReads`), offers the event (`PageOffers`) and the browser
redraws from what it gets (`PageRedraws`): a time of 0 is not in the JSON.

**Streams.** A publisher is one goroutine, whose place is `pub`: it reads a packet, hands data
to a *copy* of its players (`toServe`), one player and one header at a time (`turn`), and then
bridges it to RTSP. `RegisterStream` holds `RTSPServer.mu` (`registry`) while it closes the
stream it replaces; writing holds the lock of the stream (`locked`). `Publish`, `Remove`,
`CloseOwn`, `CloseReplaced` and `Unregister` are what publishers of one baby do to each other.
A player is found a broadcaster (`LookUp`) and attached to it (`Attach`) under different locks,
and an RTSP client is given a stream (`GiveStream`) after the lock under which it was found
(`FindStream`) has been released. A player may stop taking what is written to it for good.

**Session.** `session` is in memory, `file` on disk; `Update` truncates the file and holds the
lock (`saving`) until `Write`. `Seed`, `Renew`, `Renewed`, `StoreTokens` are `Authorize` and
`RenewSession`; `Request`, `Unauthorized`, `GiveUp` the two tries of `FetchAuthorized`;
`FetchMessages`, `ReadSeen`, `StoreSeen`, `Report` are `FetchNewMessages`. `App.Run` (`Main`)
authorizes, ensures the babies and starts one poller for each (`RunAuthorizes`,
`RunEnsuresBabies`, `RunStarts`); a login ends with `OnLogin`, which starts another one for every
baby, polled or not (`HandleBabies`). `rivals` records that a process had two. `Crash` is the
killing of the process anywhere, and its next start. The server is known by its use: a
refresh token is good for one renewal. `lost` records that an answer or the file was lost.

Data is reduced to what the properties can tell apart: two or three values per field,
events as numbers, requests as names, packets as kinds, tokens and messages as numbers.

## 3. Runs

| Run | Question | Bounds | Distinct states |
|---|---|---|---|
| `StateManager_board` | does a subscriber see the board, in order, is anyone held up by a callback that blocks for good, and is the whole a `StateFeed`? | 1 goroutine, 2 subscribers, queue of 1, 2 updates | 242,380 |
| `GracefulContext_chain` | is the `WaitGroup` exact, does cancellation reach everything, does `Cancel` return neither early nor never, and what can make a wait panic? | chain of 3 contexts, `RunAsChild` at any moment | 36,172 |
| `CameraLink_link` | one connection, do commands follow it, is offline shown as offline, do failed attempts and cancelled loops end? | 1 manager, 3 attempts, server closes at any moment | 87,426 |
| `RequestTable_retry` | does every awaiter get its own answer or none? | 3 requests (one repeated, one not awaited), 3 answers | 243,166 |
| `LocalStreaming_links` | is an unhealthy stream asked for again, and does asking end? | 2 connections, 1 publisher | 119,802 |
| `PullPoint_clients` | is every event pulled once, in order, and without waiting for a timeout? | 2 clients with 2 long polls each, 2 emitters, 3 events, limits 1 and 2 | 911,196 |
| `Mirrors_board` | is a flag always going to be cleared, does an event end, and do page, broker and ONVIF end up with the board? | seven budgets, see below | 603,514 |
| `Streams_two` | does a replaced publisher leave its successor's broadcaster alone, is a closed stream never written to nor left in the map, who waits for whom? | 2 publishers with 4 and 1 packets, 1 player, 1 client, queue of 1, 2 streams | 359,164 |
| `Session_restart` | is the kept token a good one, and is a message reported once by processes with one poller, across renewals, a login and a crash? | 1 baby, 2 pollers, 1 manager, 1 login, 2 messages, 3 tokens, 1 crash | 6,728,728 |
| `StateManager_shared` | *fails*: is the retained value the last-known one if two goroutines update a field? | 2 goroutines, same field | |
| `CameraLink_login` | *fails*: are commands given the connection of a camera that is connected, after a second login? | 2 managers of one baby, 1 attempt each | |
| `Session_babies` | *fails*: is a message reported once if two babies are polled? | 2 babies, 1 message each | |

Why the bounds suffice. The board: a queue of one is full after one event, and the second
update meets a priming, a blocked callback or a drop; two goroutines are the subject of
`StateManager_shared` and of the proof. Contexts: a chain has a grandchild; the safety
properties are proved for every tree. Attempts: state that survives an attempt meets the next
one, and one more shows what it leaves. Requests: the repetition of a request must not take the
late answer to the first. Streaming: a request outlives one connection and meets the next; two
publishers would only repeat the end of the first (and bring the failures of section 4). Pulls:
two clients compete for one event, two channels of one client coexist after a timeout, and a
limit of one leaves events for the next pull. Streams: the second publisher replaces the first
and either may be the one that has the stream; two streams are one replacement. The first
publisher repeats a config, so that a player is owed more headers than the queue of one and the
write it is stuck in can take: the blocking send does block. Session: three tokens are two
renewals, or a renewal and a login, next to the token of the options; two pollers are the one of
`App.Run` and the one of the login.

`Mirrors` is the product of parts that meet on the board only, so the run does not explore all
of it at once: an initial state draws one of seven budgets (`MCBudgets`), each of which lets some
things happen and others not. Two polled events with ONVIF; one with ONVIF and a report of the
camera; one with a report and a page; a page that reconnects while the stream changes; MQTT with
two connections to the camera, a change or command and a loss of the broker; MQTT with two
changes or commands; MQTT and a page together. Three or more of anything, and motion together
with settings, are not explored. An event channel of one (16 in the code) is full after one event.

Deadlock is not checked where the bounded system comes to rest: updates, attempts, answers,
packets, tokens or events run out, or the process ends.

Fairness. Only weak fairness, and only of steps a goroutine takes by itself once it has
started: the rest of `Update`, `Subscribe`, `emit`, `drain`, of a cancellation or a
callback that has been told to end, of an awaiter, of a request, of a publisher's packet, and
of timers. Locks are held for bounded sections, so that weak fairness of the step that takes
one is what the Go runtime gives; no property needs strong fairness of a `select`. Nothing
obliges anyone to call, a server to close or to answer, a client to pull, a camera to publish,
a broker to come back, or a callback listed as `Slow` and the connection of a player to take
what is written. `EventEndsWait` is checked without fairness of the timeout: the event alone
ends the wait. `MotionEnds` does need the timers to fire, and `SettingIsShown` a camera that
serves what reaches it. `AskedAgain` and `RequestsEnd` need a request to time out if nothing
else becomes of it. `Session` has safety properties only.

Every property has a mutant in `PROJECT.json`: a definition with the bug a change to that
code could bring (priming without the lock, a blocking send, a signal instead of a
broadcast, a request sent before it is in the table, timers that are stopped with the poller, a
broadcaster that is removed whosever it is, a refresh token that is not stored) for which
TLC reports the property as violated.

## 4. What does not hold

Carried as runs:

1. `StateManager_shared`. `Update` notifies after unlocking (`state_manager.go:61`). Two
   goroutines that write one field can enqueue in the opposite order of their stores, and
   MQTT retains the older value. `IsWebsocketAlive` is written by `OnConnected`'s goroutine
   and by `OnDisconnected`.
2. `CameraLink_login`. `OnLogin` (`app.go:85`) starts a second `handleBaby` for a baby that
   has one; both managers lend their connection to one commander, and whichever ends first clears
   it. The trace ends with an open connection that `runWebsocket` is at work on, and a commander
   that has none: commands are refused as if the camera were offline.
3. `Session_babies`. `LastSeenMessageTime` is one for all babies, and is compared and set in
   two steps (`rest.go:307-311`): the poller of one baby can set it back, and a message of the
   other one is returned again (`FetchedOnce`). The other way round a message is never reported, because the
   other baby has a newer one (`NothingSkipped`).

Found while modelling. Those with a name are definitions of the module that no run checks:
stated as they should be, and violated when added to its configuration.

Connections and contexts:

- `OfflineIsUnavailableEver` (`CameraLink`): if the server closes the connection before the
  goroutine of `OnConnected` has set the flag (`websocket.go:133`), the camera stays shown as
  online. The cleanup of that attempt may then repeat its `STOPPED` request for ever, for it
  goes by the flag (`websocket_handlers.go:159`). `OfflineIsUnavailable`, `FailedAttemptEnds`
  and `LoopStops` therefore leave out a manager with such a connection (`Cut`).
- `ReadyIsOwn` (`CameraLink`, two attempts): `readyState` is never reset, so that from the
  second attempt on a message that comes before `OnConnected` is through is handled by the
  previous connection instead of being dropped (`websocket.go:175-180`).
- `CleanupFinished` (`GracefulContext`): `Cancel` may return while a grandchild is in its
  callback, because a child reports before its own children have ended (`graceful.go:108`,
  against the comment at `:31-32`).
- `WaitNeverPanics` (`GracefulContext`): a `RunAsChild` by a goroutine that outlived its callback
  raises the counter of a `WaitGroup` whose waiter is just being woken, and Go panics
  (`graceful.go:89`). `OnLogin` (`app.go:82-89`) and the goroutine of `OnConnected`
  (`websocket.go:123-139`) can do so. `OnlyLateCallersPanic` says that nothing else does.
- A callback that returns while its children run uncancelled leaves them to nobody but the
  canceller of its own context; `ShutdownCompletes` supposes that none does (`NobodyLeftBehind`),
  which is so for the callbacks of this program.

Local streaming:

- `OneRequest`: a watcher of an unhealthy stream is told so at once, and `runWebsocket` asks
  as well (`app.go:364` means to prevent duplicates).
- `RequestsEndWithLink`: a request that times out is repeated on its dead connection as long
  as the board says that there is *a* connection.
- `HealthIsTrue`: a publisher that has been replaced still marks the stream as unhealthy when
  its connection ends (`rtmpserver/server.go:90`), over that of its successor.
- `StopIsLast`: a repeated request to start may follow the one to stop.
- A success of the request to *stop* is also stored as "requested"
  (`websocket_handlers.go:165-169`), and with a stream that is unknown then, `runWebsocket` of
  the next connection does not ask. A refusal that was stored on one connection keeps the
  watcher of the next from asking (`AskedAgain` excepts it).

Streams:

- `EveryPlayerIsClosed`: a player that has looked up a broadcaster before it is closed and
  attaches after waits for ever.
- A publisher that has been replaced unregisters the RTSP stream of its successor when it ends
  (`rtmpserver/server.go:93`); RTSP and snapshots are gone until the next video config. Only the
  broadcaster of the successor is spared (`NewestServes`).
- `GivenIsOpen`: `OnDescribe` and `OnSetup` give out the stream they have found after they have
  released the lock (`rtspserver/server.go:341,358`), when it may have been closed. `MapIsExact`
  says that such a stream has left the map, so that a client that asks again finds another.
- `KeyFrameIsOwn`: two publishers write to one RTSP stream, so that a key frame may come with
  the parameter sets of the other. Both also use the RTP encoder of the entry outside of its
  lock (`rtspserver/server.go:190`), and a new registration forgets the last key frame.
- A header broadcast after a player's first packet never reaches it: only data is delivered
  (`broadcaster.go:52-66`). Headers are sent with a blocking send (`broadcaster.go:78`), and
  `headerPkts` is never shortened: a camera that repeats its configs more often than the queue is
  long is held up for good by a player that is stuck in its socket. `PublisherGoesOn` excepts a
  publisher that stays in this state (`HeaderStuck`), and `Streams_two` reaches it.

Session:

- `FetchedOnce` with one baby and a login: `OnLogin` starts a second `pollMessages` for the baby
  (`app.go:82-88,212-216`); both read the stored time (`rest.go:296`) before either stores its own
  (308), and both return the message. `FetchedIsIgnored` says that it holds for processes with one
  poller. The two pollers also have a map of timers each, which `EventHold` does not model.
- `RefusedIsExpired`: two clients that renew at once use one refresh token; the second is told
  that it has expired although the session has been renewed. The kept token is good
  (`TokenIsGood`).
- A renewal under way when somebody logs in overwrites the new login; the babies of the former
  account are kept. A process killed while it saves finds a fresh session, and one killed
  between a renewal and its saving a token that is used up: `lost` in the properties.

Mirrors:

- `HoldExtends` (`EventHold`): "re-triggers during the hold extend the window" (`app.go:232-233`).
  A timer that has just fired cannot be stopped any more (`app.go:243` ignores what `Stop`
  returns): its function clears the flag at once after the new event has set it (`app.go:246`),
  and then forgets the new timer (`app.go:248`). With the default intervals the timer fires just
  as the next poll comes. `FlagIsTimed` says what is left: the flag always has a timer.
- `AlarmEnds` (`Mirrors`): in the same case the alarm of the new event may be told to ONVIF
  clients after the end of the old one (`state_manager.go:61`); the timer of the new event then
  finds the flag cleared, `Merge` sees no change, and the alarm stays, although "we auto-clear after
  HoldDuration so NVRs see a discrete trigger pulse" (`events.go:32-33`). `MotionEnds` excepts this
  case (`Overtaken`) and holds for the others.
- `AlertStands` (`EventHold`): the timer of a polled event clears an alert the camera has
  reported since and has not taken back (`events.go:125` calls those authoritative).
- `LightIsShown`: a `Control` is not asked for on a new connection (`app.go:337-350`), so the
  night light is unknown until it changes, and stale after a change made while offline.
- `EntitiesAreKnown`: a baby is noted as discovered before its configs are published
  (`mqtt.go:158`); if the broker is away then, Home Assistant never learns of it.
- What MQTT publishes while the broker is away is lost (`missed`), and nothing repeats it when
  paho has reconnected. A command occupies paho's handler for up to ten seconds.
- The last event for a page may be dropped (`lost`), and the page stays behind the board.

## 5. Proofs

All proofs are of the specifications TLC runs, for every value of the constants that meets
the named assumptions of the module. Every invariant that a run checks is a theorem, and so are
the action properties and the refinement; what is left to TLC is stated at the end.

| Theorem | Says | Assumes, besides |
|---|---|---|
| `StateManagerProofs!TypeCorrect` | `TypeOK`: types; queues within capacity | |
| `StateManagerProofs!CaughtUpCorrect` | `CaughtUp` | `SingleWriter` |
| `StateManagerProofs!FeedCorrect` | `FeedRefinement`: implements `StateFeed` | `SingleWriter` |
| `StateManagerProofs!ForwardsCorrect` | `NeverBackwards` | `SingleWriter` |
| `GracefulContextProofs!WaitGroupCorrect` | `WaitGroupExact` | |
| `GracefulContextProofs!CancelCorrect` | `CancelAwaitsChildren` | |
| `GracefulContextProofs!PanicCorrect` | `OnlyLateCallersPanic` | |
| `CameraLinkProofs!OneLinkCorrect` | `OneLink` | |
| `CameraLinkProofs!CommanderCorrect` | `CommanderFollows` | `SoleManager` |
| `CameraLinkProofs!AvailableCorrect` | `ConnectedIsAvailable` | `SoleManager` |
| `CameraLinkProofs!UnavailableCorrect` | `OfflineIsUnavailable` | `SoleManager` |
| `RequestTableProofs!AnswersAreOwn` | `OwnAnswer` | |
| `RequestTableProofs!TableIsCleaned` | `NothingLeft` | |
| `RequestTableProofs!DropsOnlySettled` | `NoAnswerLost` | |
| `PullPointProofs!PulledOnceInOrderCorrect` | `PulledOnceInOrder` | |
| `PullPointProofs!NoLostWakeupCorrect` | `NoLostWakeup` | |
| `StreamsProofs!TypesCorrect` | `TypeOK`: types; queues within capacity | |
| `StreamsProofs!WritesCorrect` | `WritesToOpen` | |
| `StreamsProofs!MapCorrect` | `MapIsExact` | |
| `StreamsProofs!NewestCorrect` | `NewestServes` | |
| `SessionProofs!TokenCorrect` | `TokenIsGood` | |
| `SessionProofs!MessagesCorrect` | `FetchedIsIgnored` | |
| `MirrorsProofs!TimedCorrect`, `TimedAmongWriters` | `FlagIsTimed`, of `EventHold` and of `Mirrors` | |
| `MirrorsProofs!PageCorrect` | `PageShowsBoard` | |

The hypotheses of the last column are what the code itself needs. Without `SingleWriter` (a
field is written by one goroutine) and `SoleManager` the properties are false: these are the
first two runs of section 4. A bridge nobody logs in to meets `SoleManager`. `SingleWriter` is
met by what only the messages of the camera set (settings, measurements, versions), which one
goroutine reads; it is not met by `IsWebsocketAlive`, the detected flags with their times, and the
two states of the stream.

Each argument is an inductive invariant, defined at the end of its module (for `StateManager`,
`GracefulContext` and `PullPoint`, among the properties), and TLC agrees that it holds on the
instances of the runs.

**CaughtUp** is about subscribers that owe nothing and are owed nothing, and says nothing
of the way there; `CatchUpInv` adds that way. `WillCatchUp`: if no goroutine owes a primed
subscriber a field, the *last* event on its way to the callback that mentions the field
carries the board's value (or none does and the view has it). To preserve it one needs
`JobCurrent` (what a goroutine is publishing is still on the board: here `SingleWriter`
enters, and it is what `StateManager_shared` violates), `PrimingCurrent` (the read lock
keeps the board still), `KnownSet` (a baby that has values is primed) and `Sourced` (a field
that was never set is nowhere on its way).

**StateFeed** is implemented with the refinement mapping that keeps `log` and `view` and hides
all the rest: `Store` appends to the log, `Callback` reads, every other step stutters. What has
to be shown is that a callback never reads backwards. `FeedInv` says it of the events on their
way: each was logged where its cell says (`OnlyLogged`), what a goroutine is telling is still on the
board (`CellsCurrent`), an event is not older than what its callback was given nor newer than the
board (`Between`), and of two events on the way to one subscriber that mention a field the later
one was stored later (`InOrder`), a priming event included. A drop keeps the order. `NeverBackwards`
then follows from the same invariant.

**WaitGroupExact** counts children between `Add` and their report. `Born` says that a
context that has not started has neither children nor a canceller, `CancelledFirst` that
whoever waits inside `Cancel` has set the flag. A returned `Cancel` then found the counter
at zero, so no child is counted, and the flag, so none can be accepted again. Counting is
by the library's theorems on finite sets.

**OnlyLateCallersPanic** adds `WokenLast`: a waiter is woken only when the goroutine of its
context has finished. A counter that is found in use then, the cause of the panic, belongs to a child
that was accepted after the end, so by a goroutine that outlived the callback. No hypothesis says that
there is none: such a call is a step of the specification.

**OneLink** needs `InTurn`: the attempts of a manager come one after the other, those to come
are untouched and those gone are over with an error; and `Phase`: how far socket and callbacks
can be in each phase of `manager.run`. For a sole manager, `CommanderFollows` and
`ConnectedIsAvailable` are then inductive by themselves, and `OfflineIsUnavailable` follows from
`AliveHasSource`: the flag on the board is owed to a connection whose offline update is still
to come.

**OwnAnswer** rests on the numbering of requests: `lastRequestID` is the number of requests that
have begun, so that ids are unique (`Numbering`), an entry is filed under the id of its request
(`Entries`), a response on its way bears the id of a request that was sent (`WireOK`), and what
the reader has found in the table is the request of the response in its hands (`CandidateOK`).
`NothingLeft` needs `Entries` for the awaiters that have not returned. `Kept` is for
`NoAnswerLost`: a request that was sent is in the table until it is answered or given up, but
for the moment in which the reader hands its answer over.

**PulledOnceInOrder** is nearly inductive: `handed \o queue` is what was `sent`, by the
associativity of `\o` and the splitting of a sequence (`TakeEffect`). **NoLostWakeup** needs
`Registered`: the channel of a waiting client is in the list of a queue that is empty, or
taken off by an emitter that is about to close it, or closed.

**WritesToOpen** is the lock of the entry: `LockedByWriter` says that it is held exactly while
its holder writes. A stream is taken from the map under the lock of the map and closed under its
own; `TornDownIsOut` says that a publisher that is between the two closes a stream nobody can
find any more, which makes `MapIsExact` inductive. **NewestServes** needs `OnlyNewest`: what players are
given is the last publisher's broadcaster or none.

**TokenIsGood**: refresh tokens are used once, and several clients may be using the same one.
`NewTokens` says that an answered token which is not stored yet is good and nobody else's,
`Unseeded` that a session without a token has that of the options still unused, and `Saved` that
a crash outside of `Write` gives the session back. **FetchedIsIgnored** needs the time that is
stored to be no earlier than any returned message (`SeenIsLatest`), the progress of a poller
(`Polled`), and that without rivals one goroutine polls (`Alone`): the comparison and the assignment
are two steps, between which a second poller would store an older time. The babies may be any
number and logins any: that there was one poller is a premise on the run, not on the constants.

**FlagIsTimed**: whoever triggers a field owes it a timer, and the timer that the map names is of
that field (`Named`), so that stopping it and arming another leaves the field with one; timers
are armed in order, and nothing is known of those to come (`InOrder`). Only the function of a timer
that fired clears the flag, and it is of its own field. No timer is assumed to be late or early. Every
step of `Mirrors` is one of `EventHold` or leaves its variables alone (`StepsOfHold`), which
carries the result over to all the writers of the board.

**PageShowsBoard** follows from `LastIsBoard`: once no writer has anything to tell and no event
waits for the page's worker, the board is what the callback has read, or else the last event in
the channel, or else what is shown. A writer that stores either has something to tell or has
changed nothing. Two details need more. A page that opens on an empty board is not primed, and
an event with a time of 0 leaves the page's time as it is: both are right because what has no
value on the board has never been shown (`UnsetIsUnseen`). And what the camera says must not
touch the fields of the page (`CameraTypes`, `BoardTypes`).

Only model-checked: everything under fairness (`EventuallySeen`, `UpdateReturns`,
`WorkerStops`, `CancelReachesChildren`, `ShutdownCompletes`, `CancelReturns`,
`FailedAttemptEnds`, `LoopStops`, `ReaderGoesOn`, `EventEndsWait`, `AskedAgain`,
`RequestsEnd`, `PublisherGoesOn`, `PlayersAreClosed`, `MotionEnds`, `SettingIsShown`), which
the prover does not reach: it has neither fairness nor ENABLED. `LocalStreaming` has only such
properties, so that nothing of it is proved.

## 6. Plan

1. Safety facts that the liveness properties rest on, stated and proved: that requests of
   `LocalStreaming` are only repeated while the board says that there is a connection, and which
   goroutine of `Streams` can be waiting for which.
2. A type invariant of all of `Mirrors` (`MirrorsTypeOK`) next to the part `PageInv` has, and
   what the broker's topics are at rest, as `LastIsBoard` is for the page.
3. The shutdown of the RTSP server next to its publishers, in `Streams`: with the bounds of
   `Streams_two` it needs a smaller instance of its own.
4. Durations where the code compares them: the reset of the number of attempts after a long
   one, and the forced authorization that depends on it.

## 7. Not modelled

- Wording, logging, formats, XML, HTTP routing, the texts of topics, configs and pages; codecs
  and packets; the generated protocol code; Go's memory model beyond the nondeterminism of
  unordered steps.
- ONVIF device and media services, the log tailer, the command line and helpers: text in, text
  out, or one lock around a slice. Snapshots: an external process.
- `RTSPServer.Close`, the sessions of gortsplib, RTP encoding.
- Clocks: a timeout may happen whenever its timer is armed. With them the keep-alive ticker of
  the websocket, the lengths of cooldowns and the number of the attempt.
- `scheduleClear` and the branch of `handleState` that calls it: a state with a time of motion
  or sound always carries the flag as well, whoever writes it. `NotifyMotionSubscribers` has no
  caller.
- The Nanit servers and the broker beyond how they are used: one-time refresh tokens, tokens
  that expire, retained topics. Failures of the disk.
