------------------------------ MODULE Mirrors -------------------------------
(***************************************************************************)
(* The board of one baby, the goroutines that write it and what the world  *)
(* sees of it: the retained topics of the MQTT broker (pkg/mqtt), the      *)
(* dashboard of a browser (pkg/web) and the alarms of the ONVIF clients    *)
(* (pkg/onvif), with the way back by which a switch of Home Assistant      *)
(* reaches the camera (pkg/app/commander.go) and the camera's word for it  *)
(* the board (runWebsocket, websocket_handlers.go).                        *)
(*                                                                         *)
(* The writers are the poller and its timers (EventHold), the goroutine    *)
(* that reads the websocket, the connection manager and the RTMP server.   *)
(* Update stores under the lock and notifies after it, so notice keeps     *)
(* what a writer has stored and not yet told.  A state is a function of    *)
(* the fields that are not nil, named by their MQTT keys; a switch that is *)
(* on and a number alike are 1, off is 0.  Queues have room here (the      *)
(* drops of a full one are StateManager's), except the page's own channel. *)
(* What becomes of an ONVIF event after it is emitted is PullPoint's.  The *)
(* branch of handleState for a time without a flag is left out: whoever    *)
(* stores the time of an event stores its flag with it.                    *)
(*                                                                         *)
(* missed and lost are history: the topics whose last value the broker did *)
(* not get, and whether the last event for the page was dropped.           *)
(***************************************************************************)
EXTENDS EventHold, Sequences

CONSTANTS
    Budgets,       \* what happens to a bridge, see Budget
    Settings,      \* the settings explored
    Payloads,      \* the payloads of a command
    EventCap       \* capacity of the page's channel (16 in the code)

\* Bounds on what happens to a bridge: the number of polled events, whether it serves ONVIF
\* events, how often MQTT is started (without MQTT, 0) and the page opens its event stream,
\* and the number of connections to the camera, of commands and changes made at the camera,
\* of losses of the broker (the end of MQTT is one) and of changes of the stream.
Budget == [motion : Nat, onvif : BOOLEAN, start : 0 .. 1, page : Nat, link : Nat, change : Nat,
           outage : Nat, stream : Nat]

ASSUME BudgetAssumption == \A g \in Budgets : g \in Budget
ASSUME CapAssumption    == EventCap \in Nat \ {0}

VARIABLES
    board,     \* babiesByUID[uid]
    notice,    \* what each writer has yet to tell the subscribers
    camera,    \* the settings of the camera
    wire,      \* requests on their way to the camera
    inbox,     \* messages on their way from it
    link,      \* the websocket: "open" before the commander has it, "lost" before it is taken away
    asking,    \* a command waits for its answer in paho's handler
    mqtt,      \* runMqtt has subscribed
    online,    \* paho has a connection to the broker
    updates,   \* the queue of the MQTT worker
    topics,    \* the retained topics of the state
    entities,  \* the retained discovery topics
    discovered,
    missed,
    alerts,    \* the queue of the event manager's worker
    alarm,     \* what ONVIF subscriptions were last told of each field
    page,      \* progress of the browser
    calls,     \* the length of the queue of the page's worker, whose callback
               \* leaves the events themselves unread
    reading,   \* the state the callback has read, as a sequence of 0 or 1
    events,    \* the page's channel
    shown,
    lost,
    left       \* what is left of the budget

cameraVars == <<camera, wire, inbox, link, asking>>
mqttVars   == <<mqtt, online, updates, topics, entities, discovered, missed>>
onvifVars  == <<alerts, alarm>>
pageVars   == <<page, calls, reading, events, shown, lost>>
mirrors    == <<cameraVars, mqttVars, onvifVars, pageVars, left>>
allVars    == <<vars, board, notice, cameraVars, mqttVars, onvifVars, pageVars, left>>

Nothing == << >>

\* A state with one field.
Only(k, v) == [x \in {k} |-> v]

\* The fields of u go over those of st.
Merge(u, st) ==
    [k \in DOMAIN u \cup DOMAIN st |-> IF k \in DOMAIN u THEN u[k] ELSE st[k]]

-----------------------------------------------------------------------------
(* Fields and their translations                                           *)

Switches == {"night_light_on", "night_vision", "sleep_mode", "status_light_on", "mic_mute_on"}
Dials    == {"volume", "night_light_timeout"}
Sensors  == {"temperature", "humidity", "light_level", "motion_detected", "sound_detected",
             "is_night", "is_stream_alive", "firmware_version", "hardware_version",
             "mounting_mode"}

\* The entities Home Assistant is told of; those with a command topic are the settings.
discoveryConfigs ==
    [k \in Switches \cup Dials \cup Sensors |->
        IF k \in Switches THEN "switch" ELSE IF k \in Dials THEN "number" ELSE "sensor"]

ASSUME SettingsAssumption == Settings \subseteq Switches \cup Dials

\* The settings that travel as a Control, the others as Settings.
Controls == {"night_light_on", "night_light_timeout"}

PutType(k) == IF k \in Controls THEN "PUT_CONTROL" ELSE "PUT_SETTINGS"

\* The payloads that can be read, and as what.
parseBool == [p \in {"true", "1", "0"} |-> IF p = "0" THEN 0 ELSE 1]
ParseInt  == [p \in {"1", "0"} |-> IF p = "0" THEN 0 ELSE 1]

Parse(k) == IF k \in Switches THEN parseBool ELSE ParseInt

\* The messages the handler of runWebsocket looks at, besides those with sensor data.  A
\* Control is read in requests of the camera only.
Looks(m) ==
    \/ m.kind = "response"
       /\ m.type \in {"GET_SETTINGS", "PUT_SETTINGS", "GET_STATUS", "PUT_STATUS"}
    \/ m.kind = "request" /\ m.type \in {"PUT_CONTROL", "PUT_SETTINGS", "PUT_STATUS"}

\* processControl, processSettings, processStatus: every field there is goes into one Update.
Reads(m) == IF Looks(m) THEN m.body ELSE Nothing

\* What the MQTT callback publishes of a state: the fields AsMap names, whether the stream
\* is alive, and whether the camera is.
Published(u) ==
    Merge([k \in DOMAIN u \ {"stream_state"} |-> u[k]],
          IF "stream_state" \in DOMAIN u
          THEN Only("is_stream_alive", u["stream_state"] = "Alive")
          ELSE Nothing)

Get(st, k, default) == IF k \in DOMAIN st THEN st[k] ELSE default

\* What a page is rendered from and what an event of its stream carries.
Page(st) ==
    [stream_state     |-> Get(st, "stream_state", "Unknown"),
     websocket_alive  |-> Get(st, "is_websocket_alive", FALSE),
     motion_timestamp |-> Get(st, "motion_timestamp", 0)]

Detected(f)  == IF f = "motion" THEN "motion_detected" ELSE "sound_detected"
Timestamp(f) == IF f = "motion" THEN "motion_timestamp" ELSE "sound_timestamp"

-----------------------------------------------------------------------------
(* Writers                                                                 *)

Poller  == <<"poller", 0>>
Reader  == <<"reader", 0>>
Manager == <<"manager", 0>>
Rtmp    == <<"rtmp", 0>>
Who     == {Poller, Reader, Manager, Rtmp} \cup {<<"timer", k>> : k \in Numbers}

Told(w) == notice[w] = Nothing

\* Mutant: a field that has a value keeps it for unchanged.
SeenBefore(u) == \E k \in DOMAIN u : k \notin DOMAIN board

Changes(u) == \E k \in DOMAIN u : k \notin DOMAIN board \/ board[k] # u[k]

\* Update, under the lock: a writer that has nothing left to tell stores u.
Store(w, u) ==
    /\ Told(w)
    /\ board' = Merge(u, board)
    /\ notice' = IF Changes(u) THEN [notice EXCEPT ![w] = u] ELSE notice

\* Update, after it: the subscribers are notified.
Notify(w) ==
    /\ ~Told(w)
    /\ notice' = [notice EXCEPT ![w] = Nothing]
    /\ updates' = IF mqtt THEN Append(updates, notice[w]) ELSE updates
    /\ alerts' = IF left.onvif THEN Append(alerts, notice[w]) ELSE alerts
    /\ calls' = IF page = "open" THEN calls + 1 ELSE calls
    /\ UNCHANGED <<vars, board, cameraVars, mqtt, online, topics, entities, discovered,
                   missed, alarm, page, reading, events, shown, lost, left>>

\* A polled event, at a time of its own.
PollTriggers ==
    /\ armed < left.motion
    /\ \E f \in Fields :
          /\ Trigger(f)
          /\ Store(Poller, Merge(Only(Detected(f), TRUE), Only(Timestamp(f), armed + 1)))
    /\ UNCHANGED mirrors

\* Mutant: the update of a polled event is left to a goroutine of its own.
ArmsAtOnce ==
    /\ Arm
    /\ UNCHANGED <<board, notice, mirrors>>

PollArms ==
    /\ Arm
    /\ Told(Poller)
    /\ UNCHANGED <<board, notice, mirrors>>

\* The end of polling, explored while there are events left to poll: else it is not seen.
PollEnds ==
    /\ PollerEnds
    /\ armed < left.motion
    /\ UNCHANGED <<board, notice, mirrors>>

TimerFires(k) ==
    /\ Fire(k)
    /\ UNCHANGED <<board, notice, mirrors>>

TimerClears(k) ==
    /\ ClearFlag(k)
    /\ Store(<<"timer", k>>, Only(Detected(kind[k]), FALSE))
    /\ UNCHANGED mirrors

TimerForgets(k) ==
    /\ DeleteEntry(k)
    /\ Told(<<"timer", k>>)
    /\ UNCHANGED <<board, notice, mirrors>>

\* processSensorData: an alert, at a time of its own, or the end of one.
SensorReport ==
    /\ left.motion > 0
    /\ link = "up"
    /\ \E f \in Fields :
          /\ Report(f)
          /\ Store(Reader, Merge(Only(Detected(f), detected'[f]),
                             IF detected'[f] THEN Only(Timestamp(f), TimerLimit + reports')
                                             ELSE Nothing))
    /\ UNCHANGED mirrors

\* The RTMP server finds the stream alive or gone.
StreamChanges(s) ==
    /\ left.stream > 0
    /\ left' = [left EXCEPT !.stream = @ - 1]
    /\ Store(Rtmp, Only("stream_state", s))
    /\ UNCHANGED <<vars, cameraVars, mqttVars, onvifVars, pageVars>>

-----------------------------------------------------------------------------
(* The camera                                                              *)

Announce(k, v) == [kind |-> "request", type |-> PutType(k), body |-> Only(k, v)]

Request(t, b) == [type |-> t, body |-> b]

\* Mutant: the settings are not asked for on a new connection.
NotAsked == Nothing

\* What runWebsocket asks for when it starts; sensor data and the status, whose fields nobody
\* sets from here, are left out.  There is no such request for a Control.
FirstRequests == <<Request("GET_SETTINGS", Nothing)>>

\* The socket is open: the manager shows it on the board.
LinkUp ==
    /\ link = "down"
    /\ left.link > 0
    /\ left' = [left EXCEPT !.link = @ - 1]
    /\ link' = "open"
    /\ Store(Manager, Only("is_websocket_alive", TRUE))
    /\ UNCHANGED <<vars, camera, wire, inbox, asking, mqttVars, onvifVars, pageVars>>

\* runWebsocket lends the commander of the baby the connection and asks for a first snapshot.
HandlerStarts ==
    /\ link = "open"
    /\ link' = "up"
    /\ wire' = FirstRequests
    /\ UNCHANGED <<vars, board, notice, camera, inbox, asking, mqttVars, onvifVars, pageVars, left>>

\* The socket is lost, with all that is under way on it.
LinkDown ==
    /\ link \in {"open", "up"}
    /\ link' = IF link = "up" THEN "lost" ELSE "down"
    /\ wire' = Nothing
    /\ inbox' = Nothing
    /\ Store(Manager, Only("is_websocket_alive", FALSE))
    /\ UNCHANGED <<vars, camera, asking, mqttVars, onvifVars, pageVars, left>>

\* runWebsocket returns, and the commander has the connection no more.
HandlerEnds ==
    /\ link = "lost"
    /\ link' = "down"
    /\ UNCHANGED <<vars, board, notice, camera, wire, inbox, asking, mqttVars, onvifVars, pageVars,
                   left>>

\* Somebody changes a setting with Nanit's own app; the camera announces it to whom it is
\* connected to.
CameraChanges(k, v) ==
    /\ left.change > 0
    /\ camera[k] # v
    /\ left' = [left EXCEPT !.change = @ - 1]
    /\ camera' = [camera EXCEPT ![k] = v]
    /\ inbox' = IF link = "up" THEN Append(inbox, Announce(k, v)) ELSE inbox
    /\ UNCHANGED <<vars, board, notice, wire, link, asking, mqttVars, onvifVars, pageVars>>

Asked(t) == wire # Nothing /\ Head(wire).type = t

\* The camera answers with all its settings.
CameraAnswers ==
    /\ Asked("GET_SETTINGS")
    /\ wire' = Tail(wire)
    /\ inbox' = Append(inbox, [kind |-> "response", type |-> "GET_SETTINGS",
                               body |-> [k \in Settings \ Controls |-> camera[k]]])
    /\ UNCHANGED <<vars, board, notice, camera, link, asking, mqttVars, onvifVars, pageVars, left>>

\* The camera obeys a command, announces the change and confirms the request.
CameraObeys(k) ==
    /\ Asked(PutType(k))
    /\ DOMAIN Head(wire).body = {k}
    /\ wire' = Tail(wire)
    /\ LET v == Head(wire).body[k]
       IN /\ camera' = [camera EXCEPT ![k] = v]
          /\ inbox' = inbox \o <<Announce(k, v), [kind |-> "response", type |-> PutType(k),
                                                body |-> Nothing]>>
    /\ UNCHANGED <<vars, board, notice, link, asking, mqttVars, onvifVars, pageVars, left>>

\* OnBinaryMessage: the reader of the websocket handles the next message itself.
MessageReceived ==
    /\ inbox # Nothing
    /\ inbox' = Tail(inbox)
    /\ Store(Reader, Reads(Head(inbox)))
    /\ UNCHANGED <<vars, camera, wire, link, asking, mqttVars, onvifVars, pageVars, left>>

\* Home Assistant commands an entity it knows.  HandleMQTTCommand: a payload that cannot be
\* read is ignored, and so is a command while the commander has no connection; else the
\* request is sent, which is in vain on a lost socket, and its answer awaited.
HandleMQTTCommand(k, p) ==
    /\ mqtt /\ online /\ ~asking
    /\ k \in DOMAIN entities
    /\ left.change > 0
    /\ left' = [left EXCEPT !.change = @ - 1]
    /\ IF link \in {"up", "lost"} /\ p \in DOMAIN Parse(k)
       THEN /\ wire' = IF link = "up" THEN Append(wire, Request(PutType(k), Only(k, Parse(k)[p])))
                                       ELSE wire
            /\ asking' = TRUE
       ELSE UNCHANGED <<wire, asking>>
    /\ UNCHANGED <<vars, board, notice, camera, inbox, link, mqttVars, onvifVars, pageVars>>

\* The answer has come, or ten seconds have passed.
CommandReturns ==
    /\ asking
    /\ asking' = FALSE
    /\ UNCHANGED <<vars, board, notice, camera, wire, inbox, link, mqttVars, onvifVars, pageVars,
                   left>>

-----------------------------------------------------------------------------
(* The broker                                                              *)

Prime == IF board = Nothing THEN Nothing ELSE <<board>>

\* runMqtt has its connection: it subscribes to the commands and to the board.
MqttStarts ==
    /\ left.start > 0
    /\ left' = [left EXCEPT !.start = 0]
    /\ mqtt' = TRUE
    /\ online' = TRUE
    /\ updates' = Prime
    /\ UNCHANGED <<vars, board, notice, cameraVars, topics, entities, discovered, missed,
                   onvifVars, pageVars>>

\* Paho loses its connection, and gets another by itself: runMqtt does not notice.
BrokerLost ==
    /\ online
    /\ left.outage > 0
    /\ left' = [left EXCEPT !.outage = @ - 1]
    /\ online' = FALSE
    /\ UNCHANGED <<vars, board, notice, cameraVars, mqtt, updates, topics, entities,
                   discovered, missed, onvifVars, pageVars>>

BrokerBack ==
    /\ mqtt /\ ~online
    /\ online' = TRUE
    /\ UNCHANGED <<vars, board, notice, cameraVars, mqtt, updates, topics, entities,
                   discovered, missed, onvifVars, pageVars, left>>

\* Its context is cancelled: it unsubscribes and disconnects.
MqttEnds ==
    /\ mqtt
    /\ left.outage > 0
    /\ left' = [left EXCEPT !.outage = @ - 1]
    /\ mqtt' = FALSE
    /\ online' = FALSE
    /\ updates' = Nothing
    /\ UNCHANGED <<vars, board, notice, cameraVars, topics, entities, discovered, missed,
                   onvifVars, pageVars>>

\* The callback of the MQTT worker: discovery first and once, then the state.  What is
\* published without a connection is gone, with no error.
Publish ==
    /\ updates # Nothing
    /\ updates' = Tail(updates)
    /\ discovered' = TRUE
    /\ LET u == Published(Head(updates))
       IN IF online
          THEN /\ entities' = IF discovered THEN entities ELSE discoveryConfigs
               /\ topics' = Merge(u, topics)
               /\ missed' = missed \ DOMAIN u
          ELSE /\ missed' = missed \cup DOMAIN u
               /\ UNCHANGED <<entities, topics>>
    /\ UNCHANGED <<vars, board, notice, cameraVars, mqtt, online, onvifVars, pageVars, left>>

-----------------------------------------------------------------------------
(* ONVIF                                                                   *)

\* handleState: what a state says of motion and sound is emitted.
handleState ==
    /\ alerts # Nothing
    /\ alerts' = Tail(alerts)
    /\ alarm' = [f \in Fields |-> Get(Head(alerts), Detected(f), alarm[f])]
    /\ UNCHANGED <<vars, board, notice, cameraVars, mqttVars, pageVars, left>>

-----------------------------------------------------------------------------
(* The page                                                                *)

\* renderDashboard: the page is drawn from the board.
PageLoads ==
    /\ page = "none"
    /\ left.page > 0
    /\ page' = "loaded"
    /\ shown' = Page(board)
    /\ UNCHANGED <<vars, board, notice, cameraVars, mqttVars, onvifVars, calls, reading, events,
                   lost, left>>

\* handleSSE: its EventSource connects, for the first time or again, and is primed.
PageOpens ==
    /\ page = "loaded"
    /\ left.page > 0
    /\ left' = [left EXCEPT !.page = @ - 1]
    /\ page' = "open"
    /\ calls' = Len(Prime)
    /\ lost' = FALSE
    /\ UNCHANGED <<vars, board, notice, cameraVars, mqttVars, onvifVars, reading, events, shown>>

\* Its connection breaks: handleSSE unsubscribes, and what is left in its queues is gone.
PageBreaks ==
    /\ page = "open"
    /\ page' = "loaded"
    /\ calls' = 0
    /\ reading' = Nothing
    /\ events' = Nothing
    /\ UNCHANGED <<vars, board, notice, cameraVars, mqttVars, onvifVars, shown, lost, left>>

\* The callback, first part: it looks up the whole state.
PageReads ==
    /\ calls > 0
    /\ reading = Nothing
    /\ calls' = calls - 1
    /\ reading' = <<Page(board)>>
    /\ UNCHANGED <<vars, board, notice, cameraVars, mqttVars, onvifVars, page, events, shown, lost,
                   left>>

\* Its second part: the event is put into the channel, or dropped.
PageOffers ==
    /\ reading # Nothing
    /\ reading' = Nothing
    /\ events' = IF Len(events) < EventCap THEN events \o reading ELSE events
    /\ lost' = (Len(events) = EventCap)
    /\ UNCHANGED <<vars, board, notice, cameraVars, mqttVars, onvifVars, page, calls, shown, left>>

\* The browser gets an event and redraws what it carries; a time of 0 is left out of it.
PageRedraws ==
    /\ events # Nothing
    /\ events' = Tail(events)
    /\ LET e == Head(events)
       IN shown' = IF e.motion_timestamp = 0
                   THEN [e EXCEPT !.motion_timestamp = shown.motion_timestamp]
                   ELSE e
    /\ UNCHANGED <<vars, board, notice, cameraVars, mqttVars, onvifVars, page, calls, reading, lost,
                   left>>

-----------------------------------------------------------------------------
MirrorsInit ==
    /\ Init
    /\ left \in Budgets
    /\ board = Nothing
    /\ notice = [w \in Who |-> Nothing]
    /\ camera = [k \in Settings |-> 0]
    /\ wire = Nothing /\ inbox = Nothing
    /\ link = "down"
    /\ asking = FALSE
    /\ mqtt = FALSE /\ online = FALSE /\ discovered = FALSE
    /\ updates = Nothing /\ topics = Nothing /\ entities = Nothing
    /\ missed = {}
    /\ alerts = Nothing
    /\ alarm = [f \in Fields |-> FALSE]
    /\ page = "none"
    /\ calls = 0
    /\ reading = Nothing /\ events = Nothing
    /\ shown = Page(Nothing)
    /\ lost = FALSE

MirrorsNext ==
    \/ PollTriggers \/ PollArms \/ PollEnds \/ SensorReport
    \/ \E k \in Numbers : TimerFires(k) \/ TimerClears(k) \/ TimerForgets(k)
    \/ \E s \in {"Alive", "Unhealthy"} : StreamChanges(s)
    \/ \E w \in Who : Notify(w)
    \/ LinkUp \/ HandlerStarts \/ LinkDown \/ HandlerEnds
    \/ CameraAnswers \/ MessageReceived \/ CommandReturns
    \/ \E k \in Settings : CameraObeys(k)
    \/ \E k \in Settings, v \in 0 .. 1 : CameraChanges(k, v)
    \/ \E k \in Settings, p \in Payloads : HandleMQTTCommand(k, p)
    \/ MqttStarts \/ BrokerLost \/ BrokerBack \/ MqttEnds \/ Publish \/ handleState
    \/ PageLoads \/ PageOpens \/ PageBreaks \/ PageReads \/ PageOffers \/ PageRedraws

\* Goroutines go on, timers fire and the camera serves what reaches it.  Connections, the
\* people and the browser owe nothing.
MirrorsSpec ==
    /\ MirrorsInit /\ [][MirrorsNext]_allVars
    /\ WF_allVars(PollArms)
    /\ \A k \in Numbers : WF_allVars(TimerFires(k) \/ TimerClears(k) \/ TimerForgets(k))
    /\ \A w \in Who : WF_allVars(Notify(w))
    /\ WF_allVars(CameraAnswers)
    /\ \A k \in Settings : WF_allVars(CameraObeys(k))
    /\ WF_allVars(MessageReceived)
    /\ WF_allVars(Publish)
    /\ WF_allVars(handleState)

-----------------------------------------------------------------------------
(* Properties                                                              *)

\* Every variable has its type, and the flags of EventHold are those of the board.
MirrorsTypeOK ==
    /\ TypeOK
    /\ left \in Budget
    /\ \A w \in Who : \A k \in DOMAIN notice[w] : k \in DOMAIN board
    /\ \A f \in Fields : detected[f] = Get(board, Detected(f), FALSE)
    /\ camera \in [Settings -> 0 .. 1]
    /\ link \in {"down", "open", "up", "lost"}
    /\ {asking, mqtt, online, discovered, lost} \subseteq BOOLEAN
    /\ DOMAIN entities \in {{}, DOMAIN discoveryConfigs}
    /\ missed \subseteq DOMAIN board \cup {"is_stream_alive"}
    /\ alarm \in [Fields -> BOOLEAN]
    /\ page \in {"none", "loaded", "open"}
    /\ Len(reading) <= 1 /\ Len(events) <= EventCap

\* Once nothing is under way to an open page, it shows what the board holds, although four
\* goroutines write the board and tell of it in any order: unless the last event for the
\* page found its channel full (handleSSE).
PageShowsBoard ==
    (/\ page = "open" /\ ~lost
     /\ calls = 0 /\ reading = Nothing /\ events = Nothing
     /\ \A w \in Who : Told(w)) => shown = Page(board)

\* Two events of a field have timers that were not stopped: the first one had fired, if only
\* just, before the second was recorded.
Overtaken(f) ==
    \E j, k \in Numbers : j < k /\ \A x \in {j, k} : kind[x] = f /\ timer[x] \notin {"unused", "stopped"}

\* What a polled event has set off ends: the flag on the board, unless the camera renews it,
\* and, as long as the camera says nothing, the alarm of the ONVIF clients: after one event and
\* after others that renew its hold, although one goroutine sets the flag, another one clears it
\* and each tells the subscribers on its own.
MotionEnds ==
    /\ FlagIsCleared
    /\ \A f \in Fields : alarm[f] ~> (~alarm[f] \/ reports > 0 \/ Overtaken(f))

\* "For REST-polled events we auto-clear after HoldDuration so NVRs see a discrete trigger pulse"
\* (events.go:32-33): the alarm of every event ends.  It does not, if an event comes as the timer
\* of the one before fires: the poller's TRUE may be told after the timer's FALSE, and the next
\* timer finds the flag cleared already and tells nobody.
AlarmEnds == \A f \in Fields : alarm[f] ~> (~alarm[f] \/ reports > 0)

\* While the camera is connected, the topic of a setting comes to say what the camera has:
\* after a command, a change made elsewhere and a change the bridge was not there to hear
\* of; unless the connection or MQTT ends, or the broker was away for the last word of it.
SettingIsShown ==
    \A k \in Settings \ Controls :
        (link = "up" /\ mqtt /\ Get(topics, k, 2) # camera[k])
            ~> (link # "up" \/ ~mqtt \/ k \in missed \/ Get(topics, k, 2) = camera[k])

\* The same of the night light.  It fails: a Control is never asked for, so what was changed
\* while the bridge was not connected is not learned.
LightIsShown ==
    \A k \in Settings \cap Controls :
        (link = "up" /\ mqtt /\ Get(topics, k, 2) # camera[k])
            ~> (link # "up" \/ ~mqtt \/ k \in missed \/ Get(topics, k, 2) = camera[k])

\* Home Assistant is told of the entities in the end.  It fails: the note that they have been
\* published is made before they are, and the broker may be away.
EntitiesAreKnown == mqtt /\ discovered ~> entities # Nothing

-----------------------------------------------------------------------------
(* What every step preserves of the page                                    *)

\* What travels between the bridge and the camera carries settings only.
Bodies   == UNION {[K -> 0 .. 1] : K \in SUBSET Settings}
Requests == [type : {"GET_SETTINGS", "PUT_CONTROL", "PUT_SETTINGS"}, body : Bodies]
Messages == [kind : {"request", "response"}, type : {"GET_SETTINGS", "PUT_CONTROL", "PUT_SETTINGS"},
             body : Bodies]

CameraTypes ==
    /\ camera \in [Settings -> 0 .. 1]
    /\ wire \in Seq(Requests)
    /\ inbox \in Seq(Messages)

\* The fields of the board a page is rendered from, each with a value of its own kind.
BoardTypes ==
    /\ "stream_state" \in DOMAIN board => board["stream_state"] \in {"Alive", "Unhealthy"}
    /\ "is_websocket_alive" \in DOMAIN board => board["is_websocket_alive"] \in BOOLEAN
    /\ "motion_timestamp" \in DOMAIN board => board["motion_timestamp"] \in Nat \ {0}

PageEvents == [stream_state : {"Alive", "Unhealthy", "Unknown"}, websocket_alive : BOOLEAN,
               motion_timestamp : Nat]

PageTypes ==
    /\ DOMAIN notice = Who
    /\ page \in {"none", "loaded", "open"}
    /\ calls \in Nat
    /\ reading \in Seq(PageEvents) /\ Len(reading) <= 1
    /\ events \in Seq(PageEvents) /\ Len(events) <= EventCap
    /\ shown \in PageEvents

\* What has no value on the board has none on the page or on its way there.
UnsetIn(e) ==
    /\ "stream_state" \notin DOMAIN board => e.stream_state = "Unknown"
    /\ "is_websocket_alive" \notin DOMAIN board => e.websocket_alive = FALSE
    /\ "motion_timestamp" \notin DOMAIN board => e.motion_timestamp = 0

UnsetIsUnseen ==
    /\ UnsetIn(shown)
    /\ \A i \in 1 .. Len(reading) : UnsetIn(reading[i])
    /\ \A i \in 1 .. Len(events) : UnsetIn(events[i])

\* Nothing is under way to a page that is not open.
NotOpen == page # "open" => calls = 0 /\ reading = Nothing /\ events = Nothing

\* No writer has anything to tell and the worker of the page has no event: what comes last to
\* the page is what the board holds.
LastIsBoard ==
    page = "open" /\ calls = 0 /\ (\A w \in Who : Told(w)) =>
        /\ reading # Nothing => reading[1] = Page(board)
        /\ reading = Nothing /\ ~lost =>
              IF events = Nothing THEN shown = Page(board) ELSE events[Len(events)] = Page(board)

PageInv ==
    /\ TypeOK /\ Room
    /\ CameraTypes /\ BoardTypes /\ PageTypes /\ UnsetIsUnseen /\ NotOpen /\ LastIsBoard
=============================================================================
