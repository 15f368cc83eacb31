--------------------------- MODULE MirrorsProofs ----------------------------
(***************************************************************************)
(* Proofs about EventHold and Mirrors.                                     *)
(*                                                                         *)
(* The first part is about the timers.  A flag that a polled event has set *)
(* has somebody who will clear it (FlagIsTimed), wherever timers fire: a   *)
(* timer that is stopped is one of the field whose event is just being     *)
(* recorded, as the map names a timer of the field only (HoldInv).  Every  *)
(* step of Mirrors is a step of EventHold or leaves its variables alone,   *)
(* so that the same holds among all the writers of the board.              *)
(*                                                                         *)
(* The second part is about the page.  LastIsBoard says where the state of *)
(* the board is once no writer has anything to tell: on its way to the     *)
(* page, or there.  Every step preserves it together with the types        *)
(* of what the page is made from, and with the fact that the page has no   *)
(* value for what has none on the board (PageInv).                         *)
(***************************************************************************)
EXTENDS Mirrors, TLAPS, SequenceTheorems

-----------------------------------------------------------------------------
(* The timers                                                               *)

LEMMA InitHold == Init => HoldInv
<1> SUFFICES ASSUME Init PROVE HoldInv
  OBVIOUS
<1>1. at \in Fields /\ kind \in [Numbers -> Fields]
  <2>1. (CHOOSE f \in Fields : TRUE) \in Fields
    BY FieldsAssumption
  <2> QED
    BY <2>1 DEF Init
<1>2. TypeOK
  <2>1. /\ detected = [f \in Fields |-> FALSE] /\ writer = [f \in Fields |-> "none"]
        /\ timers = [f \in Fields |-> 0] /\ timer = [k \in Numbers |-> "unused"]
        /\ armed = 0 /\ pc = "polling" /\ reports = 0
    BY DEF Init
  <2> QED
    BY <1>1, <2>1, BoundAssumption DEF TypeOK
<1> QED
  BY <1>2 DEF Init, HoldInv, Room, InOrder, Named, FlagIsTimed

\* Every step keeps the types: a timer is armed only within the bound.
LEMMA HoldTypes == TypeOK /\ Room /\ [Next]_vars => TypeOK' /\ Room'
<1> SUFFICES ASSUME TypeOK, Room, [Next]_vars PROVE TypeOK' /\ Room'
  OBVIOUS
<1> USE BoundAssumption DEF TypeOK, Room
<1>0. TypeOK /\ Room
  OBVIOUS
<1>1. CASE Arm
  <2>1. armed + 1 \in Numbers /\ armed + 1 \in 0 .. TimerLimit
    BY <1>0, <1>1 DEF Arm, Numbers
  <2> QED
    BY <1>0, <1>1, <2>1 DEF Arm, Stopped
<1>2. CASE PollerEnds
  BY <1>0, <1>2 DEF PollerEnds
<1>3. ASSUME NEW f \in Fields, Trigger(f) PROVE TypeOK' /\ Room'
  BY <1>0, <1>3 DEF Trigger
<1>4. ASSUME NEW f \in Fields, Report(f) PROVE TypeOK' /\ Room'
  BY <1>0, <1>4, ReportsAssumption DEF Report
<1>5. ASSUME NEW k \in Numbers, Fire(k) PROVE TypeOK' /\ Room'
  BY <1>0, <1>5 DEF Fire
<1>6. ASSUME NEW k \in Numbers, ClearFlag(k) PROVE TypeOK' /\ Room'
  BY <1>0, <1>6 DEF ClearFlag
<1>7. ASSUME NEW k \in Numbers, DeleteEntry(k) PROVE TypeOK' /\ Room'
  BY <1>0, <1>7 DEF DeleteEntry
<1>8. CASE UNCHANGED vars
  BY <1>0, <1>8 DEF vars
<1> QED
  BY <1>1, <1>2, <1>3, <1>4, <1>5, <1>6, <1>7, <1>8 DEF Next

\* A timer that arming stops is of the field it arms another one for.
LEMMA ArmHolds == HoldInv /\ Arm => InOrder' /\ Named' /\ FlagIsTimed'
<1> SUFFICES ASSUME HoldInv, Arm PROVE InOrder' /\ Named' /\ FlagIsTimed'
  OBVIOUS
<1>1. TypeOK /\ InOrder /\ Named /\ FlagIsTimed /\ armed + 1 \in Numbers /\ armed \in Nat
  BY BoundAssumption DEF HoldInv, Arm, Room, TypeOK, Numbers
<1>2. /\ UNCHANGED <<detected, writer>> /\ pc = "arming" /\ pc' = "polling"
      /\ armed' = armed + 1 /\ at \in Fields /\ timers'[at] = armed + 1
      /\ \A f \in Fields : f # at => timers'[f] = timers[f]
      /\ timer'[armed + 1] = "armed" /\ kind'[armed + 1] = at
      /\ \A k \in Numbers : k # armed + 1 =>
            /\ kind'[k] = kind[k]
            /\ timer'[k] = IF k = timers[at] /\ timer[k] = "armed" THEN "stopped" ELSE timer[k]
  BY <1>1 DEF Arm, TypeOK, Stopped
<1>3. \A k \in Numbers : timer[k] # "unused" => k <= armed /\ k # armed + 1
  BY <1>1 DEF InOrder, Numbers
<1>4. InOrder'
  BY <1>1, <1>2 DEF InOrder, Numbers
<1>5. Named'
  <2>1. \A f \in Fields : timers[f] \in 0 .. TimerLimit
    BY <1>1 DEF TypeOK
  <2> QED
    BY <1>1, <1>2, <2>1, BoundAssumption DEF Named, Numbers
<1>6. FlagIsTimed'
  <2> SUFFICES ASSUME NEW f \in Fields, detected[f], writer[f] = "trigger"
               PROVE  \E k \in Numbers : kind'[k] = f /\ timer'[k] \in {"armed", "fired"}
    BY <1>2 DEF FlagIsTimed
  <2>1. CASE f = at
    BY <1>1, <1>2, <2>1
  <2>2. CASE f # at
    <3>1. PICK k \in Numbers : kind[k] = f /\ timer[k] \in {"armed", "fired"}
      BY <1>1, <2>2 DEF FlagIsTimed
    <3>2. k # armed + 1
      BY <1>3, <3>1
    <3>3. k # timers[at]
      <4>1. k # 0
        BY DEF Numbers
      <4> QED
        BY <1>1, <1>2, <2>2, <3>1, <4>1 DEF Named
    <3> QED
      BY <1>2, <3>1, <3>2, <3>3
  <2> QED
    BY <2>1, <2>2
<1> QED
  BY <1>4, <1>5, <1>6

\* The flag is set by the event that is being recorded, and only the function of a timer that has
\* fired clears it.
LEMMA HoldStep == HoldInv /\ [Next]_vars => HoldInv'
<1> SUFFICES ASSUME HoldInv, [Next]_vars PROVE HoldInv'
  OBVIOUS
<1>0. TypeOK /\ InOrder /\ Named /\ FlagIsTimed /\ TypeOK' /\ Room'
  BY HoldTypes DEF HoldInv
<1> DEFINE Kept == InOrder' /\ Named' /\ FlagIsTimed'
<1> SUFFICES Kept
  BY <1>0 DEF HoldInv
<1>1. CASE Arm
  BY <1>1, ArmHolds
<1>2. CASE PollerEnds
  BY <1>0, <1>2 DEF PollerEnds, InOrder, Named, FlagIsTimed
<1>3. ASSUME NEW f \in Fields, Trigger(f) PROVE Kept
  <2>1. /\ UNCHANGED <<timers, timer, kind, armed>> /\ at' = f /\ pc' = "arming" /\ pc = "polling"
        /\ \A g \in Fields : g # f => detected'[g] = detected[g] /\ writer'[g] = writer[g]
    BY <1>0, <1>3 DEF Trigger, TypeOK
  <2> QED
    BY <1>0, <2>1 DEF InOrder, Named, FlagIsTimed
<1>4. ASSUME NEW f \in Fields, Report(f) PROVE Kept
  <2>1. /\ UNCHANGED <<timers, timer, kind, armed, at, pc>> /\ writer'[f] = "camera"
        /\ \A g \in Fields : g # f => detected'[g] = detected[g] /\ writer'[g] = writer[g]
    BY <1>0, <1>4 DEF Report, TypeOK
  <2> QED
    BY <1>0, <2>1 DEF InOrder, Named, FlagIsTimed
<1>5. ASSUME NEW k \in Numbers, Fire(k) PROVE Kept
  <2>1. /\ UNCHANGED <<detected, writer, timers, kind, armed, at, pc>>
        /\ timer[k] = "armed" /\ timer'[k] = "fired"
        /\ \A j \in Numbers : j # k => timer'[j] = timer[j]
    BY <1>0, <1>5 DEF Fire, TypeOK
  <2> QED
    BY <1>0, <2>1 DEF InOrder, Named, FlagIsTimed
<1>6. ASSUME NEW k \in Numbers, ClearFlag(k) PROVE Kept
  <2>1. /\ UNCHANGED <<timers, kind, armed, at, pc>> /\ kind[k] \in Fields
        /\ timer[k] = "fired" /\ timer'[k] = "cleared" /\ writer'[kind[k]] = "timer"
        /\ \A j \in Numbers : j # k => timer'[j] = timer[j]
        /\ \A f \in Fields : f # kind[k] => detected'[f] = detected[f] /\ writer'[f] = writer[f]
    BY <1>0, <1>6 DEF ClearFlag, TypeOK
  <2> QED
    BY <1>0, <2>1 DEF InOrder, Named, FlagIsTimed
<1>7. ASSUME NEW k \in Numbers, DeleteEntry(k) PROVE Kept
  <2>1. /\ UNCHANGED <<detected, writer, kind, armed, at, pc>> /\ timer[k] = "cleared"
        /\ timer'[k] = "through" /\ \A j \in Numbers : j # k => timer'[j] = timer[j]
        /\ timers'[kind[k]] = 0 /\ \A f \in Fields : f # kind[k] => timers'[f] = timers[f]
    BY <1>0, <1>7 DEF DeleteEntry, TypeOK
  <2> QED
    BY <1>0, <2>1 DEF InOrder, Named, FlagIsTimed
<1>8. CASE UNCHANGED vars
  BY <1>0, <1>8 DEF vars, InOrder, Named, FlagIsTimed
<1> HIDE DEF Kept
<1> QED
  BY <1>1, <1>2, <1>3, <1>4, <1>5, <1>6, <1>7, <1>8 DEF Next, Kept

\* Every variable of EventHold keeps its type.
THEOREM HoldTypesCorrect == Spec => []TypeOK
<1>1. Init => TypeOK /\ Room
  BY InitHold DEF HoldInv
<1> QED
  BY <1>1, HoldTypes, PTL DEF Spec

\* A flag pollMessages has set is never left without a timer that will clear it: whenever timers
\* fire, whichever entry of the map a late function deletes, and after the poller has ended.
THEOREM TimedCorrect == Spec => []FlagIsTimed
<1>1. HoldInv => FlagIsTimed
  BY DEF HoldInv
<1> QED
  BY <1>1, InitHold, HoldStep, PTL DEF Spec

\* Every step of Mirrors is one of EventHold or none.
LEMMA StepsOfHold == [MirrorsNext]_allVars => [Next]_vars
<1> SUFFICES ASSUME [MirrorsNext]_allVars PROVE [Next]_vars
  OBVIOUS
<1>1. CASE UNCHANGED allVars
  BY <1>1 DEF allVars
<1>2. CASE PollTriggers \/ PollArms \/ PollEnds \/ SensorReport
  BY <1>2 DEF PollTriggers, PollArms, PollEnds, SensorReport, Next
<1>3. CASE \E k \in Numbers : TimerFires(k) \/ TimerClears(k) \/ TimerForgets(k)
  BY <1>3 DEF TimerFires, TimerClears, TimerForgets, Next
<1>4. CASE \E s \in {"Alive", "Unhealthy"} : StreamChanges(s)
  BY <1>4 DEF StreamChanges
<1>5. CASE \E w \in Who : Notify(w)
  BY <1>5 DEF Notify
<1>6. CASE LinkUp \/ HandlerStarts \/ LinkDown \/ HandlerEnds
  BY <1>6 DEF LinkUp, HandlerStarts, LinkDown, HandlerEnds
<1>12. CASE CameraAnswers \/ MessageReceived \/ CommandReturns
  BY <1>12 DEF CameraAnswers, MessageReceived, CommandReturns
<1>7. CASE \E k \in Settings : CameraObeys(k)
  BY <1>7 DEF CameraObeys
<1>8. CASE \E k \in Settings, v \in 0 .. 1 : CameraChanges(k, v)
  BY <1>8 DEF CameraChanges
<1>9. CASE \E k \in Settings, p \in Payloads : HandleMQTTCommand(k, p)
  BY <1>9 DEF HandleMQTTCommand
<1>10. CASE MqttStarts \/ BrokerLost \/ BrokerBack \/ MqttEnds \/ Publish \/ handleState
  BY <1>10 DEF MqttStarts, BrokerLost, BrokerBack, MqttEnds, Publish, handleState
<1>11. CASE PageLoads \/ PageOpens \/ PageBreaks \/ PageReads \/ PageOffers \/ PageRedraws
  BY <1>11 DEF PageLoads, PageOpens, PageBreaks, PageReads, PageOffers, PageRedraws
<1> QED
  BY <1>1, <1>2, <1>3, <1>4, <1>5, <1>6, <1>7, <1>8, <1>9, <1>10, <1>11, <1>12 DEF MirrorsNext

\* The same among all the writers of the board.
THEOREM TimedAmongWriters == MirrorsSpec => []FlagIsTimed
<1>1. HoldInv /\ [MirrorsNext]_allVars => HoldInv'
  BY StepsOfHold, HoldStep
<1>2. MirrorsInit => HoldInv
  BY InitHold DEF MirrorsInit
<1>3. MirrorsSpec => MirrorsInit /\ [][MirrorsNext]_allVars
  BY PTL DEF MirrorsSpec
<1>4. HoldInv => FlagIsTimed
  BY DEF HoldInv
<1> QED
  BY <1>1, <1>2, <1>3, <1>4, PTL

-----------------------------------------------------------------------------
(* The board                                                                *)

LEMMA MergeFacts ==
  ASSUME NEW u, NEW st
  PROVE  /\ DOMAIN Merge(u, st) = DOMAIN u \cup DOMAIN st
         /\ \A k \in DOMAIN u : Merge(u, st)[k] = u[k]
         /\ \A k \in DOMAIN st : k \notin DOMAIN u => Merge(u, st)[k] = st[k]
  BY DEF Merge

LEMMA OnlyFacts == ASSUME NEW k, NEW v PROVE DOMAIN Only(k, v) = {k} /\ Only(k, v)[k] = v
  BY DEF Only

LEMMA NothingFacts == DOMAIN Nothing = {} /\ Len(Nothing) = 0
  BY DEF Nothing

\* The values of the fields a page is rendered from.
PageFields(u) ==
    /\ "stream_state" \in DOMAIN u => u["stream_state"] \in {"Alive", "Unhealthy"}
    /\ "is_websocket_alive" \in DOMAIN u => u["is_websocket_alive"] \in BOOLEAN
    /\ "motion_timestamp" \in DOMAIN u => u["motion_timestamp"] \in Nat \ {0}

LEMMA MergeFields ==
  ASSUME NEW u, NEW st, PageFields(u), PageFields(st)
  PROVE  PageFields(Merge(u, st))
<1> DEFINE m == Merge(u, st)
<1>1. \A k \in DOMAIN m : \/ k \in DOMAIN u /\ m[k] = u[k]
                          \/ k \in DOMAIN st /\ m[k] = st[k]
  <2>1. DOMAIN m = DOMAIN u \cup DOMAIN st
    BY DEF Merge
  <2>2. \A k \in DOMAIN u \cup DOMAIN st : m[k] = IF k \in DOMAIN u THEN u[k] ELSE st[k]
    BY DEF Merge
  <2> HIDE DEF m
  <2> QED
    BY <2>1, <2>2
<1> HIDE DEF m
<1>2. PageFields(m)
  BY <1>1 DEF PageFields
<1> QED
  BY <1>2 DEF m

LEMMA PageIsEvent == ASSUME NEW u, PageFields(u) PROVE Page(u) \in PageEvents
  BY DEF PageFields, Page, Get, PageEvents

\* What a page is rendered from the board has no value for what has none on it.
LEMMA PageIsUnset == UnsetIn(Page(board))
  BY DEF UnsetIn, Page, Get

\* The board never loses a field.
LEMMA UnsetStays ==
  ASSUME DOMAIN board \subseteq DOMAIN board', UNCHANGED <<shown, reading, events>>, UnsetIsUnseen
  PROVE  UnsetIsUnseen'
  BY DEF UnsetIsUnseen, UnsetIn

\* A writer either has something to tell or has changed nothing a page shows.
LEMMA StoreStep ==
  ASSUME NEW w \in Who, NEW u, PageFields(u), Store(w, u), UNCHANGED pageVars,
         BoardTypes, PageTypes, UnsetIsUnseen, NotOpen, LastIsBoard
  PROVE  BoardTypes' /\ PageTypes' /\ UnsetIsUnseen' /\ NotOpen' /\ LastIsBoard'
<1>1. UNCHANGED <<page, calls, reading, events, shown, lost>>
  BY DEF pageVars
<1>2. /\ board' = Merge(u, board)
      /\ notice' = IF Changes(u) THEN [notice EXCEPT ![w] = u] ELSE notice
      /\ DOMAIN notice = Who
  BY DEF Store, PageTypes
<1>3. PageFields(board) /\ PageFields(board')
  BY <1>2, MergeFields DEF BoardTypes, PageFields
<1>4. BoardTypes' /\ PageTypes' /\ NotOpen'
  BY <1>1, <1>2, <1>3 DEF BoardTypes, PageFields, PageTypes, NotOpen
<1>5. DOMAIN board' = DOMAIN u \cup DOMAIN board
  BY <1>2, MergeFacts
<1>6. UnsetIsUnseen'
  BY <1>1, <1>5, UnsetStays
<1>7. LastIsBoard'
  <2>1. CASE Changes(u)
    <3>1. notice'[w] = u /\ u # Nothing
      BY <1>2, <2>1, NothingFacts DEF Changes
    <3> QED
      BY <3>1 DEF LastIsBoard, Told
  <2>2. CASE ~Changes(u)
    <3>1. DOMAIN board' = DOMAIN board /\ \A k \in DOMAIN board : board'[k] = board[k]
      <4>1. DOMAIN board' = DOMAIN board /\ \A k \in DOMAIN u : u[k] = board[k]
        BY <1>5, <2>2 DEF Changes
      <4>2. \A k \in DOMAIN u : board'[k] = u[k]
        BY <1>2 DEF Merge
      <4>3. \A k \in DOMAIN board : k \notin DOMAIN u => board'[k] = board[k]
        BY <1>2 DEF Merge
      <4> QED
        BY <4>1, <4>2, <4>3
    <3>2. Page(board') = Page(board)
      BY <3>1 DEF Page, Get
    <3>3. notice' = notice
      BY <1>2, <2>2
    <3> QED
      BY <1>1, <3>2, <3>3 DEF LastIsBoard, Told
  <2> QED
    BY <2>1, <2>2
<1> QED
  BY <1>4, <1>6, <1>7

\* Steps that neither store nor tell.
LEMMA QuietStep ==
  ASSUME UNCHANGED <<board, notice, pageVars>>,
         BoardTypes, PageTypes, UnsetIsUnseen, NotOpen, LastIsBoard
  PROVE  BoardTypes' /\ PageTypes' /\ UnsetIsUnseen' /\ NotOpen' /\ LastIsBoard'
<1>1. UNCHANGED <<board, notice, page, calls, reading, events, shown, lost>>
  BY DEF pageVars
<1> QED
  BY <1>1 DEF BoardTypes, PageTypes, UnsetIsUnseen, UnsetIn, NotOpen, LastIsBoard, Told

LEMMA NotifyStep ==
  ASSUME NEW w \in Who, Notify(w), BoardTypes, PageTypes, UnsetIsUnseen, NotOpen, LastIsBoard
  PROVE  BoardTypes' /\ PageTypes' /\ UnsetIsUnseen' /\ NotOpen' /\ LastIsBoard'
<1>1. /\ UNCHANGED <<board, page, reading, events, shown, lost>>
      /\ notice' = [notice EXCEPT ![w] = Nothing]
      /\ calls' = IF page = "open" THEN calls + 1 ELSE calls
  BY DEF Notify
<1>2. PageTypes' /\ (page = "open" => calls' # 0)
  BY <1>1 DEF PageTypes
<1> QED
  BY <1>1, <1>2 DEF BoardTypes, UnsetIsUnseen, UnsetIn, NotOpen, LastIsBoard

-----------------------------------------------------------------------------
(* The page                                                                 *)

LEMMA PageLoadsStep ==
  ASSUME PageLoads, BoardTypes, PageTypes, UnsetIsUnseen, NotOpen, LastIsBoard
  PROVE  BoardTypes' /\ PageTypes' /\ UnsetIsUnseen' /\ NotOpen' /\ LastIsBoard'
<1>1. /\ UNCHANGED <<board, notice, calls, reading, events, lost>>
      /\ page = "none" /\ page' = "loaded" /\ shown' = Page(board)
  BY DEF PageLoads
<1>2. shown' \in PageEvents
  BY <1>1, PageIsEvent DEF BoardTypes, PageFields
<1>3. UnsetIsUnseen'
  BY <1>1, PageIsUnset DEF UnsetIsUnseen, UnsetIn
<1> QED
  BY <1>1, <1>2, <1>3 DEF BoardTypes, PageTypes, NotOpen, LastIsBoard

\* A page that is opened is primed, unless there is nothing on the board: then it shows it.
LEMMA PageOpensStep ==
  ASSUME PageOpens, BoardTypes, PageTypes, UnsetIsUnseen, NotOpen, LastIsBoard
  PROVE  BoardTypes' /\ PageTypes' /\ UnsetIsUnseen' /\ NotOpen' /\ LastIsBoard'
<1>1. /\ UNCHANGED <<board, notice, reading, events, shown>>
      /\ page = "loaded" /\ page' = "open" /\ calls' = Len(Prime) /\ ~lost'
      /\ reading = Nothing /\ events = Nothing
  BY DEF PageOpens, NotOpen
<1>2. calls' = IF board = Nothing THEN 0 ELSE 1
  <2>1. Len(<<board>>) = 1
    OBVIOUS
  <2> QED
    BY <1>1, <2>1, NothingFacts DEF Prime
<1>3. board = Nothing => shown = Page(board)
  <2> SUFFICES ASSUME board = Nothing PROVE shown = Page(board)
    OBVIOUS
  <2>1. DOMAIN board = {}
    BY NothingFacts
  <2>2. /\ shown.stream_state = "Unknown" /\ shown.websocket_alive = FALSE
        /\ shown.motion_timestamp = 0
    BY <2>1 DEF UnsetIsUnseen, UnsetIn
  <2>3. Page(board) = [stream_state |-> "Unknown", websocket_alive |-> FALSE, motion_timestamp |-> 0]
    BY <2>1 DEF Page, Get
  <2> QED
    BY <2>2, <2>3 DEF PageTypes, PageEvents
<1> QED
  BY <1>1, <1>2, <1>3 DEF BoardTypes, PageTypes, UnsetIsUnseen, UnsetIn, NotOpen, LastIsBoard

LEMMA PageBreaksStep ==
  ASSUME PageBreaks, BoardTypes, PageTypes, UnsetIsUnseen, NotOpen, LastIsBoard
  PROVE  BoardTypes' /\ PageTypes' /\ UnsetIsUnseen' /\ NotOpen' /\ LastIsBoard'
<1>1. /\ UNCHANGED <<board, notice, shown, lost>>
      /\ page' = "loaded" /\ calls' = 0 /\ reading' = Nothing /\ events' = Nothing
  BY DEF PageBreaks
<1>2. Nothing \in Seq(PageEvents) /\ Len(Nothing) = 0
  BY DEF Nothing
<1> QED
  BY <1>1, <1>2, CapAssumption DEF BoardTypes, PageTypes, UnsetIsUnseen, UnsetIn, NotOpen, LastIsBoard

LEMMA PageReadsStep ==
  ASSUME PageReads, BoardTypes, PageTypes, UnsetIsUnseen, NotOpen, LastIsBoard
  PROVE  BoardTypes' /\ PageTypes' /\ UnsetIsUnseen' /\ NotOpen' /\ LastIsBoard'
<1> DEFINE e == Page(board)
<1>1. /\ UNCHANGED <<board, notice, page, events, shown, lost>>
      /\ calls > 0 /\ calls' = calls - 1 /\ reading' = <<e>>
  BY DEF PageReads
<1>2. e \in PageEvents /\ UnsetIn(e)
  BY PageIsEvent, PageIsUnset DEF BoardTypes, PageFields
<1>3. e = Page(board')
  BY <1>1
<1> HIDE DEF e
<1>4. reading' \in Seq(PageEvents) /\ Len(reading') = 1 /\ reading'[1] = e /\ reading' # Nothing
  BY <1>1, <1>2 DEF Nothing
<1>5. PageTypes' /\ page = "open"
  BY <1>1, <1>4 DEF PageTypes, NotOpen
<1>6. UnsetIsUnseen'
  BY <1>1, <1>2, <1>4 DEF UnsetIsUnseen, UnsetIn
<1> QED
  BY <1>1, <1>3, <1>4, <1>5, <1>6 DEF BoardTypes, NotOpen, LastIsBoard

LEMMA PageOffersStep ==
  ASSUME PageOffers, BoardTypes, PageTypes, UnsetIsUnseen, NotOpen, LastIsBoard
  PROVE  BoardTypes' /\ PageTypes' /\ UnsetIsUnseen' /\ NotOpen' /\ LastIsBoard'
<1>1. /\ UNCHANGED <<board, notice, page, calls, shown>>
      /\ reading # Nothing /\ reading' = Nothing
      /\ events' = IF Len(events) < EventCap THEN events \o reading ELSE events
      /\ lost' = (Len(events) = EventCap)
  BY DEF PageOffers
<1>2. /\ reading \in Seq(PageEvents) /\ events \in Seq(PageEvents)
      /\ Len(reading) = 1 /\ Len(events) \in Nat /\ Len(events) <= EventCap /\ EventCap \in Nat
  <2>1. reading \in Seq(PageEvents) /\ reading # << >> /\ Len(reading) <= 1
    BY <1>1 DEF PageTypes, Nothing
  <2>2. Len(reading) \in Nat /\ Len(reading) # 0
    BY <2>1
  <2>3. events \in Seq(PageEvents) /\ Len(events) <= EventCap
    BY DEF PageTypes
  <2>4. Len(events) \in Nat
    BY <2>3
  <2>5. Len(reading) = 1
    <3>1. \A n \in Nat : n <= 1 /\ n # 0 => n = 1
      OBVIOUS
    <3> QED
      BY <2>1, <2>2, <3>1
  <2> QED
    BY <2>1, <2>3, <2>4, <2>5, CapAssumption
<1>3. Nothing \in Seq(PageEvents) /\ Len(Nothing) = 0
  BY DEF Nothing
<1> DEFINE e == reading[1]
           longer == events \o reading
<1>4. /\ longer \in Seq(PageEvents) /\ Len(longer) = Len(events) + 1
      /\ \A i \in 1 .. Len(events) : longer[i] = events[i]
      /\ longer[Len(events) + 1] = e /\ longer # Nothing
  <2>1. /\ longer \in Seq(PageEvents) /\ Len(longer) = Len(events) + 1
        /\ \A i \in 1 .. Len(events) : longer[i] = events[i]
        /\ longer[Len(events) + 1] = e
    <3>1. longer \in Seq(PageEvents) /\ Len(longer) = Len(events) + Len(reading)
      BY <1>2, ConcatProperties
    <3>2. \A i \in 1 .. Len(events) + Len(reading) :
             longer[i] = IF i <= Len(events) THEN events[i] ELSE reading[i - Len(events)]
      BY <1>2, ConcatProperties
    <3>3. Len(events) + 1 \in 1 .. Len(events) + Len(reading) /\ (Len(events) + 1) - Len(events) = 1
          /\ ~(Len(events) + 1 <= Len(events))
      BY <1>2
    <3>4. \A i \in 1 .. Len(events) : i \in 1 .. Len(events) + Len(reading) /\ i <= Len(events)
      BY <1>2
    <3> HIDE DEF longer
    <3> QED
      BY <1>2, <3>1, <3>2, <3>3, <3>4
  <2>2. Len(longer) # 0
    BY <1>2, <2>1
  <2> QED
    BY <1>3, <2>1, <2>2
<1>5. UnsetIn(e) /\ \A i \in 1 .. Len(events) : UnsetIn(events[i])
  <2>1. 1 \in 1 .. Len(reading)
    BY <1>2
  <2> QED
    BY <2>1 DEF UnsetIsUnseen
<1>6. events' = IF Len(events) < EventCap THEN longer ELSE events
  BY <1>1
<1>7. UnsetIsUnseen'
  <2>1. \A i \in 1 .. Len(events') : UnsetIn(events'[i])
    <3>1. \A i \in 1 .. Len(longer) : i \in 1 .. Len(events) \/ i = Len(events) + 1
      BY <1>2, <1>4
    <3>2. \A i \in 1 .. Len(longer) : UnsetIn(longer[i])
      BY <1>4, <1>5, <3>1
    <3> QED
      BY <1>5, <1>6, <3>2
  <2>2. UnsetIn(shown)
    BY DEF UnsetIsUnseen
  <2>3. Len(reading') = 0
    BY <1>1, <1>3
  <2> QED
    BY <1>1, <2>1, <2>2, <2>3 DEF UnsetIsUnseen, UnsetIn
<1>8. PageTypes'
  <2>1. events' \in Seq(PageEvents) /\ Len(events') <= EventCap
    BY <1>2, <1>4, <1>6
  <2> QED
    BY <1>1, <1>3, <2>1 DEF PageTypes
<1>9. NotOpen' /\ page = "open"
  BY <1>1 DEF NotOpen
<1>10. LastIsBoard'
  <2>1. ~lost' => events' = longer
    <3>1. ~lost' => Len(events) # EventCap
      BY <1>1, Zenon
    <3>2. Len(events) # EventCap => Len(events) < EventCap
      BY <1>2
    <3> QED
      BY <1>6, <3>1, <3>2
  <2>2. (page = "open" /\ calls = 0 /\ \A w \in Who : Told(w)) => e = Page(board)
    BY <1>1 DEF LastIsBoard
  <2>3. ~lost' => Len(events') = Len(events) + 1 /\ events'[Len(events')] = e /\ events' # Nothing
    BY <1>4, <2>1
  <2> HIDE DEF e
  <2> QED
    BY <1>1, <2>2, <2>3 DEF LastIsBoard, Told
<1> QED
  BY <1>1, <1>7, <1>8, <1>9, <1>10 DEF BoardTypes

\* The last event redraws all of the page: the time it may leave out is one the page does not show.
LEMMA PageRedrawsStep ==
  ASSUME PageRedraws, BoardTypes, PageTypes, UnsetIsUnseen, NotOpen, LastIsBoard
  PROVE  BoardTypes' /\ PageTypes' /\ UnsetIsUnseen' /\ NotOpen' /\ LastIsBoard'
<1> DEFINE e == Head(events)
<1>1. /\ UNCHANGED <<board, notice, page, calls, reading, lost>>
      /\ events # Nothing /\ events' = Tail(events)
      /\ shown' = IF e.motion_timestamp = 0
                  THEN [e EXCEPT !.motion_timestamp = shown.motion_timestamp] ELSE e
  BY DEF PageRedraws
<1>2. events \in Seq(PageEvents) /\ Len(events) \in Nat \ {0} /\ events # << >>
  BY <1>1 DEF PageTypes, Nothing
<1>3. e \in PageEvents /\ e = events[1] /\ UnsetIn(e) /\ UnsetIn(shown) /\ shown \in PageEvents
  <2>1. 1 \in 1 .. Len(events)
    BY <1>2
  <2> QED
    BY <1>2, <2>1 DEF UnsetIsUnseen, PageTypes
<1>4. /\ events' \in Seq(PageEvents) /\ Len(events') = Len(events) - 1
      /\ \A i \in 1 .. Len(events') : events'[i] = events[i + 1] /\ i + 1 \in 1 .. Len(events)
  BY <1>1, <1>2
<1> HIDE DEF e
<1>5. shown' \in PageEvents /\ UnsetIn(shown')
  BY <1>1, <1>3 DEF PageEvents, UnsetIn
<1>6. UnsetIsUnseen'
  <2>1. \A i \in 1 .. Len(events') : UnsetIn(events'[i])
    BY <1>4 DEF UnsetIsUnseen
  <2> QED
    BY <1>1, <1>5, <2>1 DEF UnsetIsUnseen, UnsetIn
<1>7. PageTypes' /\ BoardTypes'
  <2>1. Len(events') <= EventCap
    BY <1>2, <1>4, CapAssumption DEF PageTypes
  <2> QED
    BY <1>1, <1>4, <1>5, <2>1 DEF PageTypes, BoardTypes
<1>8. LastIsBoard'
  <2> SUFFICES ASSUME page = "open", calls = 0, \A w \in Who : Told(w), reading = Nothing, ~lost
               PROVE  IF events' = Nothing THEN shown' = Page(board)
                      ELSE events'[Len(events')] = Page(board)
    BY <1>1 DEF LastIsBoard, Told
  <2>1. events[Len(events)] = Page(board)
    BY <1>1 DEF LastIsBoard
  <2>2. CASE events' = Nothing
    <3>1. Len(events) = 1
      BY <1>2, <1>4, <2>2, NothingFacts
    <3>2. e = Page(board)
      BY <1>3, <2>1, <3>1
    <3>3. e.motion_timestamp = 0 => shown.motion_timestamp = 0
      BY <1>3, <3>2 DEF Page, Get, BoardTypes, UnsetIn
    <3>4. shown' = e
      BY <1>1, <1>3, <3>3 DEF PageEvents
    <3> QED
      BY <2>2, <3>2, <3>4
  <2>3. CASE events' # Nothing
    <3>1. Len(events') # 0
      BY <1>4, <2>3 DEF Nothing
    <3>2. Len(events') \in 1 .. Len(events')
      BY <1>2, <1>4, <3>1
    <3> QED
      BY <1>2, <1>4, <2>1, <2>3, <3>2
  <2> QED
    BY <2>2, <2>3
<1>9. NotOpen'
  BY <1>1 DEF NotOpen
<1> QED
  BY <1>6, <1>7, <1>8, <1>9

-----------------------------------------------------------------------------
(* The camera                                                               *)

LEMMA SettingsBodies ==
  /\ Nothing \in Bodies
  /\ \A k \in Settings : \A v \in 0 .. 1 : Only(k, v) \in Bodies
  /\ camera \in [Settings -> 0 .. 1] => [k \in Settings \ Controls |-> camera[k]] \in Bodies
<1>1. \A K \in SUBSET Settings : \A u \in [K -> 0 .. 1] : u \in Bodies
  BY DEF Bodies
<1>2. Nothing \in [{} -> 0 .. 1]
  BY DEF Nothing
<1>3. \A k \in Settings : \A v \in 0 .. 1 : Only(k, v) \in [{k} -> 0 .. 1]
  BY DEF Only
<1>4. camera \in [Settings -> 0 .. 1] =>
         [k \in Settings \ Controls |-> camera[k]] \in [Settings \ Controls -> 0 .. 1]
  OBVIOUS
<1>5. {} \in SUBSET Settings /\ Settings \ Controls \in SUBSET Settings
      /\ \A k \in Settings : {k} \in SUBSET Settings
  OBVIOUS
<1>6. Nothing \in Bodies
  BY <1>1, <1>2, <1>5
<1>7. \A k \in Settings : \A v \in 0 .. 1 : Only(k, v) \in Bodies
  BY <1>1, <1>3, <1>5
<1>8. camera \in [Settings -> 0 .. 1] => [k \in Settings \ Controls |-> camera[k]] \in Bodies
  BY <1>1, <1>4, <1>5
<1> QED
  BY <1>6, <1>7, <1>8

\* No setting is a field a page is rendered from.
LEMMA BodyFields == ASSUME NEW u \in Bodies PROVE PageFields(u)
<1>1. DOMAIN u \subseteq Settings
  BY DEF Bodies
<1>2. \A k \in Settings : k \notin {"stream_state", "is_websocket_alive", "motion_timestamp"}
  BY SettingsAssumption DEF Switches, Dials
<1> QED
  BY <1>1, <1>2 DEF PageFields

\* The messages that are sent.
LEMMA Sent ==
  /\ Request("GET_SETTINGS", Nothing) \in Requests
  /\ \A k \in Settings : \A v \in 0 .. 1 :
        /\ Request(PutType(k), Only(k, v)) \in Requests
        /\ Announce(k, v) \in Messages
  /\ \A k : [kind |-> "response", type |-> PutType(k), body |-> Nothing] \in Messages
  /\ \A u \in Bodies : [kind |-> "response", type |-> "GET_SETTINGS", body |-> u] \in Messages
<1>1. \A k : PutType(k) \in {"PUT_CONTROL", "PUT_SETTINGS"}
  BY DEF PutType
<1> QED
  BY <1>1, SettingsBodies DEF Request, Requests, Announce, Messages

\* What is read of a command or of its payload is a setting's value.
LEMMA Parsed == \A k : \A p \in DOMAIN Parse(k) : Parse(k)[p] \in 0 .. 1
  BY DEF Parse, parseBool, ParseInt

LEMMA CameraStep ==
  ASSUME CameraTypes, MirrorsNext \/ UNCHANGED allVars
  PROVE  CameraTypes'
<1>0. camera \in [Settings -> 0 .. 1] /\ wire \in Seq(Requests) /\ inbox \in Seq(Messages)
  BY DEF CameraTypes
<1>1. CASE UNCHANGED <<camera, wire, inbox>>
  BY <1>0, <1>1 DEF CameraTypes
<1>2. CASE HandlerStarts
  <2>1. FirstRequests \in Seq(Requests)
    BY Sent DEF FirstRequests
  <2> QED
    BY <1>0, <1>2, <2>1 DEF HandlerStarts, CameraTypes
<1>3. CASE LinkDown
  BY <1>0, <1>3 DEF LinkDown, Nothing, CameraTypes
<1>4. CASE CameraAnswers
  <2> DEFINE m == [kind |-> "response", type |-> "GET_SETTINGS",
                   body |-> [k \in Settings \ Controls |-> camera[k]]]
  <2>1. m \in Messages
    BY <1>0, SettingsBodies, Sent
  <2>2. UNCHANGED camera /\ wire # << >> /\ wire' = Tail(wire) /\ inbox' = Append(inbox, m)
    BY <1>4 DEF CameraAnswers, Asked, Nothing
  <2> HIDE DEF m
  <2> QED
    BY <1>0, <2>1, <2>2 DEF CameraTypes
<1>5. CASE MessageReceived
  BY <1>0, <1>5 DEF MessageReceived, Nothing, CameraTypes
<1>6. ASSUME NEW k \in Settings, CameraObeys(k) PROVE CameraTypes'
  <2> DEFINE v  == Head(wire).body[k]
             m1 == Announce(k, v)
             m2 == [kind |-> "response", type |-> PutType(k), body |-> Nothing]
  <2>1. wire # << >> /\ DOMAIN Head(wire).body = {k}
    BY <1>6 DEF CameraObeys, Asked, Nothing
  <2>2. Head(wire).body \in Bodies
    <3>1. Head(wire) \in Requests
      BY <1>0, <2>1
    <3> QED
      BY <3>1 DEF Requests
  <2>3. v \in 0 .. 1
    BY <2>1, <2>2 DEF Bodies
  <2>4. m1 \in Messages /\ m2 \in Messages
    BY <2>3, Sent
  <2>5. /\ wire' = Tail(wire) /\ camera' = [camera EXCEPT ![k] = v]
        /\ inbox' = inbox \o <<m1, m2>>
    BY <1>6 DEF CameraObeys
  <2> HIDE DEF m1, m2, v
  <2>6. <<m1, m2>> \in Seq(Messages)
    BY <2>4
  <2>7. inbox' \in Seq(Messages)
    BY <1>0, <2>5, <2>6, ConcatProperties
  <2>8. wire' \in Seq(Requests) /\ camera' \in [Settings -> 0 .. 1]
    BY <1>0, <2>1, <2>3, <2>5
  <2> QED
    BY <2>7, <2>8 DEF CameraTypes
<1>7. ASSUME NEW k \in Settings, NEW v \in 0 .. 1, CameraChanges(k, v) PROVE CameraTypes'
  <2>1. Announce(k, v) \in Messages
    BY Sent
  <2> QED
    BY <1>0, <1>7, <2>1 DEF CameraChanges, CameraTypes
<1>8. ASSUME NEW k \in Settings, NEW p \in Payloads, HandleMQTTCommand(k, p) PROVE CameraTypes'
  <2> DEFINE r == Request(PutType(k), Only(k, Parse(k)[p]))
  <2>1. p \in DOMAIN Parse(k) => r \in Requests
    BY Parsed, Sent
  <2>2. /\ UNCHANGED <<camera, inbox>>
        /\ (p \in DOMAIN Parse(k) /\ wire' = Append(wire, r)) \/ UNCHANGED wire
    BY <1>8 DEF HandleMQTTCommand
  <2> HIDE DEF r
  <2> QED
    BY <1>0, <2>1, <2>2 DEF CameraTypes
<1>9. CASE PollTriggers \/ PollArms \/ PollEnds \/ SensorReport
  BY <1>1, <1>9 DEF PollTriggers, PollArms, PollEnds, SensorReport, mirrors, cameraVars
<1>10. CASE \E k \in Numbers : TimerFires(k) \/ TimerClears(k) \/ TimerForgets(k)
  BY <1>1, <1>10 DEF TimerFires, TimerClears, TimerForgets, mirrors, cameraVars
<1>11. CASE \E s \in {"Alive", "Unhealthy"} : StreamChanges(s)
  BY <1>1, <1>11 DEF StreamChanges, cameraVars
<1>12. CASE \E w \in Who : Notify(w)
  BY <1>1, <1>12 DEF Notify, cameraVars
<1>13. CASE LinkUp \/ HandlerEnds \/ CommandReturns
  BY <1>1, <1>13 DEF LinkUp, HandlerEnds, CommandReturns
<1>14. CASE MqttStarts \/ BrokerLost \/ BrokerBack \/ MqttEnds \/ Publish \/ handleState
  BY <1>1, <1>14
  DEF MqttStarts, BrokerLost, BrokerBack, MqttEnds, Publish, handleState, cameraVars
<1>15. CASE PageLoads \/ PageOpens \/ PageBreaks \/ PageReads \/ PageOffers \/ PageRedraws
  BY <1>1, <1>15
  DEF PageLoads, PageOpens, PageBreaks, PageReads, PageOffers, PageRedraws, cameraVars
<1>16. CASE UNCHANGED allVars
  BY <1>1, <1>16 DEF allVars, cameraVars
<1> QED
  BY <1>2, <1>3, <1>4, <1>5, <1>6, <1>7, <1>8, <1>9, <1>10, <1>11, <1>12, <1>13, <1>14, <1>15,
     <1>16
  DEF MirrorsNext

-----------------------------------------------------------------------------
(* All steps                                                                *)

LEMMA InitPage == MirrorsInit => PageInv
<1> SUFFICES ASSUME MirrorsInit PROVE PageInv
  OBVIOUS
<1>1. TypeOK /\ Room
  BY InitHold DEF MirrorsInit, HoldInv
<1>2. /\ board = Nothing /\ notice = [w \in Who |-> Nothing]
      /\ camera = [k \in Settings |-> 0] /\ wire = Nothing /\ inbox = Nothing
      /\ page = "none" /\ calls = 0 /\ reading = Nothing /\ events = Nothing
      /\ shown = Page(Nothing)
  BY DEF MirrorsInit
<1>3. CameraTypes
  BY <1>2 DEF CameraTypes, Nothing
<1>4. BoardTypes /\ NotOpen /\ LastIsBoard
  BY <1>2, NothingFacts DEF BoardTypes, NotOpen, LastIsBoard
<1>5. shown = [stream_state |-> "Unknown", websocket_alive |-> FALSE, motion_timestamp |-> 0]
  BY <1>2, NothingFacts DEF Page, Get
<1>6. PageTypes
  <2>1. Nothing \in Seq(PageEvents) /\ Len(Nothing) <= 1 /\ Len(Nothing) <= EventCap
    BY CapAssumption, NothingFacts DEF Nothing
  <2>2. shown \in PageEvents
    BY <1>5 DEF PageEvents
  <2> QED
    BY <1>2, <2>1, <2>2 DEF PageTypes
<1>7. UnsetIsUnseen
  BY <1>2, <1>5, NothingFacts DEF UnsetIsUnseen, UnsetIn
<1> QED
  BY <1>1, <1>3, <1>4, <1>6, <1>7 DEF PageInv

\* The fields of EventHold's steps.
LEMMA MotionFields ==
  /\ \A f, v : PageFields(Only(Detected(f), v))
  /\ \A f : \A t \in Nat \ {0} : PageFields(Only(Timestamp(f), t))
  /\ PageFields(Nothing)
<1>1. \A f, v : PageFields(Only(Detected(f), v))
  BY DEF Only, PageFields, Detected
<1>2. \A f : \A t \in Nat \ {0} : PageFields(Only(Timestamp(f), t))
  BY DEF Only, PageFields, Timestamp
<1> QED
  BY <1>1, <1>2, NothingFacts DEF PageFields

LEMMA PageStep == PageInv /\ [MirrorsNext]_allVars => PageInv'
<1> SUFFICES ASSUME PageInv, [MirrorsNext]_allVars PROVE PageInv'
  OBVIOUS
<1>0. /\ TypeOK /\ CameraTypes
      /\ BoardTypes /\ PageTypes /\ UnsetIsUnseen /\ NotOpen /\ LastIsBoard
  BY DEF PageInv
<1>1. TypeOK' /\ Room' /\ CameraTypes'
  BY StepsOfHold, HoldTypes, CameraStep DEF PageInv
<1> DEFINE Kept == BoardTypes' /\ PageTypes' /\ UnsetIsUnseen' /\ NotOpen' /\ LastIsBoard'
<1> SUFFICES Kept
  BY <1>1 DEF PageInv
<1>2. ASSUME NEW w \in Who, NEW u, PageFields(u), Store(w, u), UNCHANGED pageVars PROVE Kept
  BY <1>0, <1>2, StoreStep
<1>3. ASSUME UNCHANGED <<board, notice, pageVars>> PROVE Kept
  BY <1>0, <1>3, QuietStep
<1>4. Poller \in Who /\ Reader \in Who /\ Manager \in Who /\ Rtmp \in Who
      /\ \A k \in Numbers : <<"timer", k>> \in Who
  BY DEF Who
<1>5. CASE PollTriggers
  <2>1. PICK f \in Fields :
          Store(Poller, Merge(Only(Detected(f), TRUE), Only(Timestamp(f), armed + 1)))
    BY <1>5 DEF PollTriggers
  <2>2. armed + 1 \in Nat \ {0}
    BY <1>0, BoundAssumption DEF TypeOK
  <2>3. PageFields(Merge(Only(Detected(f), TRUE), Only(Timestamp(f), armed + 1)))
    BY <2>2, MotionFields, MergeFields
  <2> HIDE DEF Kept
  <2> QED
    BY <1>2, <1>4, <1>5, <2>1, <2>3 DEF PollTriggers, mirrors
<1>6. CASE SensorReport
  <2> DEFINE T(f) == IF detected'[f] THEN Only(Timestamp(f), TimerLimit + reports') ELSE Nothing
  <2>1. PICK f \in Fields : Report(f) /\ Store(Reader, Merge(Only(Detected(f), detected'[f]), T(f)))
    BY <1>6 DEF SensorReport
  <2>2. TimerLimit + reports' \in Nat \ {0}
    BY <1>0, <2>1, BoundAssumption DEF TypeOK, Report
  <2>3. PageFields(T(f))
    BY <2>2, MotionFields
  <2> HIDE DEF T, Kept
  <2>4. PageFields(Merge(Only(Detected(f), detected'[f]), T(f)))
    BY <2>3, MotionFields, MergeFields
  <2> QED
    BY <1>2, <1>4, <1>6, <2>1, <2>4 DEF SensorReport, mirrors
<1>7. CASE \E k \in Numbers : TimerClears(k)
  <2>1. PICK k \in Numbers : TimerClears(k)
    BY <1>7
  <2> HIDE DEF Kept
  <2> QED
    BY <1>2, <1>4, <2>1, MotionFields DEF TimerClears, mirrors
<1>8. CASE \E s \in {"Alive", "Unhealthy"} : StreamChanges(s)
  <2>1. PICK s \in {"Alive", "Unhealthy"} : StreamChanges(s)
    BY <1>8
  <2>2. PageFields(Only("stream_state", s))
    BY DEF Only, PageFields
  <2> HIDE DEF Kept
  <2> QED
    BY <1>2, <1>4, <2>1, <2>2 DEF StreamChanges
<1>9. CASE LinkUp \/ LinkDown
  <2>1. \A b \in BOOLEAN : PageFields(Only("is_websocket_alive", b))
    BY DEF Only, PageFields
  <2> HIDE DEF Kept
  <2> QED
    BY <1>2, <1>4, <1>9, <2>1 DEF LinkUp, LinkDown
<1>10. CASE MessageReceived
  <2>1. Head(inbox) \in Messages
    BY <1>0, <1>10 DEF MessageReceived, CameraTypes, Nothing
  <2>2. Reads(Head(inbox)) \in Bodies
    BY <2>1, SettingsBodies DEF Reads, Messages
  <2>3. PageFields(Reads(Head(inbox)))
    BY <2>2, BodyFields
  <2> HIDE DEF Kept
  <2> QED
    BY <1>2, <1>4, <1>10, <2>3 DEF MessageReceived
<1>11. CASE \E w \in Who : Notify(w)
  BY <1>0, <1>11, NotifyStep
<1>12. CASE PageLoads \/ PageOpens \/ PageBreaks \/ PageReads \/ PageOffers \/ PageRedraws
  BY <1>0, <1>12, PageLoadsStep, PageOpensStep, PageBreaksStep, PageReadsStep, PageOffersStep,
     PageRedrawsStep
<1>13. CASE PollArms \/ PollEnds \/ \E k \in Numbers : TimerFires(k) \/ TimerForgets(k)
  BY <1>3, <1>13 DEF PollArms, PollEnds, TimerFires, TimerForgets, mirrors
<1>14. CASE \/ HandlerStarts \/ HandlerEnds \/ CameraAnswers \/ CommandReturns
            \/ \E k \in Settings : CameraObeys(k)
            \/ \E k \in Settings, v \in 0 .. 1 : CameraChanges(k, v)
            \/ \E k \in Settings, p \in Payloads : HandleMQTTCommand(k, p)
  BY <1>3, <1>14
  DEF HandlerStarts, HandlerEnds, CameraAnswers, CommandReturns, CameraObeys, CameraChanges,
      HandleMQTTCommand
<1>15. CASE MqttStarts \/ BrokerLost \/ BrokerBack \/ MqttEnds \/ Publish \/ handleState
  BY <1>3, <1>15 DEF MqttStarts, BrokerLost, BrokerBack, MqttEnds, Publish, handleState
<1>16. CASE UNCHANGED allVars
  BY <1>3, <1>16 DEF allVars
<1> HIDE DEF Kept
<1> QED
  BY <1>5, <1>6, <1>7, <1>8, <1>9, <1>10, <1>11, <1>12, <1>13, <1>14, <1>15, <1>16
  DEF MirrorsNext

\* What travels to the page: every update of the board is told by its writer, each worker reads
\* the whole board, and an event is in the page's channel, in its callback or has been drawn.
THEOREM PageInvariant == MirrorsSpec => []PageInv
<1>1. MirrorsSpec => MirrorsInit /\ [][MirrorsNext]_allVars
  BY PTL DEF MirrorsSpec
<1> QED
  BY <1>1, InitPage, PageStep, PTL

\* Once nothing is under way to an open page it shows what the board holds, unless the last event
\* found its channel full: for any budget, settings and capacity of the channel.
THEOREM PageCorrect == MirrorsSpec => []PageShowsBoard
<1>1. PageInv => PageShowsBoard
  BY DEF PageInv, LastIsBoard, PageShowsBoard
<1> QED
  BY <1>1, PageInvariant, PTL

=============================================================================
