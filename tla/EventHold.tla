----------------------------- MODULE EventHold ------------------------------
(***************************************************************************)
(* The detected flags of polled events and the timers that clear them      *)
(* (pollMessages in pkg/app/app.go).  A polled event sets the flag of its  *)
(* field and arms a timer, after stopping the one recorded in the map; the *)
(* function of a fired timer clears the flag and then deletes the entry of *)
(* the map, whichever timer that names by then.  The sensor data of the    *)
(* websocket writes the same flags, from another goroutine.                *)
(*                                                                         *)
(* There is no clock: an armed timer may fire at any step, between the two *)
(* halves of trigger too, and its function may run late; by default events *)
(* are polled every 30 seconds and held for 30 (main.go:43,47), so that a  *)
(* timer fires just as its field is triggered again.  Timers are named by  *)
(* the order in which they are armed.                                      *)
(*                                                                         *)
(* writer is history: who wrote the flag last.                             *)
(***************************************************************************)
EXTENDS Naturals

CONSTANTS
    Fields,      \* "sound" and "motion"
    Reports,     \* the flags the camera may report over the websocket
    ReportLimit, \* bound on the reports explored
    TimerLimit   \* bound on the polled events explored

ASSUME FieldsAssumption  == Fields # {}
ASSUME ReportsAssumption == Reports \subseteq BOOLEAN
ASSUME BoundAssumption   == TimerLimit \in Nat /\ ReportLimit \in Nat

VARIABLES
    detected,  \* MotionDetected and SoundDetected on the board
    writer,
    timers,    \* the map: the number of a timer, 0 for no entry
    timer,     \* what has become of each timer
    kind,      \* the field it clears
    armed,     \* number of timers so far
    pc,        \* progress of the poller
    at,        \* the field it is triggering
    reports

vars == <<detected, writer, timers, timer, kind, armed, pc, at, reports>>

Numbers == 1 .. TimerLimit

-----------------------------------------------------------------------------
Init ==
    /\ detected = [f \in Fields |-> FALSE]
    /\ writer = [f \in Fields |-> "none"]
    /\ timers = [f \in Fields |-> 0]
    /\ timer = [k \in Numbers |-> "unused"]
    /\ kind = [k \in Numbers |-> CHOOSE f \in Fields : TRUE]
    /\ armed = 0
    /\ pc = "polling"
    /\ at = CHOOSE f \in Fields : TRUE
    /\ reports = 0

\* trigger, first part: the board is updated without the lock of the timers.
Trigger(f) ==
    /\ pc = "polling"
    /\ armed < TimerLimit
    /\ detected' = [detected EXCEPT ![f] = TRUE]
    /\ writer' = [writer EXCEPT ![f] = "trigger"]
    /\ pc' = "arming"
    /\ at' = f
    /\ UNCHANGED <<timers, timer, kind, armed, reports>>

\* The timer recorded for the field is stopped, unless it has fired.
Stopped(f) == [k \in Numbers |->
                  IF k = timers[f] /\ timer[k] = "armed" THEN "stopped" ELSE timer[k]]

\* trigger, second part, under the lock of the timers.
Arm ==
    /\ pc = "arming"
    /\ armed' = armed + 1
    /\ timer' = [Stopped(at) EXCEPT ![armed + 1] = "armed"]
    /\ kind' = [kind EXCEPT ![armed + 1] = at]
    /\ timers' = [timers EXCEPT ![at] = armed + 1]
    /\ pc' = "polling"
    /\ UNCHANGED <<detected, writer, at, reports>>

\* Mutant: the timers are stopped with the poller.
StopsTimers ==
    /\ pc = "polling"
    /\ pc' = "ended"
    /\ timer' = [k \in Numbers |-> IF timer[k] = "armed" THEN "stopped" ELSE timer[k]]
    /\ UNCHANGED <<detected, writer, timers, kind, armed, at, reports>>

\* The context of pollMessages is done; its timers remain.
PollerEnds ==
    /\ pc = "polling"
    /\ pc' = "ended"
    /\ UNCHANGED <<detected, writer, timers, timer, kind, armed, at, reports>>

Fire(k) ==
    /\ timer[k] = "armed"
    /\ timer' = [timer EXCEPT ![k] = "fired"]
    /\ UNCHANGED <<detected, writer, timers, kind, armed, pc, at, reports>>

\* The function of the timer, first part: the board is updated.
ClearFlag(k) ==
    /\ timer[k] = "fired"
    /\ timer' = [timer EXCEPT ![k] = "cleared"]
    /\ detected' = [detected EXCEPT ![kind[k]] = FALSE]
    /\ writer' = [writer EXCEPT ![kind[k]] = "timer"]
    /\ UNCHANGED <<timers, kind, armed, pc, at, reports>>

\* Its second part: the entry is deleted, whichever timer it names.
DeleteEntry(k) ==
    /\ timer[k] = "cleared"
    /\ timer' = [timer EXCEPT ![k] = "through"]
    /\ timers' = [timers EXCEPT ![kind[k]] = 0]
    /\ UNCHANGED <<detected, writer, kind, armed, pc, at, reports>>

\* processSensorData: the camera reports an alert or its end.
Report(f) ==
    /\ reports < ReportLimit
    /\ reports' = reports + 1
    /\ \E value \in Reports : detected' = [detected EXCEPT ![f] = value]
    /\ writer' = [writer EXCEPT ![f] = "camera"]
    /\ UNCHANGED <<timers, timer, kind, armed, pc, at>>

Next ==
    \/ Arm
    \/ PollerEnds
    \/ \E f \in Fields : Trigger(f) \/ Report(f)
    \/ \E k \in Numbers : Fire(k) \/ ClearFlag(k) \/ DeleteEntry(k)

Spec == Init /\ [][Next]_vars

\* The poller goes on, and timers fire and their functions run.
FairSpec ==
    /\ Spec
    /\ WF_vars(Arm)
    /\ \A k \in Numbers : WF_vars(Fire(k) \/ ClearFlag(k) \/ DeleteEntry(k))

-----------------------------------------------------------------------------
(* Properties                                                              *)

\* Every variable has its type.
TypeOK ==
    /\ detected \in [Fields -> BOOLEAN]
    /\ writer \in [Fields -> {"none", "trigger", "timer", "camera"}]
    /\ timers \in [Fields -> 0 .. TimerLimit]
    /\ timer \in [Numbers -> {"unused", "armed", "stopped", "fired", "cleared", "through"}]
    /\ kind \in [Numbers -> Fields]
    /\ armed \in 0 .. TimerLimit
    /\ pc \in {"polling", "arming", "ended"}
    /\ at \in Fields
    /\ reports \in 0 .. ReportLimit

\* The timer armed by the latest event of a field.
Latest(k) == \A j \in Numbers : j > k /\ kind[j] = kind[k] => timer[j] = "unused"

\* "re-triggers during the hold extend the window" (app.go:232-233): until the timer of the
\* latest event fires, the flag is not cleared by the timer of an earlier one.  It does not
\* hold: that timer may have fired before it is stopped.
HoldExtends ==
    \A k \in Numbers :
        timer[k] = "armed" /\ Latest(k) => writer[kind[k]] \in {"trigger", "camera"}

\* A flag a polled event has set has somebody who will clear it, wherever timers fire, whichever
\* entry of the map a late function deletes, and when the poller ends: the event is still being
\* recorded, or a timer of its field is armed or has fired and not cleared the flag yet.
FlagIsTimed ==
    \A f \in Fields :
        detected[f] /\ writer[f] = "trigger" =>
            \/ pc = "arming" /\ at = f
            \/ \E k \in Numbers : kind[k] = f /\ timer[k] \in {"armed", "fired"}

\* What no polled event renews is cleared in the end: a flag does not stay set unless the
\* camera has reported it.
FlagIsCleared ==
    \A f \in Fields :
        (detected[f] /\ writer[f] = "trigger") ~> (~detected[f] \/ writer[f] = "camera")

\* An alert the camera reports stands until the camera takes it back: no timer clears it.
AlertStands ==
    [][ \A f \in Fields :
            detected[f] /\ writer[f] = "camera" => detected'[f] \/ writer'[f] = "camera" ]_vars

-----------------------------------------------------------------------------
(* What every step preserves                                                *)

\* A field is triggered only if there is a timer left to arm.
Room == pc = "arming" => armed < TimerLimit

\* Timers are armed in their order.
InOrder == \A k \in Numbers : k > armed => timer[k] = "unused"

\* The map names a timer of the field: arming stops no timer of another one.
Named == \A f \in Fields : timers[f] # 0 => timers[f] <= armed /\ kind[timers[f]] = f

HoldInv == TypeOK /\ Room /\ InOrder /\ Named /\ FlagIsTimed
=============================================================================
