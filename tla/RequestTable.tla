---------------------------- MODULE RequestTable ----------------------------
(***************************************************************************)
(* Requests and responses on one websocket connection                      *)
(* (pkg/client/websocket_conn.go): SendRequest numbers a request, puts it  *)
(* into resHandlers and sends it; the reader goroutine of the socket looks *)
(* a response up by its id and hands it over on a channel of capacity one; *)
(* the awaiter races the response against a timer and cleans up.           *)
(*                                                                         *)
(* Some requests are sent without calling the awaiter (the first snapshot  *)
(* in App.runWebsocket); commands and streaming requests are awaited, and  *)
(* a streaming request that timed out is sent again as a new request of    *)
(* the same type.  The camera answers a request any number of times, late, *)
(* in any order or never, and the response may carry another type.         *)
(***************************************************************************)
EXTENDS Naturals, Sequences, FiniteSets

CONSTANTS
    Requests,    \* calls of SendRequest
    Awaited,     \* those whose awaiter is called
    Types,       \* RequestType
    Type,        \* Type[r]: the type of request r
    AnswerLimit  \* bound on the responses explored

ASSUME RequestAssumption == IsFiniteSet(Requests) /\ Awaited \subseteq Requests
ASSUME TypeAssumption    == Type \in [Requests -> Types]
ASSUME AnswerAssumption  == AnswerLimit \in Nat

Ids == 1 .. Cardinality(Requests)

\* An empty slot of resHandlers; no result yet.
NoRequest == "none"

ASSUME NoRequestAssumption == NoRequest \notin Requests

VARIABLES
    lastRequestID,  \* WebsocketConnection.lastRequestID
    id,             \* Request.Id, 0 before it is drawn
    resHandlers,    \* the pending request of each id
    pc,             \* progress of the goroutine of each request
    resC,           \* its channel of capacity one
    done,           \* its done channel is closed
    result,         \* what its awaiter returns, as a sequence: <<>> for a timeout
    wire,           \* responses on their way to the reader
    answers,        \* number of responses so far
    reader,         \* progress of handleResponse
    candidate       \* unhandledReqCandidate

vars == <<lastRequestID, id, resHandlers, pc, resC, done, result, wire, answers, reader,
          candidate>>

sender   == <<lastRequestID, id>>
receiver == <<reader, candidate>>

-----------------------------------------------------------------------------
\* of is history: the request the camera answers.
Response == [id : Ids, type : Types, of : Requests]

Init ==
    /\ lastRequestID = 0
    /\ id = [r \in Requests |-> 0]
    /\ resHandlers = [i \in Ids |-> NoRequest]
    /\ pc = [r \in Requests |-> "new"]
    /\ resC = [r \in Requests |-> <<>>]
    /\ done = [r \in Requests |-> FALSE]
    /\ result = [r \in Requests |-> <<>>]
    /\ wire = <<>>
    /\ answers = 0
    /\ reader = "idle"
    /\ candidate = NoRequest

(* SendRequest                                                             *)

\* atomic.AddInt32.
DrawId(r) ==
    /\ pc[r] = "new"
    /\ lastRequestID' = lastRequestID + 1
    /\ id' = [id EXCEPT ![r] = lastRequestID + 1]
    /\ pc' = [pc EXCEPT ![r] = "numbered"]
    /\ UNCHANGED <<resHandlers, resC, done, result, wire, answers, receiver>>

\* Mutant: the request is sent before it is put into the table.
SendFirst(r) ==
    /\ \/ /\ pc[r] = "numbered"
          /\ pc' = [pc EXCEPT ![r] = "sent"]
          /\ UNCHANGED resHandlers
       \/ /\ pc[r] = "sent"
          /\ resHandlers' = [resHandlers EXCEPT ![id[r]] = r]
          /\ pc' = [pc EXCEPT ![r] = IF r \in Awaited THEN "awaiting" ELSE "left"]
    /\ UNCHANGED <<sender, resC, done, result, wire, answers, receiver>>

\* The request goes into the table under the lock, and then to the camera; the caller
\* then calls the awaiter, or leaves.
SendRequest(r) ==
    /\ \/ /\ pc[r] = "numbered"
          /\ resHandlers' = [resHandlers EXCEPT ![id[r]] = r]
          /\ pc' = [pc EXCEPT ![r] = "registered"]
       \/ /\ pc[r] = "registered"
          /\ pc' = [pc EXCEPT ![r] = IF r \in Awaited THEN "awaiting" ELSE "left"]
          /\ UNCHANGED resHandlers
    /\ UNCHANGED <<sender, resC, done, result, wire, answers, receiver>>

(* The awaiter                                                             *)

TimerFires(r) ==
    /\ pc[r] = "awaiting"
    /\ pc' = [pc EXCEPT ![r] = "finishing"]
    /\ UNCHANGED <<sender, resHandlers, resC, done, result, wire, answers, receiver>>

ResponseReceived(r) ==
    /\ pc[r] = "awaiting"
    /\ resC[r] # <<>>
    /\ result' = [result EXCEPT ![r] = resC[r]]
    /\ resC' = [resC EXCEPT ![r] = <<>>]
    /\ pc' = [pc EXCEPT ![r] = "finishing"]
    /\ UNCHANGED <<sender, resHandlers, done, wire, answers, receiver>>

\* Mutant: finish leaves the entry in the table.
FinishLeaking(r) ==
    /\ pc[r] = "finishing"
    /\ done' = [done EXCEPT ![r] = TRUE]
    /\ pc' = [pc EXCEPT ![r] = "returned"]
    /\ UNCHANGED <<sender, resHandlers, resC, result, wire, answers, receiver>>

\* finish: the entry is deleted under the lock, then done is closed.
Finish(r) ==
    /\ \/ /\ pc[r] = "finishing"
          /\ resHandlers' = [resHandlers EXCEPT ![id[r]] = NoRequest]
          /\ pc' = [pc EXCEPT ![r] = "closing"]
          /\ UNCHANGED done
       \/ /\ pc[r] = "closing"
          /\ done' = [done EXCEPT ![r] = TRUE]
          /\ pc' = [pc EXCEPT ![r] = "returned"]
          /\ UNCHANGED resHandlers
    /\ UNCHANGED <<sender, resC, result, wire, answers, receiver>>

(* The camera and the reader                                               *)

\* "sent" is a state of the mutant SendFirst only.
WasSent(r) == pc[r] \in {"sent", "awaiting", "left", "finishing", "closing", "returned"}

CameraAnswers(r) ==
    /\ WasSent(r)
    /\ answers < AnswerLimit
    /\ \E t \in Types : wire' = Append(wire, [id |-> id[r], type |-> t, of |-> r])
    /\ answers' = answers + 1
    /\ UNCHANGED <<sender, resHandlers, pc, resC, done, result, receiver>>

\* Mutant: the type of the response is not compared with that of the request.
MatchesId(res, c) == c # NoRequest

Matches(res, c) == c # NoRequest /\ res.type = Type[c]

\* handleResponse looks the id up under the read lock.
HandleResponse ==
    /\ reader = "idle"
    /\ wire # <<>>
    /\ LET c == resHandlers[Head(wire).id] IN
       IF Matches(Head(wire), c)
       THEN reader' = "found" /\ candidate' = c /\ UNCHANGED wire
       ELSE wire' = Tail(wire) /\ UNCHANGED receiver
    /\ UNCHANGED <<sender, resHandlers, pc, resC, done, result, answers>>

\* It deletes the entry under the lock.
DeleteEntry ==
    /\ reader = "found"
    /\ resHandlers' = [resHandlers EXCEPT ![Head(wire).id] = NoRequest]
    /\ reader' = "deleted"
    /\ UNCHANGED <<sender, pc, resC, done, result, wire, answers, candidate>>

\* Mutant: an unbuffered channel, and no done channel.
HandOverToWaiting ==
    /\ reader = "deleted"
    /\ pc[candidate] = "awaiting"
    /\ resC' = [resC EXCEPT ![candidate] = <<Head(wire)>>]
    /\ wire' = Tail(wire)
    /\ reader' = "idle"
    /\ candidate' = NoRequest
    /\ UNCHANGED <<sender, resHandlers, pc, done, result, answers>>

\* The select of the handler: room in the channel, or done is closed.
HandOver ==
    /\ reader = "deleted"
    /\ \/ /\ resC[candidate] = <<>>
          /\ resC' = [resC EXCEPT ![candidate] = <<Head(wire)>>]
       \/ /\ done[candidate]
          /\ UNCHANGED resC
    /\ wire' = Tail(wire)
    /\ reader' = "idle"
    /\ candidate' = NoRequest
    /\ UNCHANGED <<sender, resHandlers, pc, done, result, answers>>

-----------------------------------------------------------------------------
Reading == HandleResponse \/ DeleteEntry \/ HandOver

Awaiting(r) == TimerFires(r) \/ ResponseReceived(r) \/ Finish(r)

Next ==
    \/ \E r \in Requests : DrawId(r) \/ SendRequest(r) \/ Awaiting(r) \/ CameraAnswers(r)
    \/ Reading

Spec == Init /\ [][Next]_vars

\* The reader and the senders go on, and timers fire.  The camera need not answer.
Fairness ==
    /\ WF_vars(Reading)
    /\ \A r \in Requests : WF_vars(SendRequest(r)) /\ WF_vars(Awaiting(r))

FairSpec == Spec /\ Fairness

-----------------------------------------------------------------------------
(* Properties                                                              *)

Progress == {"new", "numbered", "registered", "sent", "awaiting", "left", "finishing",
             "closing", "returned"}

\* Every variable has its type.
TypeOK ==
    /\ lastRequestID \in Nat
    /\ id \in [Requests -> Nat]
    /\ resHandlers \in [Ids -> Requests \cup {NoRequest}]
    /\ pc \in [Requests -> Progress]
    /\ resC \in [Requests -> Seq(Response)]
    /\ done \in [Requests -> BOOLEAN]
    /\ result \in [Requests -> Seq(Response)]
    /\ wire \in Seq(Response)
    /\ answers \in Nat
    /\ reader \in {"idle", "found", "deleted"}
    /\ candidate \in Requests \cup {NoRequest}

\* An awaiter returns the answer to its own request, with the type it asked for: never
\* the late answer to an earlier request of the same type.
OwnAnswer ==
    \A r \in Requests :
        \A i \in 1 .. Len(result[r]) :
            result[r][i].of = r /\ result[r][i].type = Type[r]

\* An awaiter that has returned leaves nothing behind in the table.
NothingLeft ==
    \A r \in Requests, i \in Ids : pc[r] = "returned" => resHandlers[i] # r

\* The request has had its answer, or has been given up.
Settled(r) == resC[r] # <<>> \/ pc[r] \in {"finishing", "closing", "returned"}

\* The reader throws away an answer of the right type only if the request has been
\* answered before or given up.
NoAnswerLost ==
    [][ (/\ reader = "idle"
         /\ wire # <<>>
         /\ wire' = Tail(wire)
         /\ Head(wire).type = Type[Head(wire).of])
        => Settled(Head(wire).of) ]_vars

\* The reader is never held up by an awaiter that has given up or was never called: it
\* gets to the next message.
ReaderGoesOn == (reader = "deleted") ~> (reader = "idle")

-----------------------------------------------------------------------------
(* What every step preserves                                               *)

\* Ids are drawn one after the other: as many as there are requests that have begun,
\* and no two requests share one.
Numbering ==
    /\ lastRequestID = Cardinality({r \in Requests : pc[r] # "new"})
    /\ \A r \in Requests :
           /\ pc[r] # "sent"
           /\ pc[r] = "new" <=> id[r] = 0
           /\ id[r] <= lastRequestID
    /\ \A q, r \in Requests : id[q] = id[r] /\ id[q] # 0 => q = r

\* An entry is filed under the id of its request, from its registration until finish.
Entries ==
    \A i \in Ids, r \in Requests : resHandlers[i] = r =>
        /\ id[r] = i
        /\ pc[r] \in {"registered", "awaiting", "left", "finishing"}

\* A response on its way bears the id of a request that the camera has seen.
WireOK ==
    \A k \in 1 .. Len(wire) : /\ WasSent(wire[k].of)
                              /\ wire[k].id = id[wire[k].of]

\* The reader has found the request of the response it is working on.
CandidateOK ==
    IF reader = "idle"
    THEN candidate = NoRequest
    ELSE /\ wire # <<>>
         /\ candidate = Head(wire).of
         /\ Head(wire).type = Type[candidate]

\* A channel holds only the answer to its own request.
OwnChannel ==
    \A r \in Requests :
        \A i \in 1 .. Len(resC[r]) : resC[r][i].of = r /\ resC[r][i].type = Type[r]

\* done is closed only by an awaiter that returns.
DoneOK == \A r \in Requests : done[r] => pc[r] = "returned"

\* A request the camera has seen can be found in the table until it is settled, except
\* while the reader is handing its answer over.
Kept ==
    \A r \in Requests :
        pc[r] = "registered" \/ WasSent(r) =>
            \/ resHandlers[id[r]] = r
            \/ Settled(r)
            \/ reader = "deleted" /\ candidate = r

\* The strengthening of OwnAnswer and NothingLeft that every step preserves.
TableInv ==
    /\ TypeOK
    /\ Numbering
    /\ Entries
    /\ WireOK
    /\ CandidateOK
    /\ OwnChannel
    /\ OwnAnswer
    /\ DoneOK
    /\ Kept
=============================================================================
