------------------------- MODULE RequestTableProofs -------------------------
(***************************************************************************)
(* Proofs about RequestTable for any number of requests, with or without   *)
(* an awaiter, and any number of responses.                                *)
(***************************************************************************)
EXTENDS RequestTable, SequenceTheorems, FiniteSetTheorems, TLAPS

\* The requests that have begun.
Begun == {r \in Requests : pc[r] # "new"}

\* The table has a place for every id that has been drawn.
LEMMA IdsFit ==
    ASSUME TypeOK, Numbering
    PROVE  /\ Cardinality(Begun) \in Nat
           /\ Cardinality(Begun) <= Cardinality(Requests)
           /\ \A r \in Requests : pc[r] # "new" => id[r] \in Ids
<1>1. Begun \subseteq Requests /\ IsFiniteSet(Requests)
  BY RequestAssumption DEF Begun
<1>2. /\ Cardinality(Begun) \in Nat
      /\ Cardinality(Requests) \in Nat
      /\ Cardinality(Begun) <= Cardinality(Requests)
  BY <1>1, FS_Subset, FS_CardinalityType
<1>3. ASSUME NEW r \in Requests, pc[r] # "new" PROVE id[r] \in Ids
  <2>1. id[r] \in Nat /\ id[r] # 0 /\ id[r] <= Cardinality(Begun)
    BY <1>3 DEF TypeOK, Numbering, Begun
  <2>2. QED
    BY <1>2, <2>1 DEF Ids
<1>4. QED
  BY <1>2, <1>3

\* A request that draws its id makes the number of those that have begun one larger, and
\* there is a place left for it in the table.
LEMMA OneMoreBegun ==
    ASSUME TypeOK, NEW r \in Requests, DrawId(r)
    PROVE  /\ Cardinality(Begun') = Cardinality(Begun) + 1
           /\ Cardinality(Begun) + 1 <= Cardinality(Requests)
<1>1. /\ IsFiniteSet(Requests)
      /\ Begun \subseteq Requests
      /\ r \notin Begun
      /\ Begun' = Begun \cup {r}
      /\ Begun' \subseteq Requests
  BY RequestAssumption DEF Begun, DrawId, TypeOK
<1>2. IsFiniteSet(Begun) /\ Cardinality(Begun) \in Nat
  BY <1>1, FS_Subset, FS_CardinalityType
<1>3. Cardinality(Begun') = Cardinality(Begun) + 1
  BY <1>1, <1>2, FS_AddElement
<1>4. Cardinality(Begun') <= Cardinality(Requests)
  BY <1>1, FS_Subset
<1>5. QED
  BY <1>3, <1>4

\* What is at each place of a queue after one more element, and without its first.
LEMMA QueueElements ==
    ASSUME NEW S, NEW q \in Seq(S)
    PROVE  /\ \A x \in S : /\ Append(q, x) \in Seq(S)
                           /\ Append(q, x) # <<>>
                           /\ q # <<>> => Append(q, x) # Tail(q)
                           /\ Len(Append(q, x)) = Len(q) + 1
                           /\ \A k \in 1 .. Len(q) + 1 :
                                  Append(q, x)[k] = IF k = Len(q) + 1 THEN x ELSE q[k]
           /\ q # <<>> => /\ Head(q) \in S
                          /\ Len(q) \in Nat /\ Len(q) >= 1
                          /\ Head(q) = q[1]
                          /\ Tail(q) \in Seq(S)
                          /\ Tail(q) # q
                          /\ Len(Tail(q)) = Len(q) - 1
                          /\ \A k \in 1 .. Len(q) - 1 : Tail(q)[k] = q[k + 1]
<1> DEFINE rest == Tail(q)
           more(x) == Append(q, x)
<1>1. Len(q) \in Nat
  BY LenProperties
<1>2. ASSUME q # <<>>
      PROVE  /\ Head(q) \in S
             /\ Head(q) = q[1]
             /\ Len(q) >= 1
             /\ rest \in Seq(S)
             /\ Len(rest) = Len(q) - 1
             /\ \A k \in 1 .. Len(q) - 1 : rest[k] = q[k + 1]
  <2>1. Len(q) # 0
    BY <1>2, EmptySeq
  <2>2. Head(q) = q[1]
    OBVIOUS
  <2>3. /\ Head(q) \in S
        /\ rest \in Seq(S)
        /\ Len(rest) = Len(q) - 1
        /\ \A k \in 1 .. Len(rest) : rest[k] = q[k + 1]
    BY <1>2, HeadTailProperties
  <2> HIDE DEF rest
  <2>4. QED
    BY <1>1, <2>1, <2>2, <2>3
<1>3. ASSUME NEW x \in S
      PROVE  /\ more(x) \in Seq(S)
             /\ more(x) # <<>>
             /\ Len(more(x)) = Len(q) + 1
             /\ \A k \in 1 .. Len(q) + 1 :
                    more(x)[k] = IF k = Len(q) + 1 THEN x ELSE q[k]
  <2>1. /\ more(x) \in Seq(S)
        /\ more(x) # <<>>
        /\ Len(more(x)) = Len(q) + 1
        /\ \A k \in 1 .. Len(q) : more(x)[k] = q[k]
        /\ more(x)[Len(q) + 1] = x
    BY AppendProperties
  <2> HIDE DEF more
  <2>2. QED
    BY <1>1, <2>1
<1> HIDE DEF rest, more
<1>4. q # <<>> => rest # q
  BY <1>1, <1>2
<1>5. \A x \in S : q # <<>> => more(x) # rest
  BY <1>1, <1>2, <1>3
<1>6. QED
  BY <1>1, <1>2, <1>3, <1>4, <1>5 DEF rest, more

-----------------------------------------------------------------------------
\* Initially nothing has been drawn, filed, sent or answered.
LEMMA TableInvInit == Init => TableInv
<1> SUFFICES ASSUME Init PROVE TableInv
  OBVIOUS
<1>1. << >> \in Seq(Response) /\ Len(<< >>) = 0
  OBVIOUS
<1>2. TypeOK
  BY <1>1 DEF Init, TypeOK, Progress
<1>3. Numbering
  <2>1. {r \in Requests : pc[r] # "new"} = {}
    BY DEF Init
  <2>2. lastRequestID = Cardinality({r \in Requests : pc[r] # "new"})
    BY <2>1, FS_EmptySet DEF Init
  <2>3. QED
    BY <2>2 DEF Init, Numbering
<1>4. Entries /\ CandidateOK /\ DoneOK
  BY NoRequestAssumption DEF Init, Entries, CandidateOK, DoneOK
<1>5. WireOK /\ OwnChannel /\ OwnAnswer
  BY <1>1 DEF Init, WireOK, OwnChannel, OwnAnswer
<1>6. Kept
  BY DEF Init, Kept, WasSent
<1>7. QED
  BY <1>2, <1>3, <1>4, <1>5, <1>6 DEF TableInv

\* Every step keeps the types.
LEMMA TypeStep == TableInv /\ [Next]_vars => TypeOK'
<1> SUFFICES ASSUME TableInv, [Next]_vars PROVE TypeOK'
  OBVIOUS
<1> USE DEF sender, receiver
<1>0. TypeOK /\ Numbering /\ CandidateOK
  BY DEF TableInv
<1>1. ASSUME NEW r \in Requests, DrawId(r) PROVE TypeOK'
  BY <1>0, <1>1 DEF TypeOK, DrawId, Progress
<1>2. ASSUME NEW r \in Requests, SendRequest(r) PROVE TypeOK'
  BY <1>0, <1>2 DEF TypeOK, SendRequest, Progress
<1>3. ASSUME NEW r \in Requests, TimerFires(r) PROVE TypeOK'
  BY <1>0, <1>3 DEF TypeOK, TimerFires, Progress
<1>4. ASSUME NEW r \in Requests, ResponseReceived(r) PROVE TypeOK'
  <2>1. resC[r] \in Seq(Response) /\ << >> \in Seq(Response)
    BY <1>0 DEF TypeOK
  <2>2. QED
    BY <1>0, <1>4, <2>1 DEF TypeOK, ResponseReceived, Progress
<1>5. ASSUME NEW r \in Requests, Finish(r) PROVE TypeOK'
  BY <1>0, <1>5 DEF TypeOK, Finish, Progress
<1>6. ASSUME NEW r \in Requests, CameraAnswers(r) PROVE TypeOK'
  <2>1. PICK t \in Types : wire' = Append(wire, [id |-> id[r], type |-> t, of |-> r])
    BY <1>6 DEF CameraAnswers
  <2>2. id[r] \in Ids
    BY <1>0, <1>6, IdsFit DEF CameraAnswers, WasSent
  <2>3. [id |-> id[r], type |-> t, of |-> r] \in Response /\ wire \in Seq(Response)
    BY <1>0, <2>2 DEF Response, TypeOK
  <2>4. wire' \in Seq(Response)
    BY <2>1, <2>3, QueueElements
  <2>5. QED
    BY <1>0, <1>6, <2>4 DEF TypeOK, CameraAnswers
<1>7. ASSUME HandleResponse PROVE TypeOK'
  <2>1. wire \in Seq(Response) /\ wire # <<>>
    BY <1>0, <1>7 DEF TypeOK, HandleResponse
  <2>2. Tail(wire) \in Seq(Response) /\ Head(wire) \in Response
    BY <2>1, QueueElements
  <2>3. resHandlers[Head(wire).id] \in Requests \cup {NoRequest}
    BY <1>0, <2>2 DEF TypeOK, Response
  <2>4. QED
    BY <1>0, <1>7, <2>2, <2>3 DEF TypeOK, HandleResponse
<1>8. ASSUME DeleteEntry PROVE TypeOK'
  BY <1>0, <1>8 DEF TypeOK, DeleteEntry
<1>9. ASSUME HandOver PROVE TypeOK'
  <2>1. wire \in Seq(Response) /\ wire # <<>>
    BY <1>0, <1>9 DEF TypeOK, HandOver, CandidateOK
  <2>2. Tail(wire) \in Seq(Response) /\ Head(wire) \in Response
    BY <2>1, QueueElements
  <2>3. <<Head(wire)>> \in Seq(Response)
    BY <2>2
  <2>4. QED
    BY <1>0, <1>9, <2>2, <2>3 DEF TypeOK, HandOver
<1>10. CASE UNCHANGED vars
  BY <1>0, <1>10 DEF TypeOK, vars
<1>11. QED
  BY <1>1, <1>2, <1>3, <1>4, <1>5, <1>6, <1>7, <1>8, <1>9, <1>10 DEF Next, Reading, Awaiting

\* Every step keeps the numbering of the requests.
LEMMA NumberingStep == TableInv /\ [Next]_vars => Numbering'
<1> SUFFICES ASSUME TableInv, [Next]_vars PROVE Numbering'
  OBVIOUS
<1> USE DEF sender, receiver
<1>0. TypeOK /\ Numbering
  BY DEF TableInv
<1>1. ASSUME NEW r \in Requests, DrawId(r) PROVE Numbering'
  <2>1. lastRequestID' = Cardinality(Begun')
    <3>1. lastRequestID = Cardinality(Begun)
      BY <1>0 DEF Numbering, Begun
    <3>2. QED
      BY <3>1, <1>0, <1>1, OneMoreBegun DEF DrawId
  <2>2. /\ lastRequestID \in Nat
        /\ \A q \in Requests : /\ id[q] \in Nat /\ id[q] <= lastRequestID
                               /\ pc[q] # "sent"
                               /\ pc[q] = "new" <=> id[q] = 0
        /\ \A p, q \in Requests : id[p] = id[q] /\ id[p] # 0 => p = q
    BY <1>0 DEF TypeOK, Numbering
  <2>3. /\ lastRequestID' = lastRequestID + 1
        /\ \A q \in Requests : id'[q] = IF q = r THEN lastRequestID + 1 ELSE id[q]
        /\ \A q \in Requests : pc'[q] = IF q = r THEN "numbered" ELSE pc[q]
    BY <1>0, <1>1 DEF TypeOK, DrawId
  <2>4. /\ \A q \in Requests : /\ pc'[q] # "sent"
                               /\ pc'[q] = "new" <=> id'[q] = 0
                               /\ id'[q] <= lastRequestID'
        /\ \A p, q \in Requests : id'[p] = id'[q] /\ id'[p] # 0 => p = q
    BY <2>2, <2>3
  <2>5. QED
    BY <2>1, <2>4 DEF Numbering, Begun
<1>2. ASSUME UNCHANGED sender,
             \A q \in Requests : pc'[q] # "sent" /\ (pc'[q] = "new" <=> pc[q] = "new")
      PROVE  Numbering'
  <2>1. {q \in Requests : pc'[q] # "new"} = {q \in Requests : pc[q] # "new"}
    BY <1>2
  <2>2. QED
    BY <1>0, <1>2, <2>1 DEF Numbering
<1>3. ASSUME NEW r \in Requests, SendRequest(r) \/ Awaiting(r) PROVE Numbering'
  <2>1. UNCHANGED sender
    BY <1>3 DEF SendRequest, Awaiting, TimerFires, ResponseReceived, Finish
  <2>2. \A q \in Requests : pc'[q] # "sent" /\ (pc'[q] = "new" <=> pc[q] = "new")
    BY <1>0, <1>3
    DEF TypeOK, Numbering, SendRequest, Awaiting, TimerFires, ResponseReceived, Finish
  <2>3. QED
    BY <1>2, <2>1, <2>2
<1>4. CASE Reading \/ UNCHANGED vars
  BY <1>0, <1>2, <1>4 DEF Numbering, Reading, HandleResponse, DeleteEntry, HandOver, vars
<1>5. ASSUME NEW r \in Requests, CameraAnswers(r) PROVE Numbering'
  BY <1>0, <1>2, <1>5 DEF Numbering, CameraAnswers
<1>6. QED
  BY <1>1, <1>3, <1>4, <1>5 DEF Next

\* Every step keeps the table in order.
LEMMA EntriesStep == TableInv /\ [Next]_vars => Entries'
<1> SUFFICES ASSUME TableInv, [Next]_vars PROVE Entries'
  OBVIOUS
<1> USE DEF sender, receiver
<1>0. TypeOK /\ Numbering /\ Entries
  BY DEF TableInv
<1>1. ASSUME NEW r \in Requests, DrawId(r) PROVE Entries'
  BY <1>0, <1>1 DEF TypeOK, Entries, DrawId
<1>2. ASSUME NEW r \in Requests, SendRequest(r) PROVE Entries'
  <2>1. CASE pc[r] = "numbered"
    <3>1. /\ UNCHANGED id
          /\ \A j \in Ids : resHandlers'[j] = IF j = id[r] THEN r ELSE resHandlers[j]
          /\ \A q \in Requests : pc'[q] = IF q = r THEN "registered" ELSE pc[q]
      BY <1>0, <1>2, <2>1 DEF TypeOK, SendRequest
    <3>2. QED
      BY <1>0, <3>1 DEF Entries
  <2>2. CASE pc[r] = "registered"
    <3>1. /\ UNCHANGED <<id, resHandlers>>
          /\ \A q \in Requests : q # r => pc'[q] = pc[q]
          /\ pc'[r] \in {"awaiting", "left"}
      BY <1>0, <1>2, <2>2 DEF TypeOK, SendRequest
    <3>2. QED
      BY <1>0, <3>1 DEF Entries
  <2>3. QED
    BY <1>2, <2>1, <2>2 DEF SendRequest
<1>3. ASSUME NEW r \in Requests, TimerFires(r) \/ ResponseReceived(r) PROVE Entries'
  <2>1. /\ UNCHANGED <<id, resHandlers>>
        /\ pc[r] = "awaiting"
        /\ \A q \in Requests : pc'[q] = IF q = r THEN "finishing" ELSE pc[q]
    BY <1>0, <1>3 DEF TypeOK, TimerFires, ResponseReceived
  <2>2. QED
    BY <1>0, <2>1 DEF Entries
<1>4. ASSUME NEW r \in Requests, Finish(r) PROVE Entries'
  <2>1. CASE pc[r] = "finishing"
    <3>1. /\ UNCHANGED id
          /\ \A j \in Ids : resHandlers'[j] = IF j = id[r] THEN NoRequest ELSE resHandlers[j]
          /\ \A q \in Requests : q # r => pc'[q] = pc[q]
      BY <1>0, <1>4, <2>1 DEF TypeOK, Finish
    <3>2. QED
      BY <1>0, <3>1, NoRequestAssumption DEF Entries
  <2>2. CASE pc[r] = "closing"
    <3>1. /\ UNCHANGED <<id, resHandlers>>
          /\ \A q \in Requests : q # r => pc'[q] = pc[q]
      BY <1>0, <1>4, <2>2 DEF TypeOK, Finish
    <3>2. QED
      BY <1>0, <2>2, <3>1 DEF Entries
  <2>3. QED
    BY <1>4, <2>1, <2>2 DEF Finish
<1>5. ASSUME NEW r \in Requests, CameraAnswers(r) PROVE Entries'
  BY <1>0, <1>5 DEF Entries, CameraAnswers
<1>6. CASE HandleResponse \/ HandOver \/ UNCHANGED vars
  BY <1>0, <1>6 DEF Entries, HandleResponse, HandOver, vars
<1>7. CASE DeleteEntry
  BY <1>0, <1>7, NoRequestAssumption DEF TypeOK, Entries, DeleteEntry
<1>8. QED
  BY <1>1, <1>2, <1>3, <1>4, <1>5, <1>6, <1>7 DEF Next, Reading, Awaiting

\* Every step keeps the responses on their way those of requests the camera has seen.
LEMMA WireStep == TableInv /\ [Next]_vars => WireOK'
<1> SUFFICES ASSUME TableInv, [Next]_vars PROVE WireOK'
  OBVIOUS
<1> USE DEF sender, receiver
<1>0. TypeOK /\ Numbering /\ WireOK /\ CandidateOK
  BY DEF TableInv
<1>1. /\ Len(wire) \in Nat
      /\ \A k \in 1 .. Len(wire) : wire[k] \in Response /\ wire[k].of \in Requests
  <2>1. wire \in Seq(Response)
    BY <1>0 DEF TypeOK
  <2>2. /\ Len(wire) \in Nat
        /\ \A k \in 1 .. Len(wire) : wire[k] \in Response
    BY <2>1, LenProperties, ElementOfSeq
  <2>3. QED
    BY <2>2 DEF Response
<1>2. ASSUME UNCHANGED wire,
             \A q \in Requests : WasSent(q) => WasSent(q)' /\ id'[q] = id[q]
      PROVE  WireOK'
  BY <1>0, <1>1, <1>2 DEF WireOK
<1>3. ASSUME NEW r \in Requests, DrawId(r) \/ SendRequest(r) PROVE WireOK'
  <2>1. \A q \in Requests : WasSent(q) => WasSent(q)' /\ id'[q] = id[q]
    BY <1>0, <1>3 DEF TypeOK, WasSent, DrawId, SendRequest
  <2>2. QED
    BY <1>2, <1>3, <2>1 DEF DrawId, SendRequest
<1>4. ASSUME NEW r \in Requests, Awaiting(r) PROVE WireOK'
  <2>1. \A q \in Requests : WasSent(q) => WasSent(q)' /\ id'[q] = id[q]
    BY <1>0, <1>4 DEF TypeOK, WasSent, Awaiting, TimerFires, ResponseReceived, Finish
  <2>2. QED
    BY <1>2, <1>4, <2>1 DEF Awaiting, TimerFires, ResponseReceived, Finish
<1>5. ASSUME NEW r \in Requests, CameraAnswers(r) PROVE WireOK'
  <2>1. PICK t \in Types : wire' = Append(wire, [id |-> id[r], type |-> t, of |-> r])
    BY <1>5 DEF CameraAnswers
  <2>2. id[r] \in Ids
    BY <1>0, <1>5, IdsFit DEF CameraAnswers, WasSent
  <2> DEFINE res == [id |-> id[r], type |-> t, of |-> r]
  <2>3. res \in Response /\ wire \in Seq(Response)
    BY <1>0, <2>2 DEF Response, TypeOK
  <2>4. res.of = r /\ res.id = id[r]
    OBVIOUS
  <2> HIDE DEF res
  <2>5. /\ Len(wire') = Len(wire) + 1
        /\ \A k \in 1 .. Len(wire) + 1 : wire'[k] = IF k = Len(wire) + 1 THEN res ELSE wire[k]
    BY <2>1, <2>3, QueueElements DEF res
  <2>6. UNCHANGED <<id, pc>> /\ WasSent(r)
    BY <1>5 DEF CameraAnswers
  <2>7. QED
    BY <1>0, <1>1, <2>4, <2>5, <2>6 DEF WireOK, WasSent
<1>6. CASE HandleResponse \/ HandOver
  <2>1. wire # <<>> /\ UNCHANGED <<id, pc>> /\ wire' \in {wire, Tail(wire)}
    BY <1>0, <1>6 DEF HandleResponse, HandOver, CandidateOK
  <2>2. CASE wire' = wire
    BY <1>2, <2>1, <2>2 DEF WasSent
  <2>3. CASE wire' = Tail(wire)
    <3>1. /\ Len(wire') = Len(wire) - 1
          /\ \A k \in 1 .. Len(wire) - 1 : wire'[k] = wire[k + 1]
      BY <1>0, <2>1, <2>3, QueueElements DEF TypeOK
    <3>2. \A k \in 1 .. Len(wire') : k + 1 \in 1 .. Len(wire) /\ wire'[k] = wire[k + 1]
      BY <1>1, <3>1
    <3>3. QED
      BY <1>0, <2>1, <3>2 DEF WireOK, WasSent
  <2>4. QED
    BY <2>1, <2>2, <2>3
<1>7. CASE DeleteEntry \/ UNCHANGED vars
  BY <1>2, <1>7 DEF DeleteEntry, vars, WasSent
<1>8. QED
  BY <1>3, <1>4, <1>5, <1>6, <1>7 DEF Next, Reading

\* The entry of the response at the head of the wire is that of the request it answers.
LEMMA HeadIsOwn ==
    ASSUME TableInv, wire # <<>>
    PROVE  /\ Head(wire) \in Response
           /\ WasSent(Head(wire).of)
           /\ Head(wire).id = id[Head(wire).of]
           /\ Head(wire).id \in Ids
           /\ \A r \in Requests : resHandlers[Head(wire).id] = r => r = Head(wire).of
<1>0. TypeOK /\ Numbering /\ Entries /\ WireOK
  BY DEF TableInv
<1>1. /\ Head(wire) \in Response
      /\ Head(wire) = wire[1]
      /\ 1 \in 1 .. Len(wire)
  BY <1>0, QueueElements DEF TypeOK
<1>2. WasSent(Head(wire).of) /\ Head(wire).id = id[Head(wire).of]
  BY <1>0, <1>1 DEF WireOK
<1>3. Head(wire).of \in Requests /\ Head(wire).id \in Ids
  BY <1>1 DEF Response
<1>4. id[Head(wire).of] # 0
  BY <1>0, <1>2, <1>3 DEF Numbering, WasSent
<1>5. \A r \in Requests : resHandlers[Head(wire).id] = r => r = Head(wire).of
  BY <1>0, <1>2, <1>3, <1>4 DEF Entries, Numbering
<1>6. QED
  BY <1>1, <1>2, <1>3, <1>5

\* An answer that is added to the wire leaves its head alone.
LEMMA HeadStays ==
    ASSUME TypeOK, Numbering, NEW r \in Requests, CameraAnswers(r)
    PROVE  wire # <<>> => wire' # <<>> /\ Head(wire') = Head(wire)
<1> SUFFICES ASSUME wire # <<>> PROVE wire' # <<>> /\ Head(wire') = Head(wire)
  OBVIOUS
<1>1. PICK t \in Types : wire' = Append(wire, [id |-> id[r], type |-> t, of |-> r])
  BY DEF CameraAnswers
<1>2. id[r] \in Ids
  BY IdsFit DEF CameraAnswers, WasSent
<1> DEFINE res == [id |-> id[r], type |-> t, of |-> r]
<1>3. res \in Response /\ wire \in Seq(Response)
  BY <1>2 DEF Response, TypeOK
<1> HIDE DEF res
<1>4. /\ Len(wire) \in Nat
      /\ Len(wire) >= 1
      /\ Head(wire) = wire[1]
      /\ wire' \in Seq(Response)
      /\ wire' # <<>>
      /\ \A k \in 1 .. Len(wire) + 1 : wire'[k] = IF k = Len(wire) + 1 THEN res ELSE wire[k]
  BY <1>1, <1>3, QueueElements DEF res
<1>5. wire'[1] = wire[1]
  BY <1>4
<1>6. Head(wire') = wire'[1]
  BY <1>4, QueueElements
<1>7. QED
  BY <1>4, <1>5, <1>6

\* Every step keeps the reader on the request of the response it works on.
LEMMA CandidateStep == TableInv /\ [Next]_vars => CandidateOK'
<1> SUFFICES ASSUME TableInv, [Next]_vars PROVE CandidateOK'
  OBVIOUS
<1> USE DEF sender, receiver
<1>0. TypeOK /\ Numbering /\ CandidateOK
  BY DEF TableInv
<1>1. CASE UNCHANGED <<reader, candidate, wire>>
  BY <1>0, <1>1 DEF CandidateOK
<1>2. ASSUME NEW r \in Requests, DrawId(r) \/ SendRequest(r) \/ Awaiting(r)
      PROVE  CandidateOK'
  BY <1>1, <1>2
  DEF DrawId, SendRequest, Awaiting, TimerFires, ResponseReceived, Finish
<1>3. ASSUME NEW r \in Requests, CameraAnswers(r) PROVE CandidateOK'
  <2>1. UNCHANGED <<reader, candidate>>
    BY <1>3 DEF CameraAnswers
  <2>2. wire # <<>> => wire' # <<>> /\ Head(wire') = Head(wire)
    BY <1>0, <1>3, HeadStays
  <2>3. QED
    BY <1>0, <2>1, <2>2 DEF CandidateOK
<1>4. CASE HandleResponse
  <2> DEFINE c == resHandlers[Head(wire).id]
  <2>1. reader = "idle" /\ wire # <<>>
    BY <1>4 DEF HandleResponse
  <2>2. CASE Matches(Head(wire), c)
    <3>1. /\ reader' = "found" /\ candidate' = c /\ wire' = wire
          /\ c # NoRequest /\ Head(wire).type = Type[c]
      BY <1>4, <2>2 DEF HandleResponse, Matches
    <3>2. c = Head(wire).of
      BY <1>0, <2>1, <3>1, HeadIsOwn DEF TypeOK
    <3>3. QED
      BY <2>1, <3>1, <3>2 DEF CandidateOK
  <2>3. CASE ~Matches(Head(wire), c)
    BY <1>0, <1>4, <2>1, <2>3 DEF HandleResponse, CandidateOK
  <2>4. QED
    BY <2>2, <2>3
<1>5. CASE DeleteEntry
  BY <1>0, <1>5 DEF DeleteEntry, CandidateOK
<1>6. CASE HandOver
  BY <1>6 DEF HandOver, CandidateOK
<1>7. CASE UNCHANGED vars
  BY <1>1, <1>7 DEF vars
<1>8. QED
  BY <1>2, <1>3, <1>4, <1>5, <1>6, <1>7 DEF Next, Reading

\* Every step keeps the answers in the channels, and those returned, those of their
\* requests; done is closed only by an awaiter that returns.
LEMMA AnswerStep == TableInv /\ [Next]_vars => OwnChannel' /\ OwnAnswer' /\ DoneOK'
<1> SUFFICES ASSUME TableInv, [Next]_vars PROVE OwnChannel' /\ OwnAnswer' /\ DoneOK'
  OBVIOUS
<1> USE DEF sender, receiver
<1>0. TypeOK /\ CandidateOK /\ OwnChannel /\ OwnAnswer /\ DoneOK
  BY DEF TableInv
<1>1. ASSUME UNCHANGED <<resC, result, done>>,
             \A q \in Requests : pc[q] = "returned" => pc'[q] = "returned"
      PROVE  OwnChannel' /\ OwnAnswer' /\ DoneOK'
  BY <1>0, <1>1 DEF OwnChannel, OwnAnswer, DoneOK
<1>2. ASSUME NEW r \in Requests,
             DrawId(r) \/ SendRequest(r) \/ TimerFires(r) \/ CameraAnswers(r)
      PROVE  OwnChannel' /\ OwnAnswer' /\ DoneOK'
  <2>1. \A q \in Requests : pc[q] = "returned" => pc'[q] = "returned"
    BY <1>0, <1>2 DEF TypeOK, DrawId, SendRequest, TimerFires, CameraAnswers
  <2>2. QED
    BY <1>1, <1>2, <2>1 DEF DrawId, SendRequest, TimerFires, CameraAnswers
<1>3. ASSUME NEW r \in Requests, ResponseReceived(r)
      PROVE  OwnChannel' /\ OwnAnswer' /\ DoneOK'
  <2>1. /\ \A q \in Requests : resC'[q] = IF q = r THEN <<>> ELSE resC[q]
        /\ \A q \in Requests : result'[q] = IF q = r THEN resC[r] ELSE result[q]
        /\ \A q \in Requests : pc[q] = "returned" => pc'[q] = "returned"
        /\ UNCHANGED done
    BY <1>0, <1>3 DEF TypeOK, ResponseReceived
  <2>2. Len(<<>>) = 0
    OBVIOUS
  <2>3. OwnChannel'
    BY <1>0, <2>1, <2>2 DEF OwnChannel
  <2>4. OwnAnswer' /\ DoneOK'
    BY <1>0, <2>1 DEF OwnChannel, OwnAnswer, DoneOK
  <2>5. QED
    BY <2>3, <2>4
<1>4. ASSUME NEW r \in Requests, Finish(r)
      PROVE  OwnChannel' /\ OwnAnswer' /\ DoneOK'
  <2>1. /\ UNCHANGED <<resC, result>>
        /\ \A q \in Requests : done'[q] => done[q] \/ pc'[q] = "returned"
        /\ \A q \in Requests : q # r => pc'[q] = pc[q]
        /\ pc[r] # "returned"
    BY <1>0, <1>4 DEF TypeOK, Finish
  <2>2. OwnChannel' /\ OwnAnswer'
    BY <1>0, <2>1 DEF OwnChannel, OwnAnswer
  <2>3. DoneOK'
    BY <1>0, <2>1 DEF DoneOK
  <2>4. QED
    BY <2>2, <2>3
<1>5. CASE HandleResponse \/ DeleteEntry \/ UNCHANGED vars
  BY <1>1, <1>5 DEF HandleResponse, DeleteEntry, vars
<1>6. CASE HandOver
  <2>1. Head(wire).of = candidate /\ Head(wire).type = Type[candidate]
    BY <1>0, <1>6 DEF HandOver, CandidateOK
  <2>2. /\ UNCHANGED <<result, done, pc>>
        /\ \A q \in Requests : resC'[q] \in {resC[q], IF q = candidate THEN <<Head(wire)>>
                                                                     ELSE resC[q]}
    BY <1>0, <1>6 DEF TypeOK, HandOver
  <2>3. /\ Len(<<Head(wire)>>) = 1
        /\ <<Head(wire)>>[1] = Head(wire)
    OBVIOUS
  <2>4. OwnChannel'
    BY <1>0, <2>1, <2>2, <2>3 DEF OwnChannel
  <2>5. QED
    BY <1>0, <2>2, <2>4 DEF OwnAnswer, DoneOK
<1>7. QED
  BY <1>2, <1>3, <1>4, <1>5, <1>6 DEF Next, Reading, Awaiting

\* Every step keeps an unsettled request where its answer can be found.
LEMMA KeptStep == TableInv /\ [Next]_vars => Kept'
<1> SUFFICES ASSUME TableInv, [Next]_vars PROVE Kept'
  OBVIOUS
<1> USE DEF sender, receiver
<1>0. TypeOK /\ Numbering /\ Entries /\ CandidateOK /\ DoneOK /\ Kept
  BY DEF TableInv
<1> SUFFICES ASSUME NEW q \in Requests,
                    pc'[q] = "registered" \/ WasSent(q)',
                    ~Settled(q)'
             PROVE  resHandlers'[id'[q]] = q \/ (reader' = "deleted" /\ candidate' = q)
  BY DEF Kept
<1>1. ASSUME pc[q] = "registered" \/ WasSent(q), ~Settled(q),
             UNCHANGED <<id, resHandlers, reader, candidate>>
      PROVE  resHandlers'[id'[q]] = q \/ (reader' = "deleted" /\ candidate' = q)
  BY <1>0, <1>1 DEF Kept
<1>2. ASSUME NEW r \in Requests, DrawId(r)
      PROVE  resHandlers'[id'[q]] = q \/ (reader' = "deleted" /\ candidate' = q)
  BY <1>0, <1>2 DEF TypeOK, DrawId, WasSent, Settled, Kept
<1>3. ASSUME NEW r \in Requests, SendRequest(r)
      PROVE  resHandlers'[id'[q]] = q \/ (reader' = "deleted" /\ candidate' = q)
  <2>1. CASE pc[r] = "numbered"
    <3>1. /\ UNCHANGED <<id, resC, reader, candidate>>
          /\ resHandlers' = [resHandlers EXCEPT ![id[r]] = r]
          /\ \A p \in Requests : pc'[p] = IF p = r THEN "registered" ELSE pc[p]
      BY <1>0, <1>3, <2>1 DEF TypeOK, SendRequest
    <3>2. id[r] \in Ids
      BY <1>0, <2>1, IdsFit
    <3>3. CASE q = r
      BY <1>0, <3>1, <3>2, <3>3 DEF TypeOK
    <3>4. CASE q # r
      <4>1. (pc[q] = "registered" \/ WasSent(q)) /\ ~Settled(q)
        BY <3>1, <3>4 DEF WasSent, Settled
      <4>2. id[q] # id[r]
        BY <1>0, <2>1, <3>4 DEF Numbering
      <4>3. resHandlers'[id[q]] = resHandlers[id[q]]
        BY <1>0, <3>1, <4>2, <4>1, IdsFit DEF TypeOK, WasSent
      <4>4. QED
        BY <1>0, <3>1, <4>1, <4>3 DEF Kept
    <3>5. QED
      BY <3>3, <3>4
  <2>2. CASE pc[r] = "registered"
    <3>1. /\ UNCHANGED <<id, resHandlers, resC, reader, candidate>>
          /\ \A p \in Requests : p # r => pc'[p] = pc[p]
      BY <1>0, <1>3, <2>2 DEF TypeOK, SendRequest
    <3>2. (pc[q] = "registered" \/ WasSent(q)) /\ ~Settled(q)
      BY <2>2, <3>1 DEF WasSent, Settled
    <3>3. QED
      BY <1>1, <3>1, <3>2
  <2>3. QED
    BY <1>3, <2>1, <2>2 DEF SendRequest
<1>4. ASSUME NEW r \in Requests, TimerFires(r) \/ ResponseReceived(r)
      PROVE  resHandlers'[id'[q]] = q \/ (reader' = "deleted" /\ candidate' = q)
  <2>1. /\ UNCHANGED <<id, resHandlers, reader, candidate>>
        /\ pc'[r] = "finishing"
        /\ \A p \in Requests : p # r => pc'[p] = pc[p] /\ resC'[p] = resC[p]
    BY <1>0, <1>4 DEF TypeOK, TimerFires, ResponseReceived
  <2>2. q # r
    BY <2>1 DEF Settled
  <2>3. QED
    BY <1>1, <2>1, <2>2 DEF WasSent, Settled
<1>5. ASSUME NEW r \in Requests, Finish(r)
      PROVE  resHandlers'[id'[q]] = q \/ (reader' = "deleted" /\ candidate' = q)
  <2>1. /\ UNCHANGED <<id, resC, reader, candidate>>
        /\ resHandlers' \in {resHandlers, [resHandlers EXCEPT ![id[r]] = NoRequest]}
        /\ pc'[r] \in {"closing", "returned"}
        /\ \A p \in Requests : p # r => pc'[p] = pc[p]
        /\ pc[r] # "new"
    BY <1>0, <1>5 DEF TypeOK, Finish
  <2>2. q # r /\ (pc[q] = "registered" \/ WasSent(q)) /\ ~Settled(q)
    BY <2>1 DEF WasSent, Settled
  <2>3. id[q] # id[r]
    BY <1>0, <2>1, <2>2 DEF Numbering
  <2>4. id[q] \in Ids
    BY <1>0, <2>2, IdsFit DEF WasSent
  <2>5. resHandlers'[id[q]] = resHandlers[id[q]]
    BY <1>0, <2>1, <2>3, <2>4 DEF TypeOK
  <2>6. QED
    BY <1>0, <2>1, <2>2, <2>5 DEF Kept
<1>6. ASSUME NEW r \in Requests, CameraAnswers(r)
      PROVE  resHandlers'[id'[q]] = q \/ (reader' = "deleted" /\ candidate' = q)
  BY <1>1, <1>6 DEF CameraAnswers, WasSent, Settled
<1>7. CASE HandleResponse
  <2>1. UNCHANGED <<id, resHandlers, pc, resC>> /\ reader = "idle"
    BY <1>7 DEF HandleResponse
  <2>2. QED
    BY <1>0, <2>1 DEF Kept, WasSent, Settled
<1>8. CASE DeleteEntry
  <2>1. /\ UNCHANGED <<id, pc, resC, candidate>>
        /\ reader = "found" /\ reader' = "deleted"
        /\ resHandlers' = [resHandlers EXCEPT ![Head(wire).id] = NoRequest]
    BY <1>8 DEF DeleteEntry
  <2>2. (pc[q] = "registered" \/ WasSent(q)) /\ ~Settled(q)
    BY <2>1 DEF WasSent, Settled
  <2>3. resHandlers[id[q]] = q
    BY <1>0, <2>1, <2>2 DEF Kept
  <2>4. id[q] \in Ids
    BY <1>0, <2>2, IdsFit DEF WasSent
  <2>5. CASE id[q] = Head(wire).id
    <3>1. wire # <<>> /\ candidate = Head(wire).of
      BY <1>0, <2>1 DEF CandidateOK
    <3>2. q = candidate
      BY <2>3, <2>5, <3>1, HeadIsOwn
    <3>3. QED
      BY <2>1, <3>2
  <2>6. CASE id[q] # Head(wire).id
    BY <1>0, <2>1, <2>3, <2>4, <2>6 DEF TypeOK
  <2>7. QED
    BY <2>5, <2>6
<1>9. CASE HandOver
  <2>1. /\ UNCHANGED <<id, pc, resHandlers>>
        /\ reader = "deleted" /\ candidate \in Requests
        /\ \A p \in Requests : p # candidate => resC'[p] = resC[p]
        /\ resC'[candidate] = <<Head(wire)>> \/ (done[candidate] /\ UNCHANGED resC)
    <3>1. candidate \in Requests
      <4>1. wire # <<>> /\ candidate = Head(wire).of
        BY <1>0, <1>9 DEF HandOver, CandidateOK
      <4>2. QED
        BY <4>1, HeadIsOwn DEF Response
    <3>2. QED
      BY <1>0, <1>9, <3>1 DEF TypeOK, HandOver
  <2>2. q # candidate
    <3>1. <<Head(wire)>> # <<>>
      OBVIOUS
    <3>2. done[candidate] => pc'[candidate] = "returned"
      BY <1>0, <2>1 DEF DoneOK
    <3>3. QED
      BY <2>1, <3>1, <3>2 DEF Settled
  <2>3. QED
    BY <1>0, <2>1, <2>2 DEF Kept, WasSent, Settled
<1>10. CASE UNCHANGED vars
  BY <1>1, <1>10 DEF vars, WasSent, Settled
<1>11. QED
  BY <1>2, <1>3, <1>4, <1>5, <1>6, <1>7, <1>8, <1>9, <1>10 DEF Next, Reading, Awaiting

-----------------------------------------------------------------------------
\* Every step preserves the invariant.
LEMMA TableInvStep == TableInv /\ [Next]_vars => TableInv'
BY TypeStep, NumberingStep, EntriesStep, WireStep, CandidateStep, AnswerStep, KeptStep
DEF TableInv

\* Requests, table, channels, wire and reader fit together in every reachable state.
THEOREM TableInvariant == Spec => []TableInv
BY TableInvInit, TableInvStep, PTL DEF Spec

\* For any number of requests: an awaiter only ever returns the answer to its own
\* request, of the type it asked for.
THEOREM AnswersAreOwn == Spec => []OwnAnswer
<1>1. TableInv => OwnAnswer
  BY DEF TableInv
<1>2. QED
  BY <1>1, TableInvariant, PTL

\* For any number of requests: nothing of an awaiter that has returned stays in the table.
THEOREM TableIsCleaned == Spec => []NothingLeft
<1>1. TableInv => NothingLeft
  BY DEF TableInv, Entries, NothingLeft
<1>2. QED
  BY <1>1, TableInvariant, PTL

\* For any number of requests and responses: the reader drops a response of the right
\* type only when its request has been answered before or given up.
THEOREM DropsOnlySettled == Spec => NoAnswerLost
<1> USE DEF sender, receiver
<1> DEFINE Dropped == /\ reader = "idle"
                      /\ wire # <<>>
                      /\ wire' = Tail(wire)
                      /\ Head(wire).type = Type[Head(wire).of]
<1>1. TableInv /\ [Next]_vars => [Dropped => Settled(Head(wire).of)]_vars
  <2> SUFFICES ASSUME TableInv, Next, Dropped PROVE Settled(Head(wire).of)
    BY DEF vars
  <2>0. TypeOK /\ Numbering /\ Kept
    BY DEF TableInv
  <2>1. wire \in Seq(Response) /\ wire # <<>> /\ Tail(wire) # wire
    BY <2>0, QueueElements DEF TypeOK
  <2>2. ASSUME NEW r \in Requests, CameraAnswers(r) PROVE FALSE
    <3>1. PICK t \in Types : wire' = Append(wire, [id |-> id[r], type |-> t, of |-> r])
      BY <2>2 DEF CameraAnswers
    <3>2. id[r] \in Ids
      BY <2>0, <2>2, IdsFit DEF CameraAnswers, WasSent
    <3> DEFINE res == [id |-> id[r], type |-> t, of |-> r]
    <3>3. res \in Response
      BY <3>2 DEF Response
    <3> HIDE DEF res
    <3>4. Append(wire, res) # Tail(wire)
      BY <2>1, <3>3, QueueElements
    <3>5. QED
      BY <3>1, <3>4 DEF res
  <2>3. HandleResponse
    BY <2>1, <2>2
    DEF Next, Reading, DrawId, SendRequest, Awaiting, TimerFires, ResponseReceived, Finish,
        DeleteEntry, HandOver
  <2> DEFINE q == Head(wire).of
  <2>4. ~Matches(Head(wire), resHandlers[Head(wire).id])
    BY <2>1, <2>3 DEF HandleResponse
  <2>5. Head(wire).id = id[q] /\ WasSent(q) /\ q \in Requests
    BY <2>1, HeadIsOwn DEF Response
  <2>6. resHandlers[id[q]] = q => Matches(Head(wire), resHandlers[id[q]])
    BY <2>5, NoRequestAssumption DEF Matches
  <2>7. QED
    BY <2>0, <2>4, <2>5, <2>6 DEF Kept
<1>2. QED
  BY <1>1, TableInvariant, PTL DEF Spec, NoAnswerLost

=============================================================================
