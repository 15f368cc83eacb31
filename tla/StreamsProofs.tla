---------------------------- MODULE StreamsProofs ----------------------------
(***************************************************************************)
(* Proofs about Streams for any number of publishers and players, any      *)
(* packets and any capacity of the queues.                                 *)
(***************************************************************************)
EXTENDS Streams, SequenceTheorems, TLAPS

\* Every step keeps the types of the publishers.
LEMMA PublisherTypeStep == TypeOK /\ [Next]_vars => PublisherTypes'
<1> SUFFICES ASSUME TypeOK, [Next]_vars PROVE PublisherTypes'
  OBVIOUS
<1> USE DEF mapVars, fanVars, playerVars, streamVars, rtspVars, serverVars, closeVars, rtmpVars
<1>1. ASSUME NEW p \in Publishers, Publish(p) PROVE PublisherTypes'
  BY <1>1 DEF TypeOK, PublisherTypes, Publish, Goes, Places
<1>2. ASSUME NEW p \in Publishers, Read(p) PROVE PublisherTypes'
  BY <1>2 DEF TypeOK, PublisherTypes, Read, Goes, Places
<1>3. ASSUME NEW p \in Publishers, AllServed(p) PROVE PublisherTypes'
  BY <1>3 DEF TypeOK, PublisherTypes, AllServed, Goes, Places
<1>4. ASSUME NEW p \in Publishers, Configure(p) PROVE PublisherTypes'
  BY <1>4 DEF TypeOK, PublisherTypes, Configure, Goes, Places
<1>5. ASSUME NEW p \in Publishers, LockRegistry(p) PROVE PublisherTypes'
  BY <1>5 DEF TypeOK, PublisherTypes, LockRegistry, Goes, Places
<1>6. ASSUME NEW p \in Publishers, Register(p) PROVE PublisherTypes'
  BY <1>6 DEF TypeOK, PublisherTypes, Register, Goes, Places
<1>7. ASSUME NEW p \in Publishers, LookUpStream(p) PROVE PublisherTypes'
  BY <1>7 DEF TypeOK, PublisherTypes, LookUpStream, Goes, Places
<1>8. ASSUME NEW p \in Publishers, LockStream(p) PROVE PublisherTypes'
  BY <1>8 DEF TypeOK, PublisherTypes, LockStream, Goes, Places
<1>9. ASSUME NEW p \in Publishers, Written(p) PROVE PublisherTypes'
  BY <1>9 DEF TypeOK, PublisherTypes, Written, Goes, Places
<1>10. ASSUME NEW p \in Publishers, Lost(p) PROVE PublisherTypes'
  BY <1>10 DEF TypeOK, PublisherTypes, Lost, Goes, Places
<1>11. ASSUME NEW p \in Publishers, Remove(p) PROVE PublisherTypes'
  BY <1>11 DEF TypeOK, PublisherTypes, Remove, Goes, Places
<1>12. ASSUME NEW p \in Publishers, CloseOwn(p) PROVE PublisherTypes'
  BY <1>12 DEF TypeOK, PublisherTypes, CloseOwn, Goes, Places
<1>13. ASSUME NEW p \in Publishers, Unregister(p) PROVE PublisherTypes'
  BY <1>13 DEF TypeOK, PublisherTypes, Unregister, Goes, Places
<1>14. ASSUME NEW p \in Publishers, TearDown(p) PROVE PublisherTypes'
  BY <1>14 DEF TypeOK, PublisherTypes, TearDown, Goes, Places
<1>15. ASSUME NEW p \in Publishers,
             DeliverHeader(p) \/ DeliverData(p) \/ CloseReplaced(p)
      PROVE  PublisherTypes'
  BY <1>15 DEF TypeOK, PublisherTypes, DeliverHeader, DeliverData, CloseReplaced, Goes
<1>16. ASSUME NEW s \in Players,
             LookUp(s) \/ Attach(s) \/ Play(s) \/ Played(s) \/ StopPlaying(s) \/ Unsubscribe(s)
      PROVE  PublisherTypes'
  BY <1>16 DEF TypeOK, PublisherTypes, LookUp, Attach, Play, Played, StopPlaying, Unsubscribe
<1>17. ASSUME NEW p \in Publishers, NEW s \in Players, Serve(p, s) PROVE PublisherTypes'
  BY <1>17 DEF TypeOK, PublisherTypes, Serve
<1>18. ASSUME NEW c \in Closers, SignalClose(c) PROVE PublisherTypes'
  BY <1>18 DEF TypeOK, PublisherTypes, SignalClose
<1>19. CASE UNCHANGED vars
  BY <1>19 DEF TypeOK, PublisherTypes, vars
<1>20. ASSUME NEW c \in Clients, FindStream(c) \/ GiveStream(c) PROVE PublisherTypes'
  BY <1>20 DEF TypeOK, PublisherTypes, FindStream, GiveStream
<1>21. QED
  BY <1>1, <1>2, <1>3, <1>4, <1>5, <1>6, <1>7, <1>8, <1>9, <1>10, <1>11, <1>12, <1>13, <1>14, <1>15, <1>16, <1>17, <1>18, <1>19, <1>20
  DEF Next, Working, Closing, Playing

\* Every step keeps the types of the broadcasters.
LEMMA FanTypeStep == TypeOK /\ [Next]_vars => FanTypes'
<1> SUFFICES ASSUME TypeOK, [Next]_vars PROVE FanTypes'
  OBVIOUS
<1> USE DEF mapVars, fanVars, playerVars, streamVars, rtspVars, serverVars, closeVars, rtmpVars
<1>1. ASSUME NEW p \in Publishers, Publish(p) PROVE FanTypes'
  BY <1>1 DEF TypeOK, FanTypes, PublisherTypes, Publish
<1>2. ASSUME NEW p \in Publishers, Read(p) PROVE FanTypes'
  <2>1. UNCHANGED <<turn, subs, replaced, closing>>
    BY <1>2 DEF Read
  <2>2. headers' \in [Publishers -> Nat]
    <3>1. headers' = [headers EXCEPT ![p] = @ + 1] \/ headers' = headers
      BY <1>2 DEF Read
    <3>2. headers \in [Publishers -> Nat]
      BY DEF TypeOK, FanTypes
    <3>3. QED
      BY <3>1, <3>2
  <2>3. toServe' \in [Publishers -> SUBSET Players]
    BY <1>2 DEF TypeOK, FanTypes, Read
  <2>4. QED
    BY <2>1, <2>2, <2>3 DEF TypeOK, FanTypes
<1>3. ASSUME NEW p \in Publishers, DeliverHeader(p) PROVE FanTypes'
  BY <1>3 DEF TypeOK, FanTypes, DeliverHeader
<1>4. ASSUME NEW p \in Publishers, DeliverData(p) PROVE FanTypes'
  BY <1>4 DEF TypeOK, FanTypes, DeliverData
<1>5. ASSUME NEW p \in Publishers, CloseOwn(p) PROVE FanTypes'
  BY <1>5 DEF TypeOK, FanTypes, CloseOwn, Collect
<1>6. ASSUME NEW p \in Publishers, CloseReplaced(p) PROVE FanTypes'
  BY <1>6 DEF TypeOK, FanTypes, CloseReplaced, Collect
<1>7. ASSUME NEW s \in Players, Attach(s) PROVE FanTypes'
  BY <1>7 DEF TypeOK, FanTypes, Attach
<1>8. ASSUME NEW s \in Players, Unsubscribe(s) PROVE FanTypes'
  BY <1>8 DEF TypeOK, FanTypes, Unsubscribe
<1>9. ASSUME NEW p \in Publishers, NEW s \in Players, Serve(p, s) PROVE FanTypes'
  BY <1>9 DEF TypeOK, FanTypes, Serve
<1>10. ASSUME NEW c \in Closers, SignalClose(c) PROVE FanTypes'
  BY <1>10 DEF TypeOK, FanTypes, SignalClose
<1>11. ASSUME NEW p \in Publishers,
             AllServed(p) \/ Configure(p) \/ LockRegistry(p) \/ Register(p) \/ LookUpStream(p) \/ LockStream(p) \/ Written(p) \/ Lost(p) \/ Remove(p) \/ Unregister(p) \/ TearDown(p)
      PROVE  FanTypes'
  BY <1>11 DEF TypeOK, FanTypes, AllServed, Configure, LockRegistry, Register, LookUpStream, LockStream, Written, Lost, Remove, Unregister, TearDown, Goes
<1>12. ASSUME NEW s \in Players,
             LookUp(s) \/ Play(s) \/ Played(s) \/ StopPlaying(s)
      PROVE  FanTypes'
  BY <1>12 DEF TypeOK, FanTypes, LookUp, Play, Played, StopPlaying
<1>13. CASE UNCHANGED vars
  BY <1>13 DEF TypeOK, FanTypes, vars
<1>14. ASSUME NEW c \in Clients, FindStream(c) \/ GiveStream(c) PROVE FanTypes'
  BY <1>14 DEF TypeOK, FanTypes, FindStream, GiveStream
<1>15. QED
  BY <1>1, <1>2, <1>3, <1>4, <1>5, <1>6, <1>7, <1>8, <1>9, <1>10, <1>11, <1>12, <1>13, <1>14
  DEF Next, Working, Closing, Playing

\* Every step keeps the types of the players.
LEMMA PlayerTypeStep == TypeOK /\ [Next]_vars => PlayerTypes'
<1> SUFFICES ASSUME TypeOK, [Next]_vars PROVE PlayerTypes'
  OBVIOUS
<1> USE DEF mapVars, fanVars, playerVars, streamVars, rtspVars, serverVars, closeVars, rtmpVars
<1>0. /\ queue \in [Players -> 0 .. QueueCap]
      /\ QueueCap \in Nat
      /\ \A s \in Players : queue[s] < QueueCap => queue[s] + 1 \in 0 .. QueueCap
      /\ \A s \in Players : queue[s] > 0 => queue[s] - 1 \in 0 .. QueueCap
  <2>1. queue \in [Players -> 0 .. QueueCap] /\ QueueCap \in Nat
    BY CapAssumption DEF TypeOK, PlayerTypes
  <2>2. QED
    BY <2>1
<1>1. ASSUME NEW p \in Publishers, DeliverHeader(p) PROVE PlayerTypes'
  <2>1. UNCHANGED <<player, of, started, done>>
    BY <1>1 DEF DeliverHeader
  <2>2. queue' \in [Players -> 0 .. QueueCap]
    BY <1>1, <1>0 DEF DeliverHeader
  <2>3. QED
    BY <2>1, <2>2 DEF TypeOK, PlayerTypes
<1>2. ASSUME NEW p \in Publishers, DeliverData(p) PROVE PlayerTypes'
  <2>1. UNCHANGED <<player, of, started, done>>
    BY <1>2 DEF DeliverData
  <2>2. queue' \in [Players -> 0 .. QueueCap]
    BY <1>2, <1>0 DEF DeliverData
  <2>3. QED
    BY <2>1, <2>2 DEF TypeOK, PlayerTypes
<1>3. ASSUME NEW s \in Players, LookUp(s) PROVE PlayerTypes'
  BY <1>3 DEF TypeOK, PublisherTypes, PlayerTypes, LookUp
<1>4. ASSUME NEW s \in Players, Attach(s) PROVE PlayerTypes'
  BY <1>4 DEF TypeOK, PlayerTypes, Attach
<1>5. ASSUME NEW s \in Players, Play(s) PROVE PlayerTypes'
  <2>1. queue' \in [Players -> 0 .. QueueCap]
    BY <1>5, <1>0 DEF Play
  <2>2. UNCHANGED <<of, started, done>>
    BY <1>5 DEF Play
  <2>3. player' \in [Players -> {"none", "found", "playing", "writing", "leaving", "gone"}]
    BY <1>5 DEF TypeOK, PlayerTypes, Play
  <2>4. QED
    BY <2>1, <2>2, <2>3 DEF TypeOK, PlayerTypes
<1>6. ASSUME NEW s \in Players, Played(s) PROVE PlayerTypes'
  BY <1>6 DEF TypeOK, PlayerTypes, Played
<1>7. ASSUME NEW s \in Players, StopPlaying(s) PROVE PlayerTypes'
  BY <1>7 DEF TypeOK, PlayerTypes, StopPlaying
<1>8. ASSUME NEW s \in Players, Unsubscribe(s) PROVE PlayerTypes'
  BY <1>8 DEF TypeOK, PlayerTypes, Unsubscribe
<1>9. ASSUME NEW p \in Publishers, NEW s \in Players, Serve(p, s) PROVE PlayerTypes'
  BY <1>9 DEF TypeOK, PlayerTypes, Serve
<1>10. ASSUME NEW c \in Closers, SignalClose(c) PROVE PlayerTypes'
  BY <1>10 DEF TypeOK, PlayerTypes, SignalClose
<1>11. ASSUME NEW p \in Publishers,
             Publish(p) \/ Read(p) \/ AllServed(p) \/ Configure(p) \/ LockRegistry(p) \/ Register(p) \/ LookUpStream(p) \/ LockStream(p) \/ Written(p) \/ Lost(p) \/ Remove(p) \/ CloseOwn(p) \/ CloseReplaced(p) \/ Unregister(p) \/ TearDown(p)
      PROVE  PlayerTypes'
  BY <1>11 DEF TypeOK, PlayerTypes, Publish, Read, AllServed, Configure, LockRegistry, Register, LookUpStream, LockStream, Written, Lost, Remove, CloseOwn, CloseReplaced, Unregister, TearDown, Goes
<1>12. CASE UNCHANGED vars
  BY <1>12 DEF TypeOK, PlayerTypes, vars
<1>13. ASSUME NEW c \in Clients, FindStream(c) \/ GiveStream(c) PROVE PlayerTypes'
  BY <1>13 DEF TypeOK, PlayerTypes, FindStream, GiveStream
<1>14. QED
  BY <1>1, <1>2, <1>3, <1>4, <1>5, <1>6, <1>7, <1>8, <1>9, <1>10, <1>11, <1>12, <1>13
  DEF Next, Working, Closing, Playing

\* Every step keeps the types of the RTSP streams.
LEMMA StreamTypeStep == TypeOK /\ [Next]_vars => StreamTypes'
<1> SUFFICES ASSUME TypeOK, [Next]_vars PROVE StreamTypes'
  OBVIOUS
<1> USE DEF mapVars, fanVars, playerVars, streamVars, rtspVars, serverVars, closeVars, rtmpVars
<1>1. ASSUME NEW p \in Publishers, Configure(p) PROVE StreamTypes'
  <2> DEFINE b == [bridge[p] EXCEPT !.video = @ \/ packet(p) = "video config",
                                    !.audio = @ \/ packet(p) = "audio config"]
  <2>1. bridge[p] \in [video : BOOLEAN, audio : BOOLEAN, registered : BOOLEAN]
    BY DEF TypeOK, StreamTypes
  <2>2. b \in [video : BOOLEAN, audio : BOOLEAN, registered : BOOLEAN]
    BY <2>1
  <2>3. /\ bridge' = [bridge EXCEPT ![p] = b]
        /\ UNCHANGED <<registry, streams, stream, locked, entry, key, asked>>
    BY <1>1 DEF Configure
  <2> HIDE DEF b
  <2>4. QED
    BY <2>2, <2>3 DEF TypeOK, StreamTypes
<1>2. ASSUME NEW p \in Publishers, LockRegistry(p) PROVE StreamTypes'
  BY <1>2 DEF TypeOK, StreamTypes, LockRegistry
<1>3. ASSUME NEW p \in Publishers, Register(p) PROVE StreamTypes'
  <2> DEFINE Rec  == [is : {"unused", "open", "closed"}, audio : BOOLEAN]
             Left == IF streams = 0 THEN stream ELSE [stream EXCEPT ![streams].is = "closed"]
  <2>1. /\ stream \in [Entries -> Rec]
        /\ bridge \in [Publishers -> [video : BOOLEAN, audio : BOOLEAN, registered : BOOLEAN]]
        /\ bridge[p].audio \in BOOLEAN
    BY DEF TypeOK, StreamTypes
  <2>2. Left \in [Entries -> Rec]
    BY <2>1
  <2>3. bridge' \in [Publishers -> [video : BOOLEAN, audio : BOOLEAN, registered : BOOLEAN]]
    <3>1. bridge' = [bridge EXCEPT ![p].registered = TRUE] \/ bridge' = bridge
      BY <1>3 DEF Register
    <3>2. QED
      BY <2>1, <3>1
  <2>4. stream' \in [Entries -> Rec] /\ streams' \in 0 .. StreamLimit
    <3>1. CASE stream' = Left /\ streams' = 0
      BY <3>1, <2>2, LimitAssumption
    <3>2. ASSUME NEW e \in Entries, NEW audio \in {FALSE, bridge[p].audio},
                 stream' = [Left EXCEPT ![e] = [is |-> "open", audio |-> audio]],
                 streams' = e
          PROVE  stream' \in [Entries -> Rec] /\ streams' \in 0 .. StreamLimit
      <4>1. [is |-> "open", audio |-> audio] \in Rec
        BY <2>1
      <4> HIDE DEF Rec, Left
      <4>2. stream' \in [Entries -> Rec]
        BY <2>2, <3>2, <4>1
      <4>3. QED
        BY <3>2, <4>2 DEF Entries
    <3>3. QED
      BY <1>3, <3>1, <3>2 DEF Register
  <2>5. registry' = None /\ UNCHANGED <<locked, entry, key, asked>>
    BY <1>3 DEF Register
  <2>6. QED
    BY <2>3, <2>4, <2>5 DEF TypeOK, StreamTypes
<1>4. ASSUME NEW p \in Publishers, LookUpStream(p) PROVE StreamTypes'
  BY <1>4 DEF TypeOK, StreamTypes, LookUpStream, StoreKeyframe
<1>5. ASSUME NEW p \in Publishers, LockStream(p) PROVE StreamTypes'
  <2>1. 0 \in 0 .. StreamLimit
    BY LimitAssumption
  <2>2. locked' \in [Entries -> Publishers \cup {None}]
    BY <1>5 DEF TypeOK, StreamTypes, LockStream
  <2>3. entry' \in [Publishers -> 0 .. StreamLimit]
    BY <1>5, <2>1 DEF TypeOK, StreamTypes, LockStream, Forget
  <2>4. UNCHANGED <<bridge, registry, streams, stream, key, asked>>
    BY <1>5 DEF LockStream
  <2>5. QED
    BY <2>2, <2>3, <2>4 DEF TypeOK, StreamTypes
<1>6. ASSUME NEW p \in Publishers, Written(p) PROVE StreamTypes'
  <2>1. 0 \in 0 .. StreamLimit
    BY LimitAssumption
  <2>2. QED
    BY <1>6, <2>1 DEF TypeOK, StreamTypes, Written, Forget
<1>7. ASSUME NEW p \in Publishers, Unregister(p) PROVE StreamTypes'
  <2>1. 0 \in 0 .. StreamLimit
    BY LimitAssumption
  <2>2. QED
    BY <1>7, <2>1 DEF TypeOK, StreamTypes, Unregister
<1>8. ASSUME NEW p \in Publishers, TearDown(p) PROVE StreamTypes'
  <2>1. 0 \in 0 .. StreamLimit
    BY LimitAssumption
  <2>2. stream' \in [Entries -> [is : {"unused", "open", "closed"}, audio : BOOLEAN]]
    BY <1>8 DEF TypeOK, StreamTypes, TearDown, CloseStream
  <2>3. entry' \in [Publishers -> 0 .. StreamLimit]
    BY <1>8, <2>1 DEF TypeOK, StreamTypes, TearDown, Forget
  <2>4. UNCHANGED <<bridge, registry, streams, locked, key, asked>>
    BY <1>8 DEF TearDown
  <2>5. QED
    BY <2>2, <2>3, <2>4 DEF TypeOK, StreamTypes
<1>9. ASSUME NEW p \in Publishers,
             Publish(p) \/ Read(p) \/ DeliverHeader(p) \/ DeliverData(p) \/ AllServed(p) \/ Lost(p) \/ Remove(p) \/ CloseOwn(p) \/ CloseReplaced(p)
      PROVE  StreamTypes'
  BY <1>9 DEF TypeOK, StreamTypes, Publish, Read, DeliverHeader, DeliverData, AllServed, Lost, Remove, CloseOwn, CloseReplaced, Goes
<1>10. ASSUME NEW s \in Players,
             LookUp(s) \/ Attach(s) \/ Play(s) \/ Played(s) \/ StopPlaying(s) \/ Unsubscribe(s)
      PROVE  StreamTypes'
  BY <1>10 DEF TypeOK, StreamTypes, LookUp, Attach, Play, Played, StopPlaying, Unsubscribe
<1>11. ASSUME NEW p \in Publishers, NEW s \in Players, Serve(p, s) PROVE StreamTypes'
  BY <1>11 DEF TypeOK, StreamTypes, Serve
<1>12. ASSUME NEW c \in Closers, SignalClose(c) PROVE StreamTypes'
  BY <1>12 DEF TypeOK, StreamTypes, SignalClose
<1>13. CASE UNCHANGED vars
  BY <1>13 DEF TypeOK, StreamTypes, vars
<1>14. ASSUME NEW c \in Clients, FindStream(c) \/ GiveStream(c) PROVE StreamTypes'
  <2>1. 0 \in 0 .. StreamLimit
    BY LimitAssumption
  <2>2. QED
    BY <1>14, <2>1 DEF TypeOK, StreamTypes, FindStream, GiveStream
<1>15. QED
  BY <1>1, <1>2, <1>3, <1>4, <1>5, <1>6, <1>7, <1>8, <1>9, <1>10, <1>11, <1>12, <1>13, <1>14
  DEF Next, Working, Closing, Playing

\* Every step keeps the types of all variables.
LEMMA TypeStep == TypeOK /\ [Next]_vars => TypeOK'
BY PublisherTypeStep, FanTypeStep, PlayerTypeStep, StreamTypeStep DEF TypeOK

\* Initially nobody publishes.
LEMMA InitInv == Init => StreamInv /\ OnlyNewest /\ NewestServes
<1> SUFFICES ASSUME Init PROVE StreamInv /\ OnlyNewest /\ NewestServes
  OBVIOUS
<1>1. 0 \in 0 .. StreamLimit /\ 0 \in 0 .. QueueCap
  BY LimitAssumption, CapAssumption
<1>2. \A p \in Publishers : Len(Sends[p]) \in Nat
  BY SendsAssumption, LenProperties
<1>3. PublisherTypes
  BY <1>2 DEF Init, PublisherTypes, Places
<1>4. FanTypes
  BY DEF Init, FanTypes
<1>5. PlayerTypes
  BY <1>1 DEF Init, PlayerTypes
<1>6. StreamTypes
  BY <1>1 DEF Init, StreamTypes
<1>7. EntryUsed /\ TornDownIsOut /\ WritesToOpen
  BY DEF Init, EntryUsed, TornDownIsOut, WritesToOpen
<1>8. LockedByWriter
  BY NoneAssumption DEF Init, LockedByWriter
<1>9. MapIsExact
  BY DEF Init, MapIsExact
<1>10. OnlyNewest /\ NewestServes
  BY DEF Init, OnlyNewest, NewestServes
<1>11. QED
  BY <1>3, <1>4, <1>5, <1>6, <1>7, <1>8, <1>9, <1>10 DEF StreamInv, TypeOK

\* Every step keeps the broadcaster of the publisher that connected last in the map.
LEMMA NewestStep ==
    TypeOK /\ OnlyNewest /\ NewestServes /\ [Next]_vars => OnlyNewest' /\ NewestServes'
<1> SUFFICES ASSUME TypeOK, OnlyNewest, NewestServes, [Next]_vars
             PROVE  OnlyNewest' /\ NewestServes'
  OBVIOUS
<1> USE DEF mapVars, fanVars, playerVars, streamVars, rtspVars, serverVars, closeVars, rtmpVars
<1> DEFINE Out == {"removed", "closing", "unregistered", "gone"}
<1>0. /\ pub \in [Publishers -> Places]
      /\ newest \in Publishers \cup {None}
      /\ current \in {None, newest}
      /\ newest # None /\ pub[newest] \notin Out => current = newest
  BY DEF TypeOK, PublisherTypes, OnlyNewest, NewestServes
<1>1. ASSUME UNCHANGED mapVars,
             \A p \in Publishers : pub[p] \in Out => pub'[p] \in Out
      PROVE  OnlyNewest' /\ NewestServes'
  BY <1>0, <1>1 DEF OnlyNewest, NewestServes
<1>2. ASSUME NEW p \in Publishers, Publish(p) PROVE OnlyNewest' /\ NewestServes'
  BY <1>2 DEF Publish, OnlyNewest, NewestServes
<1>3. ASSUME NEW p \in Publishers, Remove(p) PROVE OnlyNewest' /\ NewestServes'
  <2>1. /\ newest' = newest
        /\ current' = IF current = p THEN None ELSE current
        /\ pub[p] = "leaving"
        /\ \A q \in Publishers : pub'[q] = IF q = p THEN "removed" ELSE pub[q]
    BY <1>0, <1>3 DEF Remove, Goes
  <2>2. QED
    BY <1>0, <2>1 DEF OnlyNewest, NewestServes
<1>4. ASSUME NEW p \in Publishers,
             \/ Read(p) \/ Lost(p) \/ AllServed(p) \/ Configure(p) \/ LockRegistry(p)
             \/ Register(p) \/ LookUpStream(p) \/ LockStream(p) \/ Written(p)
      PROVE  OnlyNewest' /\ NewestServes'
  <2>1. UNCHANGED mapVars /\ pub[p] \notin Out /\ \A q \in Publishers : q # p => pub'[q] = pub[q]
    BY <1>0, <1>4
    DEF Read, Lost, AllServed, Configure, LockRegistry, Register, LookUpStream, LockStream,
        Written, Goes
  <2>2. QED
    BY <1>1, <2>1
<1>5. ASSUME NEW p \in Publishers, CloseOwn(p) \/ Unregister(p) \/ TearDown(p)
      PROVE  OnlyNewest' /\ NewestServes'
  <2>1. /\ UNCHANGED mapVars
        /\ pub'[p] \in Out
        /\ \A q \in Publishers : q # p => pub'[q] = pub[q]
    BY <1>0, <1>5 DEF CloseOwn, Unregister, TearDown, Goes
  <2>2. QED
    BY <1>1, <2>1
<1>6. ASSUME NEW p \in Publishers,
             DeliverHeader(p) \/ DeliverData(p) \/ CloseReplaced(p) \/ \E s \in Players : Serve(p, s)
      PROVE  OnlyNewest' /\ NewestServes'
  BY <1>1, <1>6 DEF DeliverHeader, DeliverData, CloseReplaced, Serve
<1>7. ASSUME NEW s \in Players,
             LookUp(s) \/ Attach(s) \/ Play(s) \/ Played(s) \/ StopPlaying(s) \/ Unsubscribe(s)
      PROVE  OnlyNewest' /\ NewestServes'
  BY <1>1, <1>7 DEF LookUp, Attach, Play, Played, StopPlaying, Unsubscribe
<1>8. ASSUME NEW c \in Closers, SignalClose(c) PROVE OnlyNewest' /\ NewestServes'
  BY <1>1, <1>8 DEF SignalClose
<1>9. ASSUME NEW c \in Clients, FindStream(c) \/ GiveStream(c) PROVE OnlyNewest' /\ NewestServes'
  BY <1>1, <1>9 DEF FindStream, GiveStream
<1>10. CASE UNCHANGED vars
  BY <1>1, <1>10 DEF vars
<1>11. QED
  BY <1>2, <1>3, <1>4, <1>5, <1>6, <1>7, <1>8, <1>9, <1>10 DEF Next, Working, Closing

-----------------------------------------------------------------------------
\* A publisher that works on a stream, or is about to close one.
AtStream(p) == pub[p] \in {"encoded", "writing", "unregistered"}

\* The invariant but for the types.
StreamsSafe == EntryUsed /\ LockedByWriter /\ TornDownIsOut /\ WritesToOpen /\ MapIsExact

\* The types of what the invariant is about.
LEMMA StreamFacts ==
    ASSUME StreamInv
    PROVE  /\ pub \in [Publishers -> Places]
           /\ streams \in 0 .. StreamLimit
           /\ stream \in [Entries -> [is : {"unused", "open", "closed"}, audio : BOOLEAN]]
           /\ locked \in [Entries -> Publishers \cup {None}]
           /\ entry \in [Publishers -> 0 .. StreamLimit]
           /\ streams # 0 => streams \in Entries
           /\ \A p \in Publishers : entry[p] # 0 => entry[p] \in Entries
<1>1. /\ pub \in [Publishers -> Places]
      /\ streams \in 0 .. StreamLimit
      /\ stream \in [Entries -> [is : {"unused", "open", "closed"}, audio : BOOLEAN]]
      /\ locked \in [Entries -> Publishers \cup {None}]
      /\ entry \in [Publishers -> 0 .. StreamLimit]
  BY DEF StreamInv, TypeOK, PublisherTypes, StreamTypes
<1>2. \A n \in 0 .. StreamLimit : n # 0 => n \in Entries
  BY LimitAssumption DEF Entries
<1>3. QED
  BY <1>1, <1>2

\* A step that leaves the streams, their locks and those who work on them alone keeps the
\* invariant.
LEMMA StreamsUntouched ==
    ASSUME StreamInv,
           UNCHANGED <<streams, stream, locked, entry>>,
           \A p \in Publishers : AtStream(p) \/ AtStream(p)' => pub'[p] = pub[p]
    PROVE  StreamsSafe'
<1>1. EntryUsed /\ LockedByWriter /\ TornDownIsOut /\ WritesToOpen /\ MapIsExact
  BY DEF StreamInv
<1>2. EntryUsed' /\ TornDownIsOut' /\ WritesToOpen'
  BY <1>1 DEF EntryUsed, TornDownIsOut, WritesToOpen, AtStream
<1>3. LockedByWriter'
  BY <1>1 DEF LockedByWriter, AtStream
<1>4. MapIsExact'
  BY <1>1 DEF MapIsExact, AtStream
<1>5. QED
  BY <1>2, <1>3, <1>4 DEF StreamsSafe

\* Registering a stream closes the one in the map, which nobody writes to.
LEMMA RegisterStep ==
    ASSUME StreamInv, NEW p \in Publishers, Register(p) PROVE StreamsSafe'
<1> USE DEF mapVars, fanVars, playerVars, streamVars, rtspVars, serverVars, closeVars, rtmpVars
<1>0. EntryUsed /\ LockedByWriter /\ TornDownIsOut /\ WritesToOpen /\ MapIsExact
  BY DEF StreamInv
<1> DEFINE Left == IF streams = 0 THEN stream ELSE [stream EXCEPT ![streams].is = "closed"]
<1>1. /\ UNCHANGED <<locked, entry>>
      /\ pub[p] = "replacing" /\ pub'[p] = "reading"
      /\ \A q \in Publishers : q # p => pub'[q] = pub[q]
      /\ streams # 0 => locked[streams] = None
  BY StreamFacts DEF Register, Goes, Free
<1>2. \A q \in Publishers : AtStream(q)' => AtStream(q) /\ pub'[q] = pub[q]
  BY <1>1 DEF AtStream
<1>3. \A q \in Publishers : pub[q] = "writing" => entry[q] # streams
  BY <1>0, <1>1, StreamFacts, NoneAssumption DEF EntryUsed, LockedByWriter
<1>4. \A e \in Entries : Left[e].is = IF e = streams THEN "closed" ELSE stream[e].is
  <2>1. stream \in [Entries -> [is : {"unused", "open", "closed"}, audio : BOOLEAN]]
    BY StreamFacts
  <2>2. 0 \notin Entries
    BY DEF Entries
  <2>3. QED
    BY <2>1, <2>2
<1>5. Left \in [Entries -> [is : {"unused", "open", "closed"}, audio : BOOLEAN]]
  BY StreamFacts
<1>6. CASE stream' = Left /\ streams' = 0
  <2>1. \A e \in Entries : stream'[e].is = IF e = streams THEN "closed" ELSE stream[e].is
    BY <1>4, <1>6
  <2> HIDE DEF Left
  <2>2. EntryUsed'
    BY <1>0, <1>1, <1>2, <2>1, StreamFacts DEF EntryUsed, AtStream
  <2>3. LockedByWriter'
    BY <1>0, <1>1, <1>2 DEF LockedByWriter, AtStream
  <2>4. TornDownIsOut'
    BY <1>0, <1>1, <1>2, <1>6 DEF EntryUsed, TornDownIsOut, AtStream
  <2>5. WritesToOpen'
    BY <1>0, <1>1, <1>2, <1>3, <2>1, StreamFacts DEF EntryUsed, WritesToOpen, AtStream
  <2>6. MapIsExact'
    BY <1>0, <1>1, <1>2, <1>6, <2>1, StreamFacts DEF MapIsExact, AtStream
  <2>7. QED
    BY <2>2, <2>3, <2>4, <2>5, <2>6 DEF StreamsSafe
<1>7. ASSUME NEW e \in Entries, NEW audio, stream[e].is = "unused",
             stream' = [Left EXCEPT ![e] = [is |-> "open", audio |-> audio]], streams' = e
      PROVE  StreamsSafe'
  <2>1. \A d \in Entries : stream'[d].is = IF d = e THEN "open" ELSE Left[d].is
    <3>1. [is |-> "open", audio |-> audio].is = "open"
      OBVIOUS
    <3> HIDE DEF Left
    <3>2. QED
      BY <1>5, <1>7, <3>1
  <2>2. \A d \in Entries : stream'[d].is = IF d = e THEN "open"
                                           ELSE IF d = streams THEN "closed" ELSE stream[d].is
    BY <1>4, <2>1
  <2> HIDE DEF Left
  <2>3. streams # e /\ e # 0
    BY <1>0, <1>7, StreamFacts DEF MapIsExact, Entries
  <2>4. \A q \in Publishers : AtStream(q) => entry[q] # e
    BY <1>0, <1>7 DEF EntryUsed, AtStream
  <2>5. EntryUsed'
    BY <1>0, <1>1, <1>2, <2>2, StreamFacts DEF EntryUsed, AtStream
  <2>6. LockedByWriter'
    BY <1>0, <1>1, <1>2 DEF LockedByWriter, AtStream
  <2>7. TornDownIsOut'
    BY <1>1, <1>2, <1>7, <2>4 DEF TornDownIsOut, AtStream
  <2>8. WritesToOpen'
    BY <1>0, <1>1, <1>2, <1>3, <2>2, StreamFacts DEF EntryUsed, WritesToOpen, AtStream
  <2>9. MapIsExact'
    <3>1. ASSUME NEW d \in Entries, stream'[d].is = "open", d # e
          PROVE  \E q \in Publishers : pub'[q] = "unregistered" /\ entry'[q] = d
      <4>1. PICK q \in Publishers : pub[q] = "unregistered" /\ entry[q] = d
        BY <1>0, <2>2, <3>1 DEF MapIsExact
      <4>2. q # p
        BY <1>1, <4>1
      <4>3. QED
        BY <1>1, <4>1, <4>2
    <3>2. QED
      BY <1>7, <2>2, <3>1 DEF MapIsExact
  <2>10. QED
    BY <2>5, <2>6, <2>7, <2>8, <2>9 DEF StreamsSafe
<1>8. QED
  BY <1>6, <1>7 DEF Register

\* A stream is closed outside of the map and when nobody writes to it.
LEMMA TearDownStep ==
    ASSUME StreamInv, NEW p \in Publishers, TearDown(p) PROVE StreamsSafe'
<1> USE DEF mapVars, fanVars, playerVars, streamVars, rtspVars, serverVars, closeVars, rtmpVars
<1>0. EntryUsed /\ LockedByWriter /\ TornDownIsOut /\ WritesToOpen /\ MapIsExact
  BY DEF StreamInv
<1>1. /\ UNCHANGED <<locked, streams>>
      /\ pub[p] = "unregistered" /\ pub'[p] = "gone"
      /\ \A q \in Publishers : q # p => pub'[q] = pub[q] /\ entry'[q] = entry[q]
      /\ entry[p] \in Entries
      /\ locked[entry[p]] = None
  BY <1>0, StreamFacts DEF TearDown, Goes, Free, Forget, EntryUsed
<1>2. \A d \in Entries : stream'[d].is = IF d = entry[p] THEN "closed" ELSE stream[d].is
  BY <1>1, StreamFacts DEF TearDown, CloseStream
<1>3. EntryUsed'
  BY <1>0, <1>1, <1>2, StreamFacts DEF EntryUsed
<1>4. LockedByWriter'
  BY <1>0, <1>1 DEF LockedByWriter
<1>5. TornDownIsOut'
  BY <1>0, <1>1 DEF TornDownIsOut
<1>6. WritesToOpen'
  <2>1. \A q \in Publishers : pub[q] = "writing" => entry[q] # entry[p]
    BY <1>0, <1>1, StreamFacts, NoneAssumption DEF LockedByWriter
  <2>2. QED
    BY <1>0, <1>1, <1>2, <2>1, StreamFacts DEF EntryUsed, WritesToOpen
<1>7. MapIsExact'
  <2>1. entry[p] # streams
    BY <1>0, <1>1 DEF TornDownIsOut
  <2>2. streams # 0 => stream'[streams].is = "open"
    BY <1>0, <1>2, <2>1, StreamFacts DEF MapIsExact
  <2>3. ASSUME NEW d \in Entries, stream'[d].is = "open", d # streams
        PROVE  \E q \in Publishers : pub'[q] = "unregistered" /\ entry'[q] = d
    <3>1. d # entry[p] /\ stream[d].is = "open"
      BY <1>2, <2>3
    <3>2. PICK q \in Publishers : pub[q] = "unregistered" /\ entry[q] = d
      BY <1>0, <2>3, <3>1 DEF MapIsExact
    <3>3. QED
      BY <1>1, <3>1, <3>2
  <2>4. QED
    BY <1>1, <2>2, <2>3 DEF MapIsExact
<1>8. QED
  BY <1>3, <1>4, <1>5, <1>6, <1>7 DEF StreamsSafe

\* The stream taken out of the map is the one its publisher is about to close.
LEMMA UnregisterStep ==
    ASSUME StreamInv, NEW p \in Publishers, Unregister(p) PROVE StreamsSafe'
<1> USE DEF mapVars, fanVars, playerVars, streamVars, rtspVars, serverVars, closeVars, rtmpVars
<1>0. EntryUsed /\ LockedByWriter /\ TornDownIsOut /\ WritesToOpen /\ MapIsExact
  BY DEF StreamInv
<1>1. /\ UNCHANGED <<locked, stream>>
      /\ streams' = 0
      /\ pub[p] = "closing"
      /\ pub'[p] = IF streams = 0 THEN "gone" ELSE "unregistered"
      /\ entry'[p] = streams
      /\ \A q \in Publishers : q # p => pub'[q] = pub[q] /\ entry'[q] = entry[q]
  BY StreamFacts DEF Unregister, Goes
<1>2. EntryUsed'
  BY <1>0, <1>1 DEF EntryUsed, MapIsExact
<1>3. LockedByWriter'
  BY <1>0, <1>1 DEF LockedByWriter
<1>4. TornDownIsOut'
  BY <1>0, <1>1 DEF EntryUsed, TornDownIsOut
<1>5. WritesToOpen'
  BY <1>0, <1>1 DEF WritesToOpen
<1>6. MapIsExact'
  <2>1. ASSUME NEW d \in Entries, stream'[d].is = "open"
        PROVE  \E q \in Publishers : pub'[q] = "unregistered" /\ entry'[q] = d
    <3>1. CASE d = streams
      BY <1>1, <3>1 DEF Entries
    <3>2. CASE d # streams
      <4>1. PICK q \in Publishers : pub[q] = "unregistered" /\ entry[q] = d
        BY <1>0, <1>1, <2>1, <3>2 DEF MapIsExact
      <4>2. QED
        BY <1>1, <4>1
    <3>3. QED
      BY <3>1, <3>2
  <2>2. QED
    BY <1>1, <2>1 DEF MapIsExact
<1>7. QED
  BY <1>2, <1>3, <1>4, <1>5, <1>6 DEF StreamsSafe

\* Looking a stream up, locking it and unlocking it.
LEMMA WriteStep ==
    ASSUME StreamInv, NEW p \in Publishers, LookUpStream(p) \/ LockStream(p) \/ Written(p)
    PROVE  StreamsSafe'
<1> USE DEF mapVars, fanVars, playerVars, streamVars, rtspVars, serverVars, closeVars, rtmpVars
<1>0. EntryUsed /\ LockedByWriter /\ TornDownIsOut /\ WritesToOpen /\ MapIsExact
  BY DEF StreamInv
<1>1. /\ UNCHANGED <<streams, stream>>
      /\ pub[p] \in {"bridging", "encoded", "writing"}
      /\ pub'[p] \in {"reading", "encoded", "writing"}
      /\ \A q \in Publishers : q # p => pub'[q] = pub[q] /\ entry'[q] = entry[q]
  BY StreamFacts DEF LookUpStream, LockStream, Written, Goes, Forget
<1>2. TornDownIsOut'
  BY <1>0, <1>1 DEF TornDownIsOut
<1>3. MapIsExact'
  <2>1. ASSUME NEW d \in Entries, NEW q \in Publishers, pub[q] = "unregistered", entry[q] = d
        PROVE  pub'[q] = "unregistered" /\ entry'[q] = d
    BY <1>1, <2>1
  <2>2. QED
    BY <1>0, <1>1, <2>1 DEF MapIsExact
<1>4. CASE LookUpStream(p)
  <2>1. /\ UNCHANGED locked
        /\ pub[p] = "bridging"
        /\ \/ pub'[p] = "reading"
           \/ pub'[p] = "encoded" /\ entry'[p] = streams /\ streams # 0
    BY <1>4, StreamFacts DEF LookUpStream, Goes
  <2>2. EntryUsed'
    BY <1>0, <1>1, <2>1 DEF EntryUsed, MapIsExact
  <2>3. LockedByWriter' /\ WritesToOpen'
    BY <1>0, <1>1, <2>1 DEF LockedByWriter, WritesToOpen
  <2>4. QED
    BY <1>2, <1>3, <2>2, <2>3 DEF StreamsSafe
<1>5. CASE LockStream(p)
  <2>1. CASE stream[entry[p]].is = "closed"
    <3>1. UNCHANGED locked /\ pub[p] = "encoded" /\ pub'[p] = "reading"
      BY <1>5, <2>1, StreamFacts DEF LockStream, Goes
    <3>2. EntryUsed' /\ LockedByWriter' /\ WritesToOpen'
      BY <1>0, <1>1, <3>1 DEF EntryUsed, LockedByWriter, WritesToOpen
    <3>3. QED
      BY <1>2, <1>3, <3>2 DEF StreamsSafe
  <2>2. CASE stream[entry[p]].is # "closed"
    <3>1. /\ UNCHANGED entry
          /\ pub[p] = "encoded" /\ pub'[p] = "writing"
          /\ locked[entry[p]] = None
          /\ locked' = [locked EXCEPT ![entry[p]] = p]
      BY <1>5, <2>2, StreamFacts DEF LockStream, Goes, Free
    <3>2. entry[p] \in Entries /\ stream[entry[p]].is = "open"
      BY <1>0, <2>2, <3>1, StreamFacts DEF EntryUsed
    <3>3. EntryUsed' /\ WritesToOpen'
      BY <1>0, <1>1, <3>1, <3>2 DEF EntryUsed, WritesToOpen
    <3>4. \A d \in Entries : locked'[d] = IF d = entry[p] THEN p ELSE locked[d]
      BY <3>1, <3>2, StreamFacts
    <3>5. LockedByWriter'
      BY <1>0, <1>1, <3>1, <3>2, <3>4, NoneAssumption DEF LockedByWriter
    <3>6. QED
      BY <1>2, <1>3, <3>3, <3>5 DEF StreamsSafe
  <2>3. QED
    BY <2>1, <2>2
<1>6. CASE Written(p)
  <2>1. /\ pub[p] = "writing" /\ pub'[p] = "reading"
        /\ locked' = [locked EXCEPT ![entry[p]] = None]
    BY <1>6, StreamFacts DEF Written, Goes
  <2>2. EntryUsed' /\ WritesToOpen'
    BY <1>0, <1>1, <2>1 DEF EntryUsed, WritesToOpen
  <2>3. \A d \in Entries : locked'[d] = IF d = entry[p] THEN None ELSE locked[d]
    BY <2>1, StreamFacts
  <2>4. entry[p] \in Entries /\ locked[entry[p]] = p
    BY <1>0, <2>1, StreamFacts DEF EntryUsed, LockedByWriter
  <2>5. LockedByWriter'
    BY <1>0, <1>1, <2>1, <2>3, <2>4, NoneAssumption DEF LockedByWriter
  <2>6. QED
    BY <1>2, <1>3, <2>2, <2>5 DEF StreamsSafe
<1>7. QED
  BY <1>4, <1>5, <1>6

\* Every step preserves the invariant.
LEMMA StreamInvStep == StreamInv /\ [Next]_vars => StreamInv'
<1> SUFFICES ASSUME StreamInv, [Next]_vars PROVE StreamInv'
  OBVIOUS
<1> USE DEF mapVars, fanVars, playerVars, streamVars, rtspVars, serverVars, closeVars, rtmpVars
<1>1. ASSUME NEW p \in Publishers,
             \/ Publish(p) \/ Read(p) \/ Lost(p) \/ AllServed(p) \/ Configure(p)
             \/ LockRegistry(p) \/ Remove(p) \/ CloseOwn(p)
      PROVE  StreamsSafe'
  <2>1. /\ UNCHANGED <<streams, stream, locked, entry>>
        /\ ~AtStream(p) /\ ~AtStream(p)'
        /\ \A q \in Publishers : q # p => pub'[q] = pub[q]
    BY <1>1, StreamFacts
    DEF Publish, Read, Lost, AllServed, Configure, LockRegistry, Remove, CloseOwn, Goes, AtStream
  <2>2. QED
    BY <2>1, StreamsUntouched
<1>2. ASSUME NEW p \in Publishers,
             DeliverHeader(p) \/ DeliverData(p) \/ CloseReplaced(p) \/ \E s \in Players : Serve(p, s)
      PROVE  StreamsSafe'
  BY <1>2, StreamsUntouched DEF DeliverHeader, DeliverData, CloseReplaced, Serve
<1>3. ASSUME NEW s \in Players,
             LookUp(s) \/ Attach(s) \/ Play(s) \/ Played(s) \/ StopPlaying(s) \/ Unsubscribe(s)
      PROVE  StreamsSafe'
  BY <1>3, StreamsUntouched DEF LookUp, Attach, Play, Played, StopPlaying, Unsubscribe
<1>4. ASSUME NEW c \in Closers, SignalClose(c) PROVE StreamsSafe'
  BY <1>4, StreamsUntouched DEF SignalClose
<1>5. ASSUME NEW c \in Clients, FindStream(c) \/ GiveStream(c) PROVE StreamsSafe'
  BY <1>5, StreamsUntouched DEF FindStream, GiveStream
<1>6. ASSUME UNCHANGED vars PROVE StreamsSafe'
  <2>1. UNCHANGED <<pub, streams, stream, locked, entry>>
    BY <1>6 DEF vars
  <2>2. \A p \in Publishers : pub'[p] = pub[p]
    BY <2>1
  <2>3. QED
    BY <2>1, <2>2, StreamsUntouched
<1>7. ASSUME NEW p \in Publishers, Working(p) PROVE StreamsSafe'
  BY <1>1, <1>2, <1>7, RegisterStep, TearDownStep, UnregisterStep, WriteStep DEF Working
<1>8. StreamsSafe'
  <2>1. CASE \E p \in Publishers : Publish(p) \/ Read(p) \/ Lost(p) \/ Working(p)
    BY <1>1, <1>7, <2>1
  <2>2. CASE Closing
    BY <1>2, <1>4, <2>2 DEF Closing
  <2>3. CASE \E s \in Players : LookUp(s) \/ Attach(s) \/ Play(s) \/ Played(s)
                                \/ StopPlaying(s) \/ Unsubscribe(s)
    BY <1>3, <2>3
  <2>4. QED
    BY <1>5, <1>6, <2>1, <2>2, <2>3 DEF Next
<1>9. TypeOK'
  BY TypeStep DEF StreamInv
<1>10. QED
  BY <1>8, <1>9 DEF StreamsSafe, StreamInv

-----------------------------------------------------------------------------
\* Publishers, streams and their locks fit together in every reachable state.
THEOREM StreamInvariant == Spec => []StreamInv
BY InitInv, StreamInvStep, PTL DEF Spec

\* For any number of publishers and players: every variable keeps its type, and no queue
\* of a player exceeds its capacity.
THEOREM TypesCorrect == Spec => []TypeOK
<1>1. StreamInv => TypeOK
  BY DEF StreamInv
<1>2. QED
  BY <1>1, StreamInvariant, PTL

\* For any number of publishers: nobody writes to a stream that has been closed.
THEOREM WritesCorrect == Spec => []WritesToOpen
<1>1. StreamInv => WritesToOpen
  BY DEF StreamInv
<1>2. QED
  BY <1>1, StreamInvariant, PTL

\* For any number of publishers and clients: a stream that can be found in the map is open, one
\* that was closed after a client had found it has left the map, and a stream that is open
\* outside of it is about to be closed.
THEOREM MapCorrect == Spec => []MapIsExact
<1>1. StreamInv => MapIsExact
  BY DEF StreamInv
<1>2. QED
  BY <1>1, StreamInvariant, PTL

\* For any number of publishers that replace one another: players are given the broadcaster
\* of the one that connected last, as long as it has not gone.
THEOREM NewestCorrect == Spec => []NewestServes
<1>1. Init => OnlyNewest /\ NewestServes
  BY InitInv
<1>2. QED
  BY <1>1, NewestStep, TypesCorrect, PTL DEF Spec

=============================================================================
