------------------------------ MODULE Streams ------------------------------
(***************************************************************************)
(* The video of one baby inside the bridge: cameras publish over RTMP      *)
(* (pkg/rtmpserver), players subscribe there, and every packet is also     *)
(* written to an RTSP stream (pkg/rtspserver), whose last key frame serves *)
(* the snapshots.                                                          *)
(*                                                                         *)
(* A publisher is one connection of the camera: a goroutine that owns a    *)
(* broadcaster and does everything for a packet before it reads the next.  *)
(* A camera that reconnects is a second publisher while the first may      *)
(* still be open.  Both meet in broadcastersByUID and in the map of RTSP   *)
(* streams, which know them only by the UID of the baby.                   *)
(*                                                                         *)
(* A queue is its length; of the headers only the number matters, and a    *)
(* camera sends configs that can be parsed and frames that can be encoded. *)
(* RTP packets, time stamps and codec settings are left out, as is the     *)
(* shutdown of the RTSP server.  The writes of a publisher to StreamState  *)
(* are steps of LocalStreaming.                                            *)
(***************************************************************************)
EXTENDS Naturals, Sequences

CONSTANTS
    Publishers,   \* connections that publish the baby's stream
    Players,      \* connections that play it
    Clients,      \* RTSP connections that ask for it
    QueueCap,     \* capacity of pktC (64 in the code)
    Sends,        \* the packets of each publisher, in order
    StreamLimit,  \* bound on the RTSP streams ever registered
    None          \* nobody

Headers == {"video config", "audio config"}
Kinds   == Headers \cup {"key frame", "sound"}

ASSUME NoneAssumption  == None \notin Publishers \cup Players
ASSUME SendsAssumption == Sends \in [Publishers -> Seq(Kinds)]
ASSUME CapAssumption   == QueueCap \in Nat \ {0}
ASSUME LimitAssumption == StreamLimit \in Nat

VARIABLES
    pub,      \* where the goroutine of each publisher is
    sent,     \* the number of packets it has read
    newest,   \* history: the publisher that connected last
    current,  \* broadcastersByUID
    headers,  \* length of broadcaster.headerPkts
    subs,     \* broadcaster.subscribers
    toServe,  \* the copy of subs that broadcast still has to serve
    turn,     \* the player being served, and the headers still owed to it
    replaced, \* publishers whose players a goroutine is going to close
    closing,  \* players that a call of closeSubscribers has still to signal
    player,   \* where handleConnection is for each player
    of,       \* the broadcaster a player has found
    started,  \* subscriber.initialized
    queue,    \* length of subscriber.pktC
    done,     \* subscriber.done is closed
    bridge,   \* rtspBridgeState
    registry, \* the holder of RTSPServer.mu
    streams,  \* RTSPServer.streams: the number of the stream, or 0
    stream,   \* the streams ever registered
    locked,   \* the holder of streamEntry.mu
    entry,    \* the stream a publisher works on
    key,      \* streamEntry.lastKeyframe: the publisher it came from
    asked     \* the stream an RTSP client has found and not been given yet, or 0

mapVars    == <<newest, current>>
fanVars    == <<headers, toServe, turn>>
playerVars == <<player, of, started, queue, done>>
streamVars == <<registry, streams, stream>>
rtspVars   == <<bridge, streamVars, locked, entry, key>>
closeVars  == <<subs, replaced, closing>>
serverVars == <<rtspVars, asked>>
rtmpVars   == <<sent, mapVars, fanVars, closeVars, playerVars>>
vars == <<pub, rtmpVars, serverVars>>

-----------------------------------------------------------------------------
\* The packet publisher p is working on.
packet(p) == Sends[p][sent[p]]

\* The calls of closeSubscribers: by the publisher itself, and by the goroutine that
\* getNewPublisher starts for the one it replaces.
Closers == Publishers \X {"own", "replaced"}

Entries == 1 .. StreamLimit

\* The goroutine of p goes from one place to the next.
Goes(p, from, to) == pub[p] = from /\ pub' = [pub EXCEPT ![p] = to]

\* closeSubscribers, under broadcaster.mu: the players are taken out of the set.
Collect(p, caller) ==
    /\ closing' = [closing EXCEPT ![<<p, caller>>] = subs[p]]
    /\ subs' = [subs EXCEPT ![p] = {}]

\* The publisher waits for the entry of stream e, and no longer than it takes to write.
Free(e) == locked[e] = None

\* The stream p has worked on was a local variable of the call that ends.
Forget(p) == entry' = [entry EXCEPT ![p] = 0]

\* streamEntry.close, under streamEntry.mu; a second call does nothing.
CloseStream(e) == stream' = [stream EXCEPT ![e].is = "closed"]

Init ==
    /\ pub = [p \in Publishers |-> "none"]
    /\ sent = [p \in Publishers |-> 0]
    /\ newest = None
    /\ current = None
    /\ headers = [p \in Publishers |-> 0]
    /\ subs = [p \in Publishers |-> {}]
    /\ toServe = [p \in Publishers |-> {}]
    /\ turn = [p \in Publishers |-> <<None, 0>>]
    /\ replaced = {}
    /\ closing = [c \in Closers |-> {}]
    /\ player = [s \in Players |-> "none"]
    /\ of = [s \in Players |-> None]
    /\ started = [s \in Players |-> FALSE]
    /\ queue = [s \in Players |-> 0]
    /\ done = [s \in Players |-> FALSE]
    /\ bridge = [p \in Publishers |-> [video |-> FALSE, audio |-> FALSE, registered |-> FALSE]]
    /\ registry = None
    /\ streams = 0
    /\ stream = [e \in Entries |-> [is |-> "unused", audio |-> FALSE]]
    /\ locked = [e \in Entries |-> None]
    /\ entry = [p \in Publishers |-> 0]
    /\ key = [e \in Entries |-> None]
    /\ asked = [c \in Clients |-> 0]

-----------------------------------------------------------------------------
(* A publisher comes                                                       *)

\* getNewPublisher: the new broadcaster takes the place of the old one, whose players
\* are closed in a goroutine of their own.
Publish(p) ==
    /\ Goes(p, "none", "reading")
    /\ newest' = p
    /\ current' = p
    /\ replaced' = replaced \cup ({current} \ {None})
    /\ UNCHANGED <<sent, fanVars, subs, closing, playerVars, serverVars>>

\* ReadPacket, and broadcast under broadcaster.mu: a header is kept for players to come,
\* data goes to a copy of the players.
Read(p) ==
    /\ sent[p] < Len(Sends[p])
    /\ sent' = [sent EXCEPT ![p] = @ + 1]
    /\ Goes(p, "reading", IF packet(p)' \in Headers THEN "bridging" ELSE "serving")
    /\ IF packet(p)' \in Headers
       THEN headers' = [headers EXCEPT ![p] = @ + 1] /\ UNCHANGED toServe
       ELSE toServe' = [toServe EXCEPT ![p] = subs[p]] /\ UNCHANGED headers
    /\ UNCHANGED <<mapVars, turn, closeVars, playerVars, serverVars>>

(* deliver                                                                 *)

Serve(p, s) ==
    /\ pub[p] = "serving"
    /\ turn[p][1] = None
    /\ s \in toServe[p]
    /\ toServe' = [toServe EXCEPT ![p] = @ \ {s}]
    /\ turn' = [turn EXCEPT ![p] = <<s, IF started[s] THEN 0 ELSE headers[p]>>]
    /\ started' = [started EXCEPT ![s] = TRUE]
    /\ UNCHANGED <<pub, sent, mapVars, headers, closeVars, player, of, queue, done, serverVars>>

\* A header waits for room or for the end of the player.
DeliverHeader(p) ==
    LET s == turn[p][1] IN
    /\ s # None
    /\ turn[p][2] > 0
    /\ \/ /\ queue[s] < QueueCap
          /\ queue' = [queue EXCEPT ![s] = @ + 1]
          /\ turn' = [turn EXCEPT ![p][2] = @ - 1]
       \/ /\ done[s]
          /\ turn' = [turn EXCEPT ![p] = <<None, 0>>]
          /\ UNCHANGED queue
    /\ UNCHANGED <<pub, sent, mapVars, headers, toServe, closeVars, player, of, started, done, serverVars>>

\* Mutant: data waits for room as well.
DeliverWaiting(p) ==
    LET s == turn[p][1] IN
    /\ s # None
    /\ turn[p][2] = 0
    /\ \/ queue[s] < QueueCap /\ queue' = [queue EXCEPT ![s] = @ + 1]
       \/ done[s] /\ UNCHANGED queue
    /\ turn' = [turn EXCEPT ![p] = <<None, 0>>]
    /\ UNCHANGED <<pub, sent, mapVars, headers, toServe, closeVars, player, of, started, done, serverVars>>

\* Data is dropped if there is no room.
DeliverData(p) ==
    LET s == turn[p][1] IN
    /\ s # None
    /\ turn[p][2] = 0
    /\ \/ queue[s] < QueueCap /\ queue' = [queue EXCEPT ![s] = @ + 1]
       \/ (done[s] \/ queue[s] = QueueCap) /\ UNCHANGED queue
    /\ turn' = [turn EXCEPT ![p] = <<None, 0>>]
    /\ UNCHANGED <<pub, sent, mapVars, headers, toServe, closeVars, player, of, started, done, serverVars>>

AllServed(p) ==
    /\ turn[p][1] = None
    /\ toServe[p] = {}
    /\ Goes(p, "serving", "bridging")
    /\ UNCHANGED <<rtmpVars, serverVars>>
-----------------------------------------------------------------------------
(* bridgeToRTSP                                                            *)

\* A header is noted; with the video config in hand a stream is registered.
Configure(p) ==
    /\ pub[p] = "bridging"
    /\ packet(p) \in Headers
    /\ LET b == [bridge[p] EXCEPT !.video = @ \/ packet(p) = "video config",
                                  !.audio = @ \/ packet(p) = "audio config"]
       IN /\ bridge' = [bridge EXCEPT ![p] = b]
          /\ Goes(p, "bridging", IF b.video THEN "registering" ELSE "reading")
    /\ UNCHANGED <<rtmpVars, streamVars, locked, entry, key, asked>>

\* RegisterStream takes RTSPServer.mu.
LockRegistry(p) ==
    /\ registry = None
    /\ registry' = p
    /\ Goes(p, "registering", "replacing")
    /\ UNCHANGED <<rtmpVars, bridge, streams, stream, locked, entry, key, asked>>

\* Mutant: the stream that is replaced is not closed.
RegisterOver(p) ==
    /\ Goes(p, "replacing", "reading")
    /\ \E e \in Entries, audio \in {FALSE, bridge[p].audio} :
          /\ stream[e].is = "unused"
          /\ \A d \in 1 .. e - 1 : stream[d].is # "unused"
          /\ stream' = [stream EXCEPT ![e] = [is |-> "open", audio |-> audio]]
          /\ streams' = e
          /\ bridge' = [bridge EXCEPT ![p].registered = TRUE]
    /\ registry' = None
    /\ UNCHANGED <<rtmpVars, locked, entry, key, asked>>

\* An existing stream is closed, whoever registered it; a new one takes its place, without
\* audio if its config is refused, or the registration fails.
Register(p) ==
    LET Left == IF streams = 0 THEN stream ELSE [stream EXCEPT ![streams].is = "closed"] IN
    /\ Goes(p, "replacing", "reading")
    /\ streams # 0 => Free(streams)
    /\ \/ /\ \E e \in Entries, audio \in {FALSE, bridge[p].audio} :
                /\ stream[e].is = "unused"
                /\ \A d \in 1 .. e - 1 : stream[d].is # "unused"
                /\ stream' = [Left EXCEPT ![e] = [is |-> "open", audio |-> audio]]
                /\ streams' = e
          /\ bridge' = [bridge EXCEPT ![p].registered = TRUE]
       \/ /\ stream' = Left
          /\ streams' = 0
          /\ UNCHANGED bridge
    /\ registry' = None
    /\ UNCHANGED <<rtmpVars, locked, entry, key, asked>>

\* Whether there is a track of stream e for a packet: WriteAAC needs the one for audio.
HasTrack(e, kind) == kind = "sound" => stream[e].audio

\* lastKeyframe gets the picture of p behind the parameter sets of the stream.
StoreKeyframe(p, e) == key' = IF packet(p) = "sound" THEN key ELSE [key EXCEPT ![e] = p]

\* WriteH264 and WriteAAC look the stream up by the UID of the baby, if the publisher has
\* registered one, and make RTP packets for it.
LookUpStream(p) ==
    /\ pub[p] = "bridging"
    /\ packet(p) \notin Headers
    /\ registry = None \/ ~bridge[p].registered
    /\ IF bridge[p].registered /\ streams # 0 /\ HasTrack(streams, packet(p))
       THEN /\ Goes(p, "bridging", "encoded")
            /\ entry' = [entry EXCEPT ![p] = streams]
            /\ StoreKeyframe(p, streams)
       ELSE Goes(p, "bridging", "reading") /\ UNCHANGED <<entry, key>>
    /\ UNCHANGED <<rtmpVars, bridge, streamVars, locked, asked>>

\* The packets are written under streamEntry.mu, unless the stream has been closed.
LockStream(p) ==
    /\ pub[p] = "encoded"
    /\ Free(entry[p])
    /\ IF stream[entry[p]].is = "closed"
       THEN Goes(p, "encoded", "reading") /\ Forget(p) /\ UNCHANGED locked
       ELSE Goes(p, "encoded", "writing") /\ locked' = [locked EXCEPT ![entry[p]] = p] /\ UNCHANGED entry
    /\ UNCHANGED <<rtmpVars, bridge, streamVars, key, asked>>

Written(p) ==
    /\ Goes(p, "writing", "reading")
    /\ locked' = [locked EXCEPT ![entry[p]] = None]
    /\ Forget(p)
    /\ UNCHANGED <<rtmpVars, bridge, streamVars, key, asked>>

-----------------------------------------------------------------------------
(* A publisher ends                                                        *)

\* ReadPacket fails.
Lost(p) ==
    /\ Goes(p, "reading", "leaving")
    /\ UNCHANGED <<rtmpVars, serverVars>>

\* Mutant: the broadcaster of the baby is removed, whosever it is.
RemoveAny(p) ==
    /\ Goes(p, "leaving", "removed")
    /\ current' = None
    /\ UNCHANGED <<sent, newest, fanVars, closeVars, playerVars, serverVars>>

\* closePublisher: only its own broadcaster is removed from the map.
Remove(p) ==
    /\ Goes(p, "leaving", "removed")
    /\ current' = IF current = p THEN None ELSE current
    /\ UNCHANGED <<sent, newest, fanVars, closeVars, playerVars, serverVars>>

\* Mutant: the players of a broadcaster that has been replaced are left to the goroutine.
CloseIfCurrent(p) ==
    /\ Goes(p, "removed", "closing")
    /\ IF newest = p THEN Collect(p, "own") ELSE UNCHANGED <<subs, closing>>
    /\ UNCHANGED <<sent, mapVars, fanVars, replaced, playerVars, serverVars>>

CloseOwn(p) ==
    /\ Goes(p, "removed", "closing")
    /\ Collect(p, "own")
    /\ UNCHANGED <<sent, mapVars, fanVars, replaced, playerVars, serverVars>>

CloseReplaced(p) ==
    /\ p \in replaced
    /\ replaced' = replaced \ {p}
    /\ Collect(p, "replaced")
    /\ UNCHANGED <<pub, sent, mapVars, fanVars, playerVars, serverVars>>

\* closeSubscribers signals the players it has collected, one by one.
SignalClose(c) ==
    /\ \E s \in closing[c] :
          /\ done' = [done EXCEPT ![s] = TRUE]
          /\ closing' = [closing EXCEPT ![c] = @ \ {s}]
    /\ UNCHANGED <<pub, sent, mapVars, fanVars, subs, replaced, player, of, started, queue, serverVars>>

\* UnregisterStream: the stream of the baby is taken out of the map, whosever it is ...
Unregister(p) ==
    /\ closing[<<p, "own">>] = {}
    /\ registry = None
    /\ Goes(p, "closing", IF streams = 0 THEN "gone" ELSE "unregistered")
    /\ entry' = [entry EXCEPT ![p] = streams]
    /\ streams' = 0
    /\ UNCHANGED <<rtmpVars, bridge, registry, stream, locked, key, asked>>

\* Mutant: the stream is closed without streamEntry.mu.
TearDownUnlocked(p) ==
    /\ Goes(p, "unregistered", "gone")
    /\ CloseStream(entry[p])
    /\ Forget(p)
    /\ UNCHANGED <<rtmpVars, bridge, registry, streams, locked, key, asked>>

\* ... and closed afterwards.
TearDown(p) ==
    /\ Goes(p, "unregistered", "gone")
    /\ Free(entry[p])
    /\ CloseStream(entry[p])
    /\ Forget(p)
    /\ UNCHANGED <<rtmpVars, bridge, registry, streams, locked, key, asked>>

-----------------------------------------------------------------------------
(* Players, RTSP clients and snapshots                                     *)

\* getNewSubscriber finds the broadcaster of the baby, or the connection is closed.
LookUp(s) ==
    /\ player[s] = "none"
    /\ player' = [player EXCEPT ![s] = IF current = None THEN "gone" ELSE "found"]
    /\ of' = [of EXCEPT ![s] = current]
    /\ UNCHANGED <<pub, sent, mapVars, fanVars, closeVars, started, queue, done, serverVars>>

\* newSubscriber, on the broadcaster found, whatever has become of it.
Attach(s) ==
    /\ player[s] = "found"
    /\ player' = [player EXCEPT ![s] = "playing"]
    /\ subs' = [subs EXCEPT ![of[s]] = @ \cup {s}]
    /\ UNCHANGED <<pub, sent, mapVars, fanVars, replaced, closing, of, started, queue, done, serverVars>>

\* A packet is being written to the player.
Play(s) ==
    /\ player[s] = "playing"
    /\ queue[s] > 0
    /\ queue' = [queue EXCEPT ![s] = @ - 1]
    /\ player' = [player EXCEPT ![s] = "writing"]
    /\ UNCHANGED <<pub, sent, mapVars, fanVars, closeVars, of, started, done, serverVars>>

\* WritePacket returns, if the connection of the player takes the data.
Played(s) ==
    /\ player[s] = "writing"
    /\ player' = [player EXCEPT ![s] = "playing"]
    /\ UNCHANGED <<pub, sent, mapVars, fanVars, closeVars, of, started, queue, done, serverVars>>

\* The publisher has quit, or the player has gone.
StopPlaying(s) ==
    /\ player[s] = "playing"
    /\ player' = [player EXCEPT ![s] = "leaving"]
    /\ UNCHANGED <<pub, sent, mapVars, fanVars, closeVars, of, started, queue, done, serverVars>>

NoticeClose(s) == done[s] /\ StopPlaying(s)

\* The deferred unsubscribe.
Unsubscribe(s) ==
    /\ player[s] = "leaving"
    /\ player' = [player EXCEPT ![s] = "gone"]
    /\ subs' = [subs EXCEPT ![of[s]] = @ \ {s}]
    /\ done' = [done EXCEPT ![s] = TRUE]
    /\ UNCHANGED <<pub, sent, mapVars, fanVars, replaced, closing, of, started, queue, serverVars>>

\* DESCRIBE and SETUP find the stream of the baby under RTSPServer.mu, or none ...
FindStream(c) ==
    /\ asked[c] = 0
    /\ registry = None
    /\ streams # 0
    /\ asked' = [asked EXCEPT ![c] = streams]
    /\ UNCHANGED <<pub, rtmpVars, rtspVars>>

\* ... and give it to the client when they have let go of the lock.
GiveStream(c) ==
    /\ asked[c] # 0
    /\ asked' = [asked EXCEPT ![c] = 0]
    /\ UNCHANGED <<pub, rtmpVars, rtspVars>>

\* What a snapshot is made from.
GetKeyframe == IF streams = 0 THEN None ELSE key[streams]

-----------------------------------------------------------------------------
Working(p) ==
    \/ (\E s \in Players : Serve(p, s)) \/ DeliverHeader(p) \/ DeliverData(p)
    \/ AllServed(p) \/ Configure(p) \/ LockRegistry(p) \/ Register(p) \/ LookUpStream(p)
    \/ LockStream(p) \/ Written(p) \/ Remove(p) \/ CloseOwn(p) \/ Unregister(p) \/ TearDown(p)

Closing == (\E p \in Publishers : CloseReplaced(p)) \/ (\E c \in Closers : SignalClose(c))

Playing(s) == Play(s) \/ NoticeClose(s)

Next ==
    \/ \E p \in Publishers :
          Publish(p) \/ Read(p) \/ Lost(p) \/ Working(p)
    \/ Closing
    \/ \E s \in Players : LookUp(s) \/ Attach(s) \/ Play(s) \/ Played(s) \/ StopPlaying(s) \/ Unsubscribe(s)
    \/ \E c \in Clients : FindStream(c) \/ GiveStream(c)

Spec == Init /\ [][Next]_vars

\* Goroutines go on.  Nobody has to publish, to send, to play, to ask or to leave, and
\* WritePacket need not return.
FairSpec ==
    /\ Spec
    /\ \A p \in Publishers : WF_vars(Working(p)) /\ WF_vars(CloseReplaced(p))
    /\ \A c \in Closers : WF_vars(SignalClose(c))
    /\ \A s \in Players : WF_vars(Attach(s)) /\ WF_vars(Playing(s)) /\ WF_vars(Unsubscribe(s))

-----------------------------------------------------------------------------
(* Properties                                                              *)

Places == {"none", "reading", "serving", "bridging", "registering", "replacing", "encoded",
           "writing", "leaving", "removed", "closing", "unregistered", "gone"}

\* Every variable has its type: those of the publishers and their map, ...
PublisherTypes ==
    /\ pub \in [Publishers -> Places]
    /\ sent \in [Publishers -> Nat]
    /\ \A p \in Publishers : sent[p] <= Len(Sends[p])
    /\ newest \in Publishers \cup {None}
    /\ current \in Publishers \cup {None}

\* ... of the broadcasters, ...
FanTypes ==
    /\ headers \in [Publishers -> Nat]
    /\ subs \in [Publishers -> SUBSET Players]
    /\ toServe \in [Publishers -> SUBSET Players]
    /\ turn \in [Publishers -> (Players \cup {None}) \X Nat]
    /\ replaced \subseteq Publishers
    /\ closing \in [Closers -> SUBSET Players]

\* ... of the players, ...
PlayerTypes ==
    /\ player \in [Players -> {"none", "found", "playing", "writing", "leaving", "gone"}]
    /\ of \in [Players -> Publishers \cup {None}]
    /\ started \in [Players -> BOOLEAN]
    /\ queue \in [Players -> 0 .. QueueCap]
    /\ done \in [Players -> BOOLEAN]

\* ... and of the RTSP streams.
StreamTypes ==
    /\ bridge \in [Publishers -> [video : BOOLEAN, audio : BOOLEAN, registered : BOOLEAN]]
    /\ registry \in Publishers \cup {None}
    /\ streams \in 0 .. StreamLimit
    /\ stream \in [Entries -> [is : {"unused", "open", "closed"}, audio : BOOLEAN]]
    /\ locked \in [Entries -> Publishers \cup {None}]
    /\ entry \in [Publishers -> 0 .. StreamLimit]
    /\ key \in [Entries -> Publishers \cup {None}]
    /\ asked \in [Clients -> 0 .. StreamLimit]

TypeOK == PublisherTypes /\ FanTypes /\ PlayerTypes /\ StreamTypes

\* A publisher that has been replaced does not take its successor's broadcaster away: as long
\* as the publisher that connected last has not gone, RTMP players are given its broadcaster.
NewestServes ==
    newest # None /\ pub[newest] \notin {"removed", "closing", "unregistered", "gone"}
        => current = newest

\* "gortsplib's ServerStream is not safe against concurrent Close+Write" (server.go:23):
\* while a publisher writes to a stream, the stream is open.
WritesToOpen == \A p \in Publishers : pub[p] = "writing" => stream[entry[p]].is = "open"

\* A stream that an RTSP client can find is open, and one that was closed after a client had
\* found it is not in the map any more, so that the client finds another one if it asks again;
\* and no stream stays open outside of the map, where nobody would ever close it.
MapIsExact ==
    /\ streams # 0 => stream[streams].is = "open"
    /\ \A c \in Clients : asked[c] # 0 /\ stream[asked[c]].is = "closed" => asked[c] # streams
    /\ \A e \in Entries :
          stream[e].is = "open" => e = streams \/ \E p \in Publishers : pub[p] = "unregistered" /\ entry[p] = e

\* No client is given a stream that has been closed.  It does not hold: the stream is given
\* out after the lock has been released.
GivenIsOpen == [][\A c \in Clients : GiveStream(c) => stream[asked[c]].is = "open"]_vars

\* The publisher waits to hand a header to a player with a full queue whose connection takes
\* nothing and that nobody has closed.
HeaderStuck(p) ==
    \E s \in Players :
        turn[p][1] = s /\ turn[p][2] > 0 /\ queue[s] = QueueCap /\ player[s] = "writing" /\ ~done[s]

\* "a slow subscriber drops packets rather than stalling the publisher's read loop"
\* (broadcaster.go:85-86): no player, RTSP stream or other publisher holds up a publisher for
\* good, but for a stuck player to whom headers are owed, which it waits for on purpose.
PublisherGoesOn ==
    \A p \in Publishers :
        (pub[p] \notin {"none", "reading", "gone"}) ~> (pub[p] \in {"reading", "gone"} \/ []HeaderStuck(p))

\* The players that are attached to a publisher when it leaves are closed, be it the current
\* one or one that has been replaced, unless they are stuck in a write.
PlayersAreClosed ==
    \A s \in Players :
        (player[s] = "playing" /\ pub[of[s]] = "removed") ~> [](player[s] \in {"gone", "writing"})

\* The same for every player.  It does not hold: newSubscriber may attach a player to a
\* broadcaster whose players have just been closed.
EveryPlayerIsClosed ==
    \A s \in Players :
        (player[s] = "playing" /\ pub[of[s]] = "gone") ~> [](player[s] \in {"gone", "writing"})

\* The key frame of a snapshot comes from the publisher whose parameter sets precede it.
\* It does not hold while two publishers write to the stream of the baby.
KeyFrameIsOwn == GetKeyframe # None /\ current # None => GetKeyframe = current

-----------------------------------------------------------------------------
(* What every step preserves                                               *)

\* Only the publisher that connected last can be the one players are given.
OnlyNewest == current \in {None, newest}

\* The stream a publisher works on has been registered.
EntryUsed ==
    \A p \in Publishers : pub[p] \in {"encoded", "writing", "unregistered"} =>
        entry[p] # 0 /\ stream[entry[p]].is # "unused"

\* streamEntry.mu is held by the publisher that writes to the stream, and by no other.
LockedByWriter ==
    \A p \in Publishers, e \in Entries :
        locked[e] = p <=> pub[p] = "writing" /\ entry[p] = e

\* The stream a publisher is about to tear down is no longer in the map.
TornDownIsOut ==
    \A p \in Publishers : pub[p] = "unregistered" => entry[p] # streams

\* The strengthening of WritesToOpen and MapIsExact that every step preserves.
StreamInv ==
    /\ TypeOK
    /\ EntryUsed
    /\ LockedByWriter
    /\ TornDownIsOut
    /\ WritesToOpen
    /\ MapIsExact
=============================================================================
