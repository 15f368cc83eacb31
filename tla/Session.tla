------------------------------ MODULE Session ------------------------------
(***************************************************************************)
(* The session of the application and those who use it: the REST client    *)
(* (pkg/client/rest.go), the store with its file (pkg/session) and, as     *)
(* their callers, App.Run, the polling of messages (App.pollMessages), the *)
(* websocket managers, which authorize, and the logins of the dashboard    *)
(* (pkg/web), each of which starts to poll once more (Config.OnLogin).     *)
(*                                                                         *)
(* The server is known by how the client uses it: a refresh token is good  *)
(* for one renewal, which brings the next one; with the one before it      *)
(* answers 404.  A token is a number; the access token and the refresh     *)
(* token of one answer share theirs.  Messages are numbered by their time. *)
(* The disk is assumed to work, but the process may be killed while it     *)
(* writes.                                                                 *)
(***************************************************************************)
EXTENDS Naturals, Sequences, FiniteSetsExt

CONSTANTS
    Babies,      \* the babies of the account
    Pollers,     \* the goroutines of pollMessages a process can have: a bound on OnLogin
    BabyOf,      \* the baby each of them polls
    Links,       \* websocket managers, which authorize before they connect
    Logins,      \* the logins of the dashboard
    Main,        \* App.Run
    Messages,    \* the babies of the messages, in the order of their time
    TokenLimit,  \* bound on the tokens issued
    CrashLimit,  \* bound on the crashes
    None         \* no token, nobody

Clients == Pollers \cup Links \cup Logins \cup {Main}
Times   == DOMAIN Messages

ASSUME MessagesAssumption == Messages \in Seq(Babies)
ASSUME PollersAssumption  == BabyOf \in [Pollers -> Babies]
ASSUME ClientsAssumption  ==
    /\ Pollers \cap (Links \cup Logins) = {}
    /\ Main \notin Pollers \cup Links \cup Logins
ASSUME NoneAssumption     == None \notin Clients \cup Nat

\* NewSessionStore, and a session file that cannot be decoded.
Fresh     == [auth |-> None, refresh |-> None, babies |-> FALSE, seen |-> 0]
Truncated == <<>>

\* NANIT_REFRESH_TOKEN.
OptsToken == 0

VARIABLES
    session,   \* Store.session
    file,      \* what is in the session file
    saving,    \* who holds Store.mu in saveLocked
    given,     \* NanitClient.RefreshToken
    pc,        \* where each client is
    token,     \* the token each client has sent or received
    tries,     \* the requests left to FetchAuthorized, or None outside of it
    got,       \* the messages a poll has fetched
    after,     \* messageTimeoutTime
    valid,     \* refresh tokens the server takes
    access,    \* access tokens the server takes
    issued,    \* the last token issued
    posted,    \* the number of messages there are at the server
    reported,  \* history: how often each message was returned as a new one
    crashes,   \* the number of crashes
    lost,      \* history: what the client never got to keep
    boot,      \* what App.Run does next
    polling,   \* the goroutines of pollMessages of this process
    rivals     \* history: a process had two of them

storeVars  == <<session, file, saving>>
callVars   == <<token, tries>>
pollVars   == <<got, after, reported>>
serverVars == <<valid, access, issued>>
faultVars  == <<crashes, lost>>
appVars    == <<boot, polling, rivals>>
vars == <<storeVars, given, pc, callVars, pollVars, serverVars, posted, faultVars, appVars>>

-----------------------------------------------------------------------------
Init ==
    /\ session = Fresh
    /\ file = Truncated
    /\ saving = None
    /\ given = OptsToken
    /\ pc = [g \in Clients |-> "idle"]
    /\ token = [g \in Clients |-> None]
    /\ tries = [g \in Clients |-> None]
    /\ got = [p \in Pollers |-> {}]
    /\ after = [p \in Pollers |-> 0]
    /\ valid = {OptsToken}
    /\ access = {}
    /\ issued = OptsToken
    /\ posted = 0
    /\ reported = [m \in Times |-> 0]
    /\ crashes = 0
    /\ lost = {}
    /\ boot = "authorize"
    /\ polling = {}
    /\ rivals = FALSE

\* The client goes on to its next step.
Goes(g, from, to) == pc[g] = from /\ pc' = [pc EXCEPT ![g] = to]

\* The call returns.
Returns(g, from) ==
    /\ pc[g] = from
    /\ pc' = [pc EXCEPT ![g] = "idle"]
    /\ token' = [token EXCEPT ![g] = None]
    /\ tries' = [tries EXCEPT ![g] = None]

\* Snapshot.
Unlocked == saving = None

\* Update changes the session and saves it: the file is truncated ...
Update(g, s) ==
    /\ Unlocked
    /\ session' = s
    /\ file' = Truncated
    /\ saving' = g

\* ... and then written.
Write ==
    /\ saving # None
    /\ file' = session
    /\ saving' = None
    /\ UNCHANGED <<session, given, pc, callVars, pollVars, serverVars, posted, faultVars, appVars>>

\* Where Authorize returns to.
Continue(g) ==
    IF tries[g] # None THEN "fetching" ELSE IF g \in Logins THEN "babies" ELSE "idle"

-----------------------------------------------------------------------------
(* Authorize                                                               *)

\* MaybeAuthorize by a manager, forced or because the token is assumed to have expired.
\* The managers are started by handleBaby, as the pollers are.
MaybeAuthorize(g) ==
    /\ g \in Links /\ polling # {}
    /\ Unlocked
    /\ Goes(g, "idle", "authorizing")
    /\ UNCHANGED <<storeVars, given, callVars, pollVars, serverVars, posted, faultVars, appVars>>

Seed(g) ==
    /\ Goes(g, "authorizing", "seeded")
    /\ Update(g, IF session.refresh = None THEN [session EXCEPT !.refresh = given] ELSE session)
    /\ UNCHANGED <<given, callVars, pollVars, serverVars, posted, faultVars, appVars>>

\* RenewSession reads the refresh token and sends it.
Renew(g) ==
    /\ Unlocked
    /\ Goes(g, "seeded", "renewing")
    /\ token' = [token EXCEPT ![g] = session.refresh]
    /\ UNCHANGED <<storeVars, given, tries, pollVars, serverVars, posted, faultVars, appVars>>

\* The server answers with new tokens ...
Renewed(g) ==
    /\ token[g] \in valid
    /\ issued < TokenLimit
    /\ Goes(g, "renewing", "renewed")
    /\ issued' = issued + 1
    /\ valid' = (valid \ {token[g]}) \cup {issued'}
    /\ access' = access \cup {issued'}
    /\ token' = [token EXCEPT ![g] = issued']
    /\ UNCHANGED <<storeVars, given, tries, pollVars, posted, faultVars, appVars>>

\* ... which may not arrive in the ten seconds of the HTTP client.
AnswerLost(g) ==
    /\ Returns(g, "renewed")
    /\ lost' = lost \cup {"token"}
    /\ UNCHANGED <<storeVars, given, pollVars, serverVars, posted, crashes, appVars>>

\* 404, or the request fails.
NotRenewed(g) ==
    /\ Returns(g, "renewing")
    /\ UNCHANGED <<storeVars, given, pollVars, serverVars, posted, faultVars, appVars>>

\* Mutant: the refresh token that comes with the access token is not stored.
StoreAccessToken(g) ==
    /\ IF Continue(g) = "idle" THEN Returns(g, "renewed") ELSE Goes(g, "renewed", Continue(g)) /\ UNCHANGED callVars
    /\ Update(g, [session EXCEPT !.auth = token[g]])
    /\ UNCHANGED <<given, pollVars, serverVars, posted, faultVars, appVars>>

StoreTokens(g) ==
    /\ IF Continue(g) = "idle" THEN Returns(g, "renewed") ELSE Goes(g, "renewed", Continue(g)) /\ UNCHANGED callVars
    /\ Update(g, [session EXCEPT !.auth = token[g], !.refresh = token[g]])
    /\ UNCHANGED <<given, pollVars, serverVars, posted, faultVars, appVars>>

-----------------------------------------------------------------------------
(* FetchAuthorized                                                         *)

\* A request with the token of the session; without one the first of the two tries is spent.
Request(g) ==
    /\ Unlocked
    /\ pc[g] = "fetching" /\ tries[g] > 0
    /\ Goes(g, "fetching", IF session.auth = None THEN "authorizing" ELSE "waiting")
    /\ token' = [token EXCEPT ![g] = session.auth]
    /\ tries' = [tries EXCEPT ![g] = IF session.auth = None THEN @ - 1 ELSE @]
    /\ UNCHANGED <<storeVars, given, pollVars, serverVars, posted, faultVars, appVars>>

\* 401.
Unauthorized(g) ==
    /\ token[g] \notin access
    /\ Goes(g, "waiting", "authorizing")
    /\ tries' = [tries EXCEPT ![g] = @ - 1]
    /\ UNCHANGED <<storeVars, given, token, pollVars, serverVars, posted, faultVars, appVars>>

\* Two tries have failed, or the request has.
GiveUp(g) ==
    /\ saving # g
    /\ tries[g] # None
    /\ Returns(g, "waiting") \/ (tries[g] = 0 /\ Returns(g, "fetching"))
    /\ UNCHANGED <<storeVars, given, pollVars, serverVars, posted, faultVars, appVars>>

-----------------------------------------------------------------------------
(* FetchNewMessages                                                        *)

\* pollMessages polls at its start and at every tick.
Poll(p) ==
    /\ p \in polling
    /\ Goes(p, "idle", "fetching")
    /\ tries' = [tries EXCEPT ![p] = 2]
    /\ UNCHANGED <<storeVars, given, token, pollVars, serverVars, posted, faultVars, appVars>>

\* The messages there are (of which the ten newest are asked for).
FetchMessages(p) ==
    /\ token[p] \in access
    /\ got' = [got EXCEPT ![p] = {m \in 1 .. posted : Messages[m] = BabyOf[p]}]
    /\ IF got'[p] = {} THEN Returns(p, "waiting") ELSE Goes(p, "waiting", "fetched") /\ UNCHANGED callVars
    /\ UNCHANGED <<storeVars, given, after, reported, serverVars, posted, faultVars, appVars>>

\* The time of the last message is read; if there is none, a time is chosen by the clock.
ReadSeen(p) ==
    /\ Unlocked
    /\ IF session.seen = 0
       THEN \E t \in Times \cup {0} : after' = [after EXCEPT ![p] = t]
       ELSE after' = [after EXCEPT ![p] = session.seen]
    /\ Goes(p, "fetched", IF session.seen < Max(got[p]) THEN "newer" ELSE "filtering")
    /\ UNCHANGED <<storeVars, given, callVars, got, reported, serverVars, posted, faultVars, appVars>>

\* Mutant: the time is kept in memory and saved with whatever is saved next.
SeenInMemory(p) ==
    /\ Unlocked
    /\ Goes(p, "newer", "filtering")
    /\ session' = [session EXCEPT !.seen = Max(got[p])]
    /\ UNCHANGED <<file, saving, given, callVars, pollVars, serverVars, posted, faultVars, appVars>>

StoreSeen(p) ==
    /\ Goes(p, "newer", "filtering")
    /\ Update(p, [session EXCEPT !.seen = Max(got[p])])
    /\ UNCHANGED <<given, callVars, pollVars, serverVars, posted, faultVars, appVars>>

\* FilterMessages.
Report(p) ==
    /\ saving # p
    /\ Returns(p, "filtering")
    /\ reported' = [m \in Times |-> IF m \in got[p] /\ m > after[p] THEN reported[m] + 1 ELSE reported[m]]
    /\ got' = [got EXCEPT ![p] = {}]
    /\ after' = [after EXCEPT ![p] = 0]
    /\ UNCHANGED <<storeVars, given, serverVars, posted, faultVars, appVars>>

-----------------------------------------------------------------------------
(* The dashboard                                                           *)

\* Login, or the second one with the code of the MFA; a failed one changes nothing.
Login(w) ==
    /\ issued < TokenLimit
    /\ Goes(w, "idle", "logged in")
    /\ issued' = issued + 1
    /\ valid' = valid \cup {issued'}
    /\ token' = [token EXCEPT ![w] = issued']
    /\ UNCHANGED <<storeVars, given, tries, pollVars, access, posted, faultVars, appVars>>

StoreLogin(w) ==
    /\ Goes(w, "logged in", "login stored")
    /\ Update(w, [session EXCEPT !.refresh = token[w]])
    /\ UNCHANGED <<given, callVars, pollVars, serverVars, posted, faultVars, appVars>>

\* RestClient.RefreshToken is set, and the session is renewed.
GiveToken(w) ==
    /\ saving # w
    /\ Goes(w, "login stored", "authorizing")
    /\ given' = token[w]
    /\ UNCHANGED <<storeVars, callVars, pollVars, serverVars, posted, faultVars, appVars>>

\* EnsureBabies: a login goes on to OnLogin if the babies are known.
EnsureBabies(w) ==
    /\ Unlocked
    /\ IF session.babies
       THEN Goes(w, "babies", "starting") /\ UNCHANGED tries
       ELSE Goes(w, "babies", "fetching") /\ tries' = [tries EXCEPT ![w] = 2]
    /\ UNCHANGED <<storeVars, given, token, pollVars, serverVars, posted, faultVars, appVars>>

FetchBabies(w) ==
    /\ token[w] \in access
    /\ Goes(w, "waiting", "fetched babies")
    /\ UNCHANGED <<storeVars, given, callVars, pollVars, serverVars, posted, faultVars, appVars>>

StoreBabies(w) ==
    /\ IF w \in Logins THEN Goes(w, "fetched babies", "starting") /\ UNCHANGED callVars
       ELSE Returns(w, "fetched babies")
    /\ Update(w, [session EXCEPT !.babies = TRUE])
    /\ UNCHANGED <<given, pollVars, serverVars, posted, faultVars, appVars>>

\* handleBaby is run for every baby of the session and starts a poller, whether or not the
\* baby has one.
HandleBabies ==
    /\ \E new \in SUBSET (Pollers \ polling) :
          /\ \A p, q \in new : BabyOf[p] = BabyOf[q] => p = q
          /\ session.babies => \A b \in Babies : \E p \in new : BabyOf[p] = b
          /\ ~ session.babies => new = {}
          /\ polling' = polling \cup new
    /\ rivals' = (rivals \/ \E p, q \in polling' : p # q)

\* Config.OnLogin.
OnLogin(w) ==
    /\ Unlocked
    /\ Returns(w, "starting")
    /\ HandleBabies
    /\ UNCHANGED <<storeVars, given, pollVars, serverVars, posted, faultVars, boot>>

-----------------------------------------------------------------------------
(* App.Run                                                                 *)

\* A token that is there may be taken to be good; a failure is not fatal.
RunAuthorizes ==
    /\ boot = "authorize" /\ boot' = "babies"
    /\ Unlocked
    /\ Goes(Main, "idle", "authorizing") \/ (session.auth # None /\ UNCHANGED pc)
    /\ UNCHANGED <<storeVars, given, callVars, pollVars, serverVars, posted, faultVars, polling, rivals>>

\* Without a token, App.Run leaves the babies to the logins.
RunEnsuresBabies ==
    /\ boot = "babies" /\ boot' = "start"
    /\ Unlocked
    /\ pc[Main] = "idle"
    /\ IF session.auth = None \/ session.babies THEN UNCHANGED <<pc, tries>>
       ELSE Goes(Main, "idle", "fetching") /\ tries' = [tries EXCEPT ![Main] = 2]
    /\ UNCHANGED <<storeVars, given, token, pollVars, serverVars, posted, faultVars, polling, rivals>>

RunStarts ==
    /\ boot = "start" /\ boot' = "running"
    /\ Unlocked
    /\ pc[Main] = "idle"
    /\ HandleBabies
    /\ UNCHANGED <<storeVars, given, pc, callVars, pollVars, serverVars, posted, faultVars>>

-----------------------------------------------------------------------------
(* The server, and the end of the process                                  *)

Post ==
    /\ posted < Len(Messages)
    /\ posted' = posted + 1
    /\ UNCHANGED <<storeVars, given, pc, callVars, pollVars, serverVars, faultVars, appVars>>

\* Access tokens expire.
Expire ==
    /\ access # {}
    /\ access' = {}
    /\ UNCHANGED <<storeVars, given, pc, callVars, pollVars, valid, issued, posted, faultVars, appVars>>

\* The process is killed and started again: Load takes the session file, if it can be
\* decoded, and the refresh token of the options is back.
Crash ==
    /\ crashes < CrashLimit
    /\ crashes' = crashes + 1
    /\ session' = IF file = Truncated THEN Fresh ELSE file
    /\ saving' = None
    /\ given' = OptsToken
    /\ pc' = [g \in Clients |-> "idle"]
    /\ token' = [g \in Clients |-> None]
    /\ tries' = [g \in Clients |-> None]
    /\ got' = [p \in Pollers |-> {}]
    /\ after' = [p \in Pollers |-> 0]
    /\ boot' = "authorize"
    /\ polling' = {}
    /\ lost' = lost \cup (IF saving # None THEN {"file"} ELSE {})
                    \cup (IF \E g \in Clients : pc[g] = "renewed" THEN {"token"} ELSE {})
    /\ UNCHANGED <<file, reported, serverVars, posted, rivals>>

Authorizing(g) ==
    \/ MaybeAuthorize(g) \/ Seed(g) \/ Renew(g) \/ Renewed(g) \/ AnswerLost(g) \/ NotRenewed(g)
    \/ StoreTokens(g)

Fetching(g) == Request(g) \/ Unauthorized(g) \/ GiveUp(g)

Polling(p) == Poll(p) \/ FetchMessages(p) \/ ReadSeen(p) \/ StoreSeen(p) \/ Report(p)

LoggingIn(w) == Login(w) \/ StoreLogin(w) \/ GiveToken(w) \/ EnsureBabies(w) \/ OnLogin(w)

Running == RunAuthorizes \/ RunEnsuresBabies \/ RunStarts

Next ==
    \/ \E g \in Clients : Authorizing(g) \/ Fetching(g)
    \/ \E p \in Pollers : Polling(p)
    \/ \E w \in Logins : LoggingIn(w)
    \/ \E w \in Logins \cup {Main} : FetchBabies(w) \/ StoreBabies(w)
    \/ Running
    \/ Write \/ Post \/ Expire \/ Crash

Spec == Init /\ [][Next]_vars

-----------------------------------------------------------------------------
(* Properties                                                              *)

Tokens   == Nat \cup {None}
Sessions == [auth : Tokens, refresh : Tokens, babies : BOOLEAN, seen : Times \cup {0}]
Places   == {"idle", "authorizing", "seeded", "renewing", "renewed", "fetching", "waiting", "fetched",
             "newer", "filtering", "logged in", "login stored", "babies", "fetched babies",
             "starting"}

\* The types of the store, ...
StoreTypes ==
    /\ session \in Sessions
    /\ file \in Sessions \cup {Truncated}
    /\ saving \in Clients \cup {None}

\* ... of the calls, with tries left while a request is on its way, ...
CallTypes ==
    /\ given \in Tokens
    /\ pc \in [Clients -> Places]
    /\ token \in [Clients -> Tokens]
    /\ tries \in [Clients -> 0 .. 2 \cup {None}]
    /\ \A g \in Clients : /\ pc[g] = "fetching" => tries[g] \in 0 .. 2
                          /\ pc[g] = "waiting" => tries[g] \in 1 .. 2

\* ... of the polls, with messages once they were fetched, ...
PollTypes ==
    /\ got \in [Pollers -> SUBSET Times]
    /\ \A p \in Pollers : pc[p] \in {"fetched", "newer", "filtering"} => got[p] # {}
    /\ after \in [Pollers -> Times \cup {0}]
    /\ reported \in [Times -> Nat]

\* ... of App.Run and what it has started, ...
AppTypes ==
    /\ boot \in {"authorize", "babies", "start", "running"}
    /\ polling \subseteq Pollers
    /\ rivals \in BOOLEAN

\* ... and of the server and the faults.
ServerTypes ==
    /\ issued \in Nat /\ valid \subseteq 0 .. issued /\ access \subseteq 0 .. issued
    /\ posted \in 0 .. Len(Messages)
    /\ crashes \in Nat
    /\ lost \subseteq {"token", "file"}

\* Every variable has its type.
TypeOK == StoreTypes /\ CallTypes /\ PollTypes /\ AppTypes /\ ServerTypes

\* The refresh token of the session is one the server takes, whoever renews, logs in or crashes
\* meanwhile, unless an answer or the session file was lost: nobody has to log in again for
\* having renewed at the same time as somebody else.
TokenIsGood ==
    lost = {} /\ (\A g \in Clients : pc[g] # "renewed") => session.refresh \in valid \cup {None}

\* FetchNewMessages "ignores any messages which were already fetched" (rest.go:279), those
\* fetched before a crash or a restart included, unless the session file was lost.
\* It does not hold when two goroutines poll: those of two babies, or the one of App.Run and
\* the one a login has started for the same baby (app.go:82-88, 212-216).
FetchedOnce == "file" \notin lost => \A m \in Times : reported[m] < 2

\* It does when no process has had more than one: then a crash between any two steps of a poll,
\* of a renewal or of a login makes no message come back.
FetchedIsIgnored == ~ rivals => FetchedOnce

\* A refused renewal means that the token of the session has expired (rest.go:115-117).  It
\* does not hold: another client may have renewed it in the meantime.
RefusedIsExpired ==
    \A g \in Clients : lost = {} /\ pc[g] = "renewing" => token[g] \in valid

\* A message is ignored only if it was fetched or is older than those there were before the
\* first poll.  It does not hold for two babies, who share the time of the last message.
NothingSkipped ==
    [][\A p \in Pollers, m \in Times :
          Report(p) /\ session.seen # 0 /\ m \in got[p] /\ m <= after[p] => reported[m] > 0]_vars

-----------------------------------------------------------------------------
(* What every step preserves                                               *)

\* The tokens in use were issued.
Known ==
    /\ {session.auth, session.refresh, given} \subseteq 0 .. issued \cup {None}
    /\ \A g \in Clients : token[g] \in 0 .. issued \cup {None}

\* While nobody saves, the file gives the session back.
Saved == IF saving = None THEN session = IF file = Truncated THEN Fresh ELSE file ELSE file = Truncated

\* Tokens that have been answered and not stored: the server takes them, and nobody else has them.
NewTokens ==
    \A g \in Clients :
        pc[g] \in {"renewed", "logged in"} =>
            /\ token[g] \in valid \ {OptsToken}
            /\ token[g] # session.refresh
            /\ \A h \in Clients \ {g} : pc[h] \in {"renewing", "renewed", "logged in"} => token[h] # token[g]

\* A session without a refresh token: it gets the one of the options.
Unseeded ==
    session.refresh = None =>
        /\ given = OptsToken
        /\ \A g \in Clients : pc[g] \notin {"seeded", "renewing", "renewed", "login stored"}
        /\ lost = {} => OptsToken \in valid

TokenInv == TypeOK /\ Known /\ Saved /\ NewTokens /\ Unseeded /\ TokenIsGood

\* Only goroutines that were started poll, and without rivals there is one of them.
Alone ==
    /\ \A p \in Pollers : pc[p] # "idle" => p \in polling
    /\ ~ rivals => \A p, q \in polling : p = q

\* What a poller without rivals knows of the messages it has fetched.
Polled ==
    ~ rivals =>
        \A p \in Pollers :
            /\ pc[p] = "newer" => session.seen < Max(got[p])
            /\ pc[p] = "filtering" => \A m \in got[p] : m <= session.seen

\* A message that was returned is not after the time stored, nor after the time that is compared.
SeenIsLatest ==
    "file" \notin lost /\ ~ rivals =>
        \A m \in Times : reported[m] > 0 =>
            /\ reported[m] = 1
            /\ m <= session.seen
            /\ \A p \in Pollers : pc[p] \in {"newer", "filtering"} => m <= after[p]

SeenInv == TokenInv /\ Alone /\ Polled /\ SeenIsLatest
=============================================================================
