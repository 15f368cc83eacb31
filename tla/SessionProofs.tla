--------------------------- MODULE SessionProofs ---------------------------
(***************************************************************************)
(* The refresh token of the session is good, for any clients, messages,    *)
(* tokens and crashes (TokenIsGood), and no message is returned twice      *)
(* unless a process polls with two goroutines (FetchedIsIgnored).          *)
(***************************************************************************)
EXTENDS Session, TLAPS, WellFoundedInduction

\* A session is not an empty file.
LEMMA SessionIsWritten == \A s \in Sessions : s # Truncated
<1>1. DOMAIN Truncated = {}
  BY DEF Truncated
<1>2. \A s \in Sessions : DOMAIN s # {}
  BY DEF Sessions
<1> QED
  BY <1>1, <1>2

\* The latest of some messages.
LEMMA LatestExists ==
  ASSUME NEW S \in SUBSET Times, S # {}
  PROVE  Max(S) \in S /\ \A m \in S : m <= Max(S)
<1>1. Times = 1 .. Len(Messages) /\ Len(Messages) \in Nat
  BY MessagesAssumption DEF Times
<1> DEFINE Bounds == {n \in Nat : \A m \in S : m <= n}
<1>2. Len(Messages) \in Bounds
  BY <1>1
<1>3. IsWellFoundedOn({p \in Nat \X Nat : p[1] < p[2]}, Nat)
  BY NatLessThanWellFounded DEF OpToRel
<1>4. PICK n \in Bounds : \A k \in Bounds : <<k, n>> \notin {p \in Nat \X Nat : p[1] < p[2]}
  BY <1>2, <1>3, WFMin
<1>5. ASSUME NEW k \in Bounds PROVE ~ (k < n)
  <2>1. k \in Nat /\ n \in Nat
    OBVIOUS
  <2>2. <<k, n>> \notin {p \in Nat \X Nat : p[1] < p[2]}
    BY <1>4
  <2> QED
    BY <2>1, <2>2
<1>6. n \in S
  <2> SUFFICES ASSUME n \notin S PROVE FALSE
    OBVIOUS
  <2>1. \A m \in S : m \in 1 .. Len(Messages) /\ m <= n /\ m # n
    BY <1>1, <1>4
  <2>2. n \in Nat /\ \A m \in S : m <= n - 1
    BY <1>1, <2>1
  <2> PICK m \in S : TRUE
    OBVIOUS
  <2>3. n - 1 \in Nat
    <3>1. m \in 1 .. Len(Messages) /\ m <= n - 1
      BY <2>1, <2>2
    <3> QED
      BY <1>1, <2>2, <3>1
  <2>4. n - 1 \in Bounds
    BY <2>2, <2>3
  <2> QED
    BY <1>5, <2>2, <2>4
<1> QED
  BY <1>1, <1>4, <1>6 DEF Max


-----------------------------------------------------------------------------
(* Types                                                                   *)

\* Update keeps the types of the store.
LEMMA UpdateTypes ==
  ASSUME NEW g \in Clients, NEW s \in Sessions, Update(g, s)
  PROVE  session' \in Sessions /\ file' \in Sessions \cup {Truncated} /\ saving' \in Clients \cup {None}
BY DEF Update

\* The steps that leave the store alone.
Aside ==
  \/ \E g \in Clients : \/ MaybeAuthorize(g) \/ Renew(g) \/ Renewed(g) \/ AnswerLost(g) \/ NotRenewed(g)
                        \/ Request(g) \/ Unauthorized(g) \/ GiveUp(g)
  \/ \E p \in Pollers : Poll(p) \/ FetchMessages(p) \/ ReadSeen(p) \/ Report(p)
  \/ \E w \in Logins : Login(w) \/ GiveToken(w) \/ EnsureBabies(w) \/ OnLogin(w)
  \/ \E w \in Logins \cup {Main} : FetchBabies(w)
  \/ Running \/ Post \/ Expire \/ UNCHANGED vars

LEMMA AsideKeepsStore == Aside => UNCHANGED <<session, file, saving>>
BY DEF Aside, MaybeAuthorize, Renew, Renewed, AnswerLost, NotRenewed, Request, Unauthorized, GiveUp,
       Poll, FetchMessages, ReadSeen, Report, Login, GiveToken, EnsureBabies, OnLogin, FetchBabies, Running,
       RunAuthorizes, RunEnsuresBabies, RunStarts, Post, Expire, vars, storeVars

\* The steps that change the session save it.
LEMMA Updates ==
  ASSUME TypeOK
  PROVE  /\ \A g \in Clients : Seed(g) \/ StoreTokens(g) => \E s \in Sessions : Update(g, s)
         /\ \A p \in Pollers : StoreSeen(p) => \E s \in Sessions : Update(p, s)
         /\ \A w \in Logins : StoreLogin(w) => \E s \in Sessions : Update(w, s)
         /\ \A w \in Logins \cup {Main} : StoreBabies(w) => \E s \in Sessions : Update(w, s)
<1>1. ASSUME NEW g \in Clients, Seed(g) PROVE \E s \in Sessions : Update(g, s)
  <2> DEFINE s == IF session.refresh = None THEN [session EXCEPT !.refresh = given] ELSE session
  <2>1. s \in Sessions
    BY DEF TypeOK, StoreTypes, CallTypes, PollTypes, Sessions
  <2> QED
    BY <1>1, <2>1 DEF Seed
<1>2. ASSUME NEW g \in Clients, StoreTokens(g) PROVE \E s \in Sessions : Update(g, s)
  <2> DEFINE s == [session EXCEPT !.auth = token[g], !.refresh = token[g]]
  <2>1. s \in Sessions
    BY DEF TypeOK, StoreTypes, CallTypes, PollTypes, Sessions
  <2> QED
    BY <1>2, <2>1 DEF StoreTokens
<1>3. ASSUME NEW p \in Pollers, StoreSeen(p) PROVE \E s \in Sessions : Update(p, s)
  <2> DEFINE s == [session EXCEPT !.seen = Max(got[p])]
  <2>1. got[p] \in SUBSET Times /\ got[p] # {}
    BY <1>3 DEF TypeOK, StoreTypes, CallTypes, PollTypes, StoreSeen, Goes
  <2>2. s \in Sessions
    BY <2>1, LatestExists DEF TypeOK, StoreTypes, CallTypes, PollTypes, Sessions
  <2> QED
    BY <1>3, <2>2 DEF StoreSeen
<1>4. ASSUME NEW w \in Logins, StoreLogin(w) PROVE \E s \in Sessions : Update(w, s)
  <2> DEFINE s == [session EXCEPT !.refresh = token[w]]
  <2>1. s \in Sessions
    BY DEF TypeOK, StoreTypes, CallTypes, PollTypes, Sessions, Clients
  <2> QED
    BY <1>4, <2>1 DEF StoreLogin
<1>5. ASSUME NEW w \in Logins \cup {Main}, StoreBabies(w) PROVE \E s \in Sessions : Update(w, s)
  <2> DEFINE s == [session EXCEPT !.babies = TRUE]
  <2>1. s \in Sessions
    BY DEF TypeOK, StoreTypes, CallTypes, PollTypes, Sessions
  <2> QED
    BY <1>5, <2>1 DEF StoreBabies
<1> QED
  BY <1>1, <1>2, <1>3, <1>4, <1>5

\* What a step can do to the store.
LEMMA StoreSteps ==
  ASSUME TypeOK, [Next]_vars
  PROVE  \/ UNCHANGED <<session, file, saving>>
         \/ \E g \in Clients, s \in Sessions : Update(g, s)
         \/ Write
         \/ Crash
<1>1. \A p \in Pollers : p \in Clients
  BY DEF Clients
<1>2. \A w \in Logins \cup {Main} : w \in Clients
  BY DEF Clients
<1> QED
  BY <1>1, <1>2, AsideKeepsStore, Updates DEF Next, Authorizing, Fetching, Polling, LoggingIn, Aside

\* Every step keeps the types of the store.
LEMMA StoreTypeStep ==
  TypeOK /\ [Next]_vars =>
      session' \in Sessions /\ file' \in Sessions \cup {Truncated} /\ saving' \in Clients \cup {None}
<1> SUFFICES ASSUME TypeOK, [Next]_vars
             PROVE  session' \in Sessions /\ file' \in Sessions \cup {Truncated} /\ saving' \in Clients \cup {None}
  OBVIOUS
<1>1. Fresh \in Sessions
  BY DEF Fresh, Sessions, Tokens
<1> QED
  BY <1>1, StoreSteps DEF TypeOK, StoreTypes, CallTypes, PollTypes, Update, Write, Crash

\* Every step keeps the types of the calls.
LEMMA CallTypeStep == TypeOK /\ [Next]_vars => CallTypes'
<1> SUFFICES ASSUME TypeOK, [Next]_vars PROVE CallTypes'
  OBVIOUS
<1> USE DEF storeVars, callVars, pollVars, serverVars, faultVars, appVars
<1>1. ASSUME NEW g \in Clients, MaybeAuthorize(g) PROVE CallTypes'
  BY <1>1 DEF TypeOK, StoreTypes, Sessions, CallTypes, ServerTypes, Tokens, Places, MaybeAuthorize, Goes, Returns, Clients
<1>2. ASSUME NEW g \in Clients, Seed(g) PROVE CallTypes'
  BY <1>2 DEF TypeOK, StoreTypes, Sessions, CallTypes, ServerTypes, Tokens, Places, Seed, Update, Goes, Returns, Clients
<1>3. ASSUME NEW g \in Clients, Renew(g) PROVE CallTypes'
  BY <1>3 DEF TypeOK, StoreTypes, Sessions, CallTypes, ServerTypes, Tokens, Places, Renew, Goes, Returns, Clients
<1>4. ASSUME NEW g \in Clients, Renewed(g) PROVE CallTypes'
  <2>1. issued' \in Tokens
    BY <1>4 DEF TypeOK, ServerTypes, Renewed, Tokens
  <2> QED
    BY <1>4, <2>1 DEF TypeOK, CallTypes, Renewed, Goes, Places
<1>5. ASSUME NEW g \in Clients, AnswerLost(g) PROVE CallTypes'
  BY <1>5 DEF TypeOK, StoreTypes, Sessions, CallTypes, ServerTypes, Tokens, Places, AnswerLost, Goes, Returns, Clients
<1>6. ASSUME NEW g \in Clients, NotRenewed(g) PROVE CallTypes'
  BY <1>6 DEF TypeOK, StoreTypes, Sessions, CallTypes, ServerTypes, Tokens, Places, NotRenewed, Goes, Returns, Clients
<1>7. ASSUME NEW g \in Clients, StoreTokens(g) PROVE CallTypes'
  <2>1. /\ UNCHANGED given
        /\ \/ Returns(g, "renewed")
           \/ Goes(g, "renewed", Continue(g)) /\ UNCHANGED callVars
    BY <1>7 DEF StoreTokens
  <2>2. Continue(g) \in Places
    BY DEF Continue, Places
  <2> QED
    BY <2>1, <2>2 DEF TypeOK, CallTypes, Places, Tokens, Continue, Goes, Returns
<1>8. ASSUME NEW g \in Clients, Request(g) PROVE CallTypes'
  <2>1. session.auth \in Tokens /\ tries[g] \in 1 .. 2 /\ tries[g] \in Nat
    BY <1>8 DEF TypeOK, StoreTypes, Sessions, CallTypes, Request
  <2>2. tries[g] - 1 \in 0 .. 2
    BY <2>1
  <2>3. /\ given' = given
        /\ pc' = [pc EXCEPT ![g] = IF session.auth = None THEN "authorizing" ELSE "waiting"]
        /\ token' = [token EXCEPT ![g] = session.auth]
        /\ tries' = [tries EXCEPT ![g] = IF session.auth = None THEN tries[g] - 1 ELSE tries[g]]
    BY <1>8 DEF TypeOK, CallTypes, Request, Goes
  <2>4. \A h \in Clients : /\ pc'[h] = "fetching" => tries'[h] \in 0 .. 2
                           /\ pc'[h] = "waiting" => tries'[h] \in 1 .. 2
    BY <2>1, <2>2, <2>3 DEF TypeOK, CallTypes
  <2>5. pc' \in [Clients -> Places] /\ token' \in [Clients -> Tokens]
    BY <2>1, <2>3 DEF TypeOK, CallTypes, Places
  <2>6. tries' \in [Clients -> 0 .. 2 \cup {None}]
    BY <2>1, <2>2, <2>3 DEF TypeOK, CallTypes
  <2> QED
    BY <2>3, <2>4, <2>5, <2>6 DEF TypeOK, CallTypes
<1>9. ASSUME NEW g \in Clients, Unauthorized(g) PROVE CallTypes'
  <2>1. tries[g] \in 1 .. 2
    BY <1>9 DEF TypeOK, CallTypes, Unauthorized, Goes
  <2>2. tries[g] - 1 \in 0 .. 2
    BY <2>1
  <2>3. /\ given' = given /\ token' = token
        /\ pc' = [pc EXCEPT ![g] = "authorizing"]
        /\ tries' = [tries EXCEPT ![g] = tries[g] - 1]
    BY <1>9 DEF TypeOK, CallTypes, Unauthorized, Goes
  <2> QED
    BY <2>2, <2>3 DEF TypeOK, CallTypes, Places
<1>10. ASSUME NEW g \in Clients, GiveUp(g) PROVE CallTypes'
  <2>1. /\ given' = given
        /\ pc' = [pc EXCEPT ![g] = "idle"]
        /\ token' = [token EXCEPT ![g] = None]
        /\ tries' = [tries EXCEPT ![g] = None]
    BY <1>10 DEF GiveUp, Returns
  <2> QED
    BY <2>1 DEF TypeOK, CallTypes, Places, Tokens
<1>11. ASSUME NEW p \in Pollers, Poll(p) PROVE CallTypes'
  <2>1. /\ given' = given /\ token' = token
        /\ pc' = [pc EXCEPT ![p] = "fetching"]
        /\ tries' = [tries EXCEPT ![p] = 2]
    BY <1>11 DEF Poll, Goes
  <2>2. 2 \in 0 .. 2 /\ p \in Clients
    BY DEF Clients
  <2> QED
    BY <2>1, <2>2 DEF TypeOK, CallTypes, Places
<1>12. ASSUME NEW p \in Pollers, FetchMessages(p) PROVE CallTypes'
  <2>1. /\ UNCHANGED given
        /\ \/ Returns(p, "waiting")
           \/ Goes(p, "waiting", "fetched") /\ UNCHANGED callVars
    BY <1>12 DEF FetchMessages
  <2> QED
    BY <2>1 DEF TypeOK, CallTypes, Places, Tokens, Goes, Returns, Clients
<1>13. ASSUME NEW p \in Pollers, ReadSeen(p) PROVE CallTypes'
  BY <1>13 DEF TypeOK, StoreTypes, Sessions, CallTypes, ServerTypes, Tokens, Places, ReadSeen, Goes, Returns, Clients
<1>14. ASSUME NEW p \in Pollers, StoreSeen(p) PROVE CallTypes'
  BY <1>14 DEF TypeOK, StoreTypes, Sessions, CallTypes, ServerTypes, Tokens, Places, StoreSeen, Update, Goes, Returns, Clients
<1>15. ASSUME NEW p \in Pollers, Report(p) PROVE CallTypes'
  BY <1>15 DEF TypeOK, StoreTypes, Sessions, CallTypes, ServerTypes, Tokens, Places, Report, Goes, Returns, Clients
<1>16. ASSUME NEW w \in Logins, Login(w) PROVE CallTypes'
  <2>1. issued' \in Tokens
    <3>1. issued \in Nat /\ issued' = issued + 1
      BY <1>16 DEF TypeOK, ServerTypes, Login
    <3> QED
      BY <3>1 DEF Tokens
  <2> QED
    BY <1>16, <2>1 DEF TypeOK, CallTypes, Login, Goes, Places, Clients
<1>17. ASSUME NEW w \in Logins, StoreLogin(w) PROVE CallTypes'
  BY <1>17 DEF TypeOK, StoreTypes, Sessions, CallTypes, ServerTypes, Tokens, Places, StoreLogin, Update, Goes, Returns, Clients
<1>18. ASSUME NEW w \in Logins, GiveToken(w) PROVE CallTypes'
  BY <1>18 DEF TypeOK, StoreTypes, Sessions, CallTypes, ServerTypes, Tokens, Places, GiveToken, Goes, Returns, Clients
<1>19. ASSUME NEW w \in Logins, EnsureBabies(w) PROVE CallTypes'
  <2>1. 2 \in 0 .. 2 /\ w \in Clients
    BY DEF Clients
  <2>2. /\ UNCHANGED <<given, token>>
        /\ \/ pc' = [pc EXCEPT ![w] = "starting"] /\ UNCHANGED tries
           \/ pc' = [pc EXCEPT ![w] = "fetching"] /\ tries' = [tries EXCEPT ![w] = 2]
    BY <1>19 DEF EnsureBabies, Goes
  <2> QED
    BY <2>1, <2>2 DEF TypeOK, CallTypes, Places
<1>20. ASSUME NEW w \in Logins \cup {Main}, FetchBabies(w) PROVE CallTypes'
  BY <1>20 DEF TypeOK, StoreTypes, Sessions, CallTypes, ServerTypes, Tokens, Places, FetchBabies, Goes, Returns, Clients
<1>21. ASSUME NEW w \in Logins \cup {Main}, StoreBabies(w) PROVE CallTypes'
  <2>1. /\ UNCHANGED given
        /\ \/ Returns(w, "fetched babies")
           \/ Goes(w, "fetched babies", "starting") /\ UNCHANGED callVars
    BY <1>21 DEF StoreBabies
  <2> QED
    BY <2>1 DEF TypeOK, CallTypes, Places, Tokens, Goes, Returns, Clients
<1>22. CASE Write
  BY <1>22 DEF TypeOK, StoreTypes, Sessions, CallTypes, ServerTypes, Tokens, Places, Write
<1>23. CASE Post
  BY <1>23 DEF TypeOK, StoreTypes, Sessions, CallTypes, ServerTypes, Tokens, Places, Post
<1>24. CASE Expire
  BY <1>24 DEF TypeOK, StoreTypes, Sessions, CallTypes, ServerTypes, Tokens, Places, Expire
<1>25. CASE Crash
  <2>1. /\ given' = OptsToken
        /\ pc' = [h \in Clients |-> "idle"]
        /\ token' = [h \in Clients |-> None]
        /\ tries' = [h \in Clients |-> None]
    BY <1>25 DEF Crash
  <2>2. given' \in Tokens /\ None \in Tokens
    BY <2>1 DEF Tokens, OptsToken
  <2> QED
    BY <2>1, <2>2 DEF CallTypes, Places
<1>26. CASE UNCHANGED vars
  BY <1>26 DEF TypeOK, StoreTypes, Sessions, CallTypes, ServerTypes, Tokens, Places, vars
<1>27. ASSUME NEW w \in Logins, OnLogin(w) PROVE CallTypes'
  BY <1>27 DEF TypeOK, CallTypes, Tokens, Places, OnLogin, Returns, Clients
<1>28. CASE RunAuthorizes
  BY <1>28 DEF TypeOK, CallTypes, Places, RunAuthorizes, Goes, Clients
<1>29. CASE RunEnsuresBabies
  <2>1. 2 \in 0 .. 2 /\ Main \in Clients
    BY DEF Clients
  <2>2. /\ UNCHANGED <<given, token>>
        /\ \/ UNCHANGED <<pc, tries>>
           \/ pc' = [pc EXCEPT ![Main] = "fetching"] /\ tries' = [tries EXCEPT ![Main] = 2]
    BY <1>29 DEF RunEnsuresBabies, Goes
  <2> QED
    BY <2>1, <2>2 DEF TypeOK, CallTypes, Places
<1>30. CASE RunStarts
  BY <1>30 DEF TypeOK, CallTypes, RunStarts
<1> QED
  BY <1>1, <1>2, <1>3, <1>4, <1>5, <1>6, <1>7, <1>8, <1>9, <1>10, <1>11, <1>12, <1>13, <1>14,
     <1>15, <1>16, <1>17, <1>18, <1>19, <1>20, <1>21, <1>22, <1>23, <1>24, <1>25, <1>26, <1>27, <1>28,
     <1>29, <1>30
  DEF Next, Authorizing, Fetching, Polling, LoggingIn, Running

\* Every step keeps the types of the polls.
LEMMA PollTypeStep == TypeOK /\ [Next]_vars => PollTypes'
<1> SUFFICES ASSUME TypeOK, [Next]_vars PROVE PollTypes'
  OBVIOUS
<1> USE DEF storeVars, callVars, pollVars, serverVars, faultVars, appVars
<1>1. ASSUME NEW g \in Clients, MaybeAuthorize(g) PROVE PollTypes'
  BY <1>1 DEF TypeOK, StoreTypes, Sessions, CallTypes, PollTypes, ServerTypes, Tokens, Places, MaybeAuthorize, Goes, Returns, Clients
<1>2. ASSUME NEW g \in Clients, Seed(g) PROVE PollTypes'
  BY <1>2 DEF TypeOK, StoreTypes, Sessions, CallTypes, PollTypes, ServerTypes, Tokens, Places, Seed, Update, Goes, Returns, Clients
<1>3. ASSUME NEW g \in Clients, Renew(g) PROVE PollTypes'
  BY <1>3 DEF TypeOK, StoreTypes, Sessions, CallTypes, PollTypes, ServerTypes, Tokens, Places, Renew, Goes, Returns, Clients
<1>4. ASSUME NEW g \in Clients, Renewed(g) PROVE PollTypes'
  BY <1>4 DEF TypeOK, StoreTypes, Sessions, CallTypes, PollTypes, ServerTypes, Tokens, Places, Renewed, Goes, Returns, Clients
<1>5. ASSUME NEW g \in Clients, AnswerLost(g) PROVE PollTypes'
  BY <1>5 DEF TypeOK, StoreTypes, Sessions, CallTypes, PollTypes, ServerTypes, Tokens, Places, AnswerLost, Goes, Returns, Clients
<1>6. ASSUME NEW g \in Clients, NotRenewed(g) PROVE PollTypes'
  BY <1>6 DEF TypeOK, StoreTypes, Sessions, CallTypes, PollTypes, ServerTypes, Tokens, Places, NotRenewed, Goes, Returns, Clients
<1>7. ASSUME NEW g \in Clients, StoreTokens(g) PROVE PollTypes'
  <2>1. UNCHANGED pollVars
    BY <1>7 DEF StoreTokens
  <2>2. \A c \in Pollers : pc'[c] \in {"fetched", "newer", "filtering"} => pc'[c] = pc[c]
    BY <1>7 DEF TypeOK, CallTypes, StoreTokens, Continue, Goes, Returns, Clients
  <2> QED
    BY <2>1, <2>2 DEF TypeOK, PollTypes
<1>8. ASSUME NEW g \in Clients, Request(g) PROVE PollTypes'
  BY <1>8 DEF TypeOK, StoreTypes, Sessions, CallTypes, PollTypes, ServerTypes, Tokens, Places, Request, Goes, Returns, Clients
<1>9. ASSUME NEW g \in Clients, Unauthorized(g) PROVE PollTypes'
  BY <1>9 DEF TypeOK, StoreTypes, Sessions, CallTypes, PollTypes, ServerTypes, Tokens, Places, Unauthorized, Goes, Returns, Clients
<1>10. ASSUME NEW g \in Clients, GiveUp(g) PROVE PollTypes'
  BY <1>10 DEF TypeOK, StoreTypes, Sessions, CallTypes, PollTypes, ServerTypes, Tokens, Places, GiveUp, Goes, Returns, Clients
<1>11. ASSUME NEW p \in Pollers, Poll(p) PROVE PollTypes'
  BY <1>11 DEF TypeOK, StoreTypes, Sessions, CallTypes, PollTypes, ServerTypes, Tokens, Places, Poll, Goes, Returns, Clients
<1>12. ASSUME NEW p \in Pollers, FetchMessages(p) PROVE PollTypes'
  <2>1. \A m \in 1 .. posted : m \in Times
    BY MessagesAssumption DEF TypeOK, ServerTypes, Times
  <2>2. /\ UNCHANGED <<after, reported>>
        /\ got' = [got EXCEPT ![p] = {m \in 1 .. posted : Messages[m] = BabyOf[p]}]
        /\ pc' = [pc EXCEPT ![p] = IF got'[p] = {} THEN "idle" ELSE "fetched"]
    BY <1>12 DEF FetchMessages, Goes, Returns
  <2>3. got' \in [Pollers -> SUBSET Times]
    BY <2>1, <2>2 DEF TypeOK, PollTypes
  <2>4. \A c \in Pollers : pc'[c] \in {"fetched", "newer", "filtering"} => got'[c] # {}
    BY <2>2 DEF TypeOK, PollTypes, CallTypes, Clients
  <2> QED
    BY <2>2, <2>3, <2>4 DEF TypeOK, PollTypes
<1>13. ASSUME NEW p \in Pollers, ReadSeen(p) PROVE PollTypes'
  BY <1>13 DEF TypeOK, StoreTypes, Sessions, CallTypes, PollTypes, ServerTypes, Tokens, Places, ReadSeen, Goes, Returns, Clients
<1>14. ASSUME NEW p \in Pollers, StoreSeen(p) PROVE PollTypes'
  BY <1>14 DEF TypeOK, StoreTypes, Sessions, CallTypes, PollTypes, ServerTypes, Tokens, Places, StoreSeen, Update, Goes, Returns, Clients
<1>15. ASSUME NEW p \in Pollers, Report(p) PROVE PollTypes'
  <2>1. \A m \in Times : m \in Nat
    BY MessagesAssumption DEF Times
  <2>2. /\ reported' = [m \in Times |-> IF m \in got[p] /\ m > after[p] THEN reported[m] + 1 ELSE reported[m]]
        /\ got' = [got EXCEPT ![p] = {}]
        /\ after' = [after EXCEPT ![p] = 0]
        /\ pc' = [pc EXCEPT ![p] = "idle"]
    BY <1>15 DEF Report, Returns
  <2>3. reported' \in [Times -> Nat]
    BY <2>2 DEF TypeOK, PollTypes
  <2>4. after' \in [Pollers -> Times \cup {0}] /\ got' \in [Pollers -> SUBSET Times]
    BY <2>2 DEF TypeOK, PollTypes
  <2>5. \A c \in Pollers : pc'[c] \in {"fetched", "newer", "filtering"} => got'[c] # {}
    BY <2>2 DEF TypeOK, PollTypes, CallTypes, Clients
  <2> QED
    BY <2>3, <2>4, <2>5 DEF PollTypes
<1>16. ASSUME NEW w \in Logins, Login(w) PROVE PollTypes'
  BY <1>16 DEF TypeOK, StoreTypes, Sessions, CallTypes, PollTypes, ServerTypes, Tokens, Places, Login, Goes, Returns, Clients
<1>17. ASSUME NEW w \in Logins, StoreLogin(w) PROVE PollTypes'
  BY <1>17 DEF TypeOK, StoreTypes, Sessions, CallTypes, PollTypes, ServerTypes, Tokens, Places, StoreLogin, Update, Goes, Returns, Clients
<1>18. ASSUME NEW w \in Logins, GiveToken(w) PROVE PollTypes'
  BY <1>18 DEF TypeOK, StoreTypes, Sessions, CallTypes, PollTypes, ServerTypes, Tokens, Places, GiveToken, Goes, Returns, Clients
<1>19. ASSUME NEW w \in Logins, EnsureBabies(w) PROVE PollTypes'
  <2>1. UNCHANGED pollVars
    BY <1>19 DEF EnsureBabies
  <2>2. \A c \in Pollers : pc'[c] \in {"fetched", "newer", "filtering"} => pc'[c] = pc[c]
    BY <1>19 DEF TypeOK, CallTypes, EnsureBabies, Goes, Returns, Clients
  <2> QED
    BY <2>1, <2>2 DEF TypeOK, PollTypes
<1>20. ASSUME NEW w \in Logins \cup {Main}, FetchBabies(w) PROVE PollTypes'
  BY <1>20 DEF TypeOK, StoreTypes, Sessions, CallTypes, PollTypes, ServerTypes, Tokens, Places, FetchBabies, Goes, Returns, Clients
<1>21. ASSUME NEW w \in Logins \cup {Main}, StoreBabies(w) PROVE PollTypes'
  BY <1>21 DEF TypeOK, StoreTypes, Sessions, CallTypes, PollTypes, ServerTypes, Tokens, Places, StoreBabies, Update, Goes, Returns, Clients
<1>22. CASE Write
  BY <1>22 DEF TypeOK, StoreTypes, Sessions, CallTypes, PollTypes, ServerTypes, Tokens, Places, Write
<1>23. CASE Post
  BY <1>23 DEF TypeOK, StoreTypes, Sessions, CallTypes, PollTypes, ServerTypes, Tokens, Places, Post
<1>24. CASE Expire
  BY <1>24 DEF TypeOK, StoreTypes, Sessions, CallTypes, PollTypes, ServerTypes, Tokens, Places, Expire
<1>25. CASE Crash
  <2>1. /\ UNCHANGED reported
        /\ pc' = [h \in Clients |-> "idle"]
        /\ got' = [c \in Pollers |-> {}]
        /\ after' = [c \in Pollers |-> 0]
    BY <1>25 DEF Crash
  <2> QED
    BY <2>1 DEF TypeOK, PollTypes, Clients
<1>26. CASE UNCHANGED vars
  BY <1>26 DEF TypeOK, StoreTypes, Sessions, CallTypes, PollTypes, ServerTypes, Tokens, Places, vars
<1>27. ASSUME NEW w \in Logins, OnLogin(w) PROVE PollTypes'
  BY <1>27 DEF TypeOK, CallTypes, PollTypes, OnLogin, Returns, Clients
<1>28. CASE RunAuthorizes
  BY <1>28 DEF TypeOK, CallTypes, PollTypes, RunAuthorizes, Goes, Clients
<1>29. CASE RunEnsuresBabies
  BY <1>29 DEF TypeOK, CallTypes, PollTypes, RunEnsuresBabies, Goes, Clients
<1>30. CASE RunStarts
  BY <1>30 DEF TypeOK, CallTypes, PollTypes, RunStarts
<1> QED
  BY <1>1, <1>2, <1>3, <1>4, <1>5, <1>6, <1>7, <1>8, <1>9, <1>10, <1>11, <1>12, <1>13, <1>14,
     <1>15, <1>16, <1>17, <1>18, <1>19, <1>20, <1>21, <1>22, <1>23, <1>24, <1>25, <1>26, <1>27, <1>28,
     <1>29, <1>30
  DEF Next, Authorizing, Fetching, Polling, LoggingIn, Running

\* Every step keeps the types of the server and the faults.
LEMMA ServerTypeStep == TypeOK /\ [Next]_vars => ServerTypes'
<1> SUFFICES ASSUME TypeOK, [Next]_vars PROVE ServerTypes'
  OBVIOUS
<1> USE DEF storeVars, callVars, pollVars, serverVars, faultVars, appVars
<1>1. ASSUME NEW g \in Clients, MaybeAuthorize(g) PROVE ServerTypes'
  BY <1>1 DEF TypeOK, StoreTypes, CallTypes, PollTypes, ServerTypes, Tokens, Places, MaybeAuthorize, Goes, Returns, Clients
<1>2. ASSUME NEW g \in Clients, Seed(g) PROVE ServerTypes'
  BY <1>2 DEF TypeOK, StoreTypes, CallTypes, PollTypes, ServerTypes, Tokens, Places, Seed, Update, Goes, Returns, Clients
<1>3. ASSUME NEW g \in Clients, Renew(g) PROVE ServerTypes'
  BY <1>3 DEF TypeOK, StoreTypes, CallTypes, PollTypes, ServerTypes, Tokens, Places, Renew, Goes, Returns, Clients
<1>4. ASSUME NEW g \in Clients, Renewed(g) PROVE ServerTypes'
  <2>1. issued' = issued + 1 /\ issued \in Nat /\ valid \subseteq 0 .. issued /\ access \subseteq 0 .. issued
    BY <1>4 DEF TypeOK, ServerTypes, Renewed
  <2>2. \A t \in 0 .. issued : t \in 0 .. issued'
    BY <2>1
  <2>3. issued' \in Nat /\ issued' \in 0 .. issued'
    BY <2>1
  <2>4. valid' \subseteq valid \cup {issued'} /\ access' \subseteq access \cup {issued'}
    BY <1>4 DEF Renewed
  <2>5. UNCHANGED <<posted, crashes, lost>>
    BY <1>4 DEF Renewed
  <2> QED
    BY <2>1, <2>2, <2>3, <2>4, <2>5 DEF TypeOK, ServerTypes
<1>5. ASSUME NEW g \in Clients, AnswerLost(g) PROVE ServerTypes'
  BY <1>5 DEF TypeOK, StoreTypes, CallTypes, PollTypes, ServerTypes, Tokens, Places, AnswerLost, Goes, Returns, Clients
<1>6. ASSUME NEW g \in Clients, NotRenewed(g) PROVE ServerTypes'
  BY <1>6 DEF TypeOK, StoreTypes, CallTypes, PollTypes, ServerTypes, Tokens, Places, NotRenewed, Goes, Returns, Clients
<1>7. ASSUME NEW g \in Clients, StoreTokens(g) PROVE ServerTypes'
  BY <1>7 DEF TypeOK, StoreTypes, CallTypes, PollTypes, ServerTypes, Tokens, Places, StoreTokens, Update, Continue, Goes, Returns, Clients
<1>8. ASSUME NEW g \in Clients, Request(g) PROVE ServerTypes'
  BY <1>8 DEF TypeOK, StoreTypes, CallTypes, PollTypes, ServerTypes, Tokens, Places, Request, Goes, Returns, Clients
<1>9. ASSUME NEW g \in Clients, Unauthorized(g) PROVE ServerTypes'
  BY <1>9 DEF TypeOK, StoreTypes, CallTypes, PollTypes, ServerTypes, Tokens, Places, Unauthorized, Goes, Returns, Clients
<1>10. ASSUME NEW g \in Clients, GiveUp(g) PROVE ServerTypes'
  BY <1>10 DEF TypeOK, StoreTypes, CallTypes, PollTypes, ServerTypes, Tokens, Places, GiveUp, Goes, Returns, Clients
<1>11. ASSUME NEW p \in Pollers, Poll(p) PROVE ServerTypes'
  BY <1>11 DEF TypeOK, StoreTypes, CallTypes, PollTypes, ServerTypes, Tokens, Places, Poll, Goes, Returns, Clients
<1>12. ASSUME NEW p \in Pollers, FetchMessages(p) PROVE ServerTypes'
  BY <1>12 DEF TypeOK, StoreTypes, CallTypes, PollTypes, ServerTypes, Tokens, Places, FetchMessages, Goes, Returns, Clients
<1>13. ASSUME NEW p \in Pollers, ReadSeen(p) PROVE ServerTypes'
  BY <1>13 DEF TypeOK, StoreTypes, CallTypes, PollTypes, ServerTypes, Tokens, Places, ReadSeen, Goes, Returns, Clients
<1>14. ASSUME NEW p \in Pollers, StoreSeen(p) PROVE ServerTypes'
  BY <1>14 DEF TypeOK, StoreTypes, CallTypes, PollTypes, ServerTypes, Tokens, Places, StoreSeen, Update, Goes, Returns, Clients
<1>15. ASSUME NEW p \in Pollers, Report(p) PROVE ServerTypes'
  BY <1>15 DEF TypeOK, StoreTypes, CallTypes, PollTypes, ServerTypes, Tokens, Places, Report, Goes, Returns, Clients
<1>16. ASSUME NEW w \in Logins, Login(w) PROVE ServerTypes'
  <2>1. issued' = issued + 1 /\ issued \in Nat /\ valid \subseteq 0 .. issued /\ access \subseteq 0 .. issued
    BY <1>16 DEF TypeOK, ServerTypes, Login
  <2>2. \A t \in 0 .. issued : t \in 0 .. issued'
    BY <2>1
  <2>3. issued' \in Nat /\ issued' \in 0 .. issued'
    BY <2>1
  <2>4. valid' \subseteq valid \cup {issued'} /\ access' \subseteq access \cup {issued'}
    BY <1>16 DEF Login
  <2>5. UNCHANGED <<posted, crashes, lost>>
    BY <1>16 DEF Login
  <2> QED
    BY <2>1, <2>2, <2>3, <2>4, <2>5 DEF TypeOK, ServerTypes
<1>17. ASSUME NEW w \in Logins, StoreLogin(w) PROVE ServerTypes'
  BY <1>17 DEF TypeOK, StoreTypes, CallTypes, PollTypes, ServerTypes, Tokens, Places, StoreLogin, Update, Goes, Returns, Clients
<1>18. ASSUME NEW w \in Logins, GiveToken(w) PROVE ServerTypes'
  BY <1>18 DEF TypeOK, StoreTypes, CallTypes, PollTypes, ServerTypes, Tokens, Places, GiveToken, Goes, Returns, Clients
<1>19. ASSUME NEW w \in Logins, EnsureBabies(w) PROVE ServerTypes'
  BY <1>19 DEF TypeOK, StoreTypes, CallTypes, PollTypes, ServerTypes, Tokens, Places, EnsureBabies, Goes, Returns, Clients
<1>20. ASSUME NEW w \in Logins \cup {Main}, FetchBabies(w) PROVE ServerTypes'
  BY <1>20 DEF TypeOK, StoreTypes, CallTypes, PollTypes, ServerTypes, Tokens, Places, FetchBabies, Goes, Returns, Clients
<1>21. ASSUME NEW w \in Logins \cup {Main}, StoreBabies(w) PROVE ServerTypes'
  BY <1>21 DEF TypeOK, StoreTypes, CallTypes, PollTypes, ServerTypes, Tokens, Places, StoreBabies, Update, Goes, Returns, Clients
<1>22. CASE Write
  BY <1>22 DEF TypeOK, StoreTypes, CallTypes, PollTypes, ServerTypes, Tokens, Places, Write
<1>23. CASE Post
  <2>1. posted' = posted + 1 /\ posted < Len(Messages) /\ UNCHANGED <<issued, valid, access, crashes, lost>>
    BY <1>23 DEF Post
  <2>2. posted' \in 0 .. Len(Messages)
    BY <2>1, MessagesAssumption DEF TypeOK, ServerTypes
  <2> QED
    BY <2>1, <2>2 DEF TypeOK, ServerTypes
<1>24. CASE Expire
  BY <1>24 DEF TypeOK, StoreTypes, CallTypes, PollTypes, ServerTypes, Tokens, Places, Expire
<1>25. CASE Crash
  <2>1. crashes' = crashes + 1 /\ UNCHANGED <<issued, valid, access, posted>>
    BY <1>25 DEF Crash
  <2>2. lost' \subseteq lost \cup {"token", "file"}
    BY <1>25 DEF Crash
  <2>3. crashes' \in Nat
    BY <2>1 DEF TypeOK, ServerTypes
  <2> QED
    BY <2>1, <2>2, <2>3 DEF TypeOK, ServerTypes
<1>26. CASE UNCHANGED vars
  BY <1>26 DEF TypeOK, StoreTypes, CallTypes, PollTypes, ServerTypes, Tokens, Places, vars
<1>27. ASSUME NEW w \in Logins, OnLogin(w) PROVE ServerTypes'
  BY <1>27 DEF TypeOK, ServerTypes, OnLogin
<1>28. CASE RunAuthorizes \/ RunEnsuresBabies \/ RunStarts
  BY <1>28 DEF TypeOK, ServerTypes, RunAuthorizes, RunEnsuresBabies, RunStarts
<1> QED
  BY <1>1, <1>2, <1>3, <1>4, <1>5, <1>6, <1>7, <1>8, <1>9, <1>10, <1>11, <1>12, <1>13, <1>14,
     <1>15, <1>16, <1>17, <1>18, <1>19, <1>20, <1>21, <1>22, <1>23, <1>24, <1>25, <1>26, <1>27, <1>28
  DEF Next, Authorizing, Fetching, Polling, LoggingIn, Running

\* What a step can do to App.Run and the goroutines it has started.
LEMMA AppSteps ==
  [Next]_vars => \/ UNCHANGED <<polling, rivals>> /\ boot' \in {boot, "babies", "start"}
                 \/ HandleBabies /\ boot' \in {boot, "running"}
                 \/ Crash
<1> SUFFICES ASSUME [Next]_vars, ~ Crash
             PROVE  \/ UNCHANGED <<polling, rivals>> /\ boot' \in {boot, "babies", "start"}
                    \/ HandleBabies /\ boot' \in {boot, "running"}
  OBVIOUS
<1> USE DEF appVars
<1>1. ASSUME NEW g \in Clients, Authorizing(g) \/ Fetching(g) PROVE UNCHANGED appVars
  BY <1>1 DEF Authorizing, MaybeAuthorize, Seed, Renew, Renewed, AnswerLost, NotRenewed, StoreTokens,
              Fetching, Request, Unauthorized, GiveUp
<1>2. ASSUME NEW p \in Pollers, Polling(p) PROVE UNCHANGED appVars
  BY <1>2 DEF Polling, Poll, FetchMessages, ReadSeen, StoreSeen, Report
<1>3. ASSUME NEW w \in Logins, LoggingIn(w), ~ OnLogin(w) PROVE UNCHANGED appVars
  BY <1>3 DEF LoggingIn, Login, StoreLogin, GiveToken, EnsureBabies
<1>4. ASSUME NEW w \in Logins \cup {Main}, FetchBabies(w) \/ StoreBabies(w) PROVE UNCHANGED appVars
  BY <1>4 DEF FetchBabies, StoreBabies
<1>5. CASE Write \/ Post \/ Expire \/ UNCHANGED vars
  BY <1>5 DEF Write, Post, Expire, vars
<1>6. ASSUME NEW w \in Logins, OnLogin(w) PROVE HandleBabies /\ UNCHANGED boot
  BY <1>6 DEF OnLogin
<1>7. CASE Running
  BY <1>7 DEF Running, RunAuthorizes, RunEnsuresBabies, RunStarts
<1> QED
  BY <1>1, <1>2, <1>3, <1>4, <1>5, <1>6, <1>7 DEF Next

LEMMA AppTypeStep == TypeOK /\ [Next]_vars => AppTypes'
<1> SUFFICES ASSUME TypeOK, [Next]_vars PROVE AppTypes'
  OBVIOUS
<1>1. CASE UNCHANGED <<polling, rivals>> /\ boot' \in {boot, "babies", "start"}
  BY <1>1 DEF TypeOK, AppTypes
<1>2. CASE HandleBabies /\ boot' \in {boot, "running"}
  BY <1>2 DEF TypeOK, AppTypes, HandleBabies
<1>3. CASE Crash
  BY <1>3 DEF TypeOK, AppTypes, Crash
<1> QED
  BY <1>1, <1>2, <1>3, AppSteps

LEMMA InitTypes == Init => TypeOK
<1> SUFFICES ASSUME Init PROVE TypeOK
  OBVIOUS
<1> USE DEF Init
<1>1. StoreTypes
  BY DEF StoreTypes, Sessions, Fresh, Tokens
<1>2. CallTypes
  BY DEF CallTypes, Tokens, Places, OptsToken
<1>3. PollTypes
  BY DEF PollTypes, Clients
<1>4. ServerTypes
  BY MessagesAssumption DEF ServerTypes, OptsToken
<1>5. AppTypes
  BY DEF AppTypes
<1> QED
  BY <1>1, <1>2, <1>3, <1>4, <1>5 DEF TypeOK

LEMMA TypeStep == TypeOK /\ [Next]_vars => TypeOK'
BY StoreTypeStep, CallTypeStep, PollTypeStep, AppTypeStep, ServerTypeStep DEF TypeOK, StoreTypes

-----------------------------------------------------------------------------
(* The tokens                                                              *)

\* The places where a client has to do with refresh tokens.
Refreshing == {"seeded", "renewing", "renewed", "logged in", "login stored"}

\* A step that leaves the refresh tokens alone.
Quiet ==
  /\ UNCHANGED <<session.auth, session.refresh, given, issued, valid, lost>>
  /\ \A g \in Clients : /\ token'[g] \in {token[g], session.auth, None}
                        /\ pc'[g] \in Refreshing => pc'[g] = pc[g] /\ token'[g] = token[g]
                        /\ pc[g] = "renewed" => pc'[g] = "renewed"

LEMMA QuietStep ==
  ASSUME Known, NewTokens, Unseeded, TokenIsGood, Quiet
  PROVE  Known' /\ NewTokens' /\ Unseeded' /\ TokenIsGood'
<1>1. Known'
  BY DEF Known, Quiet
<1>2. NewTokens'
  <2> SUFFICES ASSUME NEW g \in Clients, pc'[g] \in {"renewed", "logged in"}
               PROVE  /\ token'[g] \in valid' \ {OptsToken}
                      /\ token'[g] # session'.refresh
                      /\ \A h \in Clients \ {g} :
                            pc'[h] \in {"renewing", "renewed", "logged in"} => token'[h] # token'[g]
    BY DEF NewTokens
  <2>1. /\ pc[g] \in {"renewed", "logged in"} /\ token'[g] = token[g]
        /\ valid' = valid /\ session'.refresh = session.refresh
    BY DEF Quiet, Refreshing
  <2>2. \A h \in Clients : pc'[h] \in {"renewing", "renewed", "logged in"} =>
                              pc[h] = pc'[h] /\ token'[h] = token[h]
    BY DEF Quiet, Refreshing
  <2> QED
    BY <2>1, <2>2 DEF NewTokens
<1>3. Unseeded'
  BY DEF Unseeded, Quiet, Refreshing
<1>4. TokenIsGood'
  BY DEF TokenIsGood, Quiet
<1> QED
  BY <1>1, <1>2, <1>3, <1>4

LEMMA QuietSteps ==
  ASSUME TypeOK,
         \/ \E g \in Clients : MaybeAuthorize(g) \/ NotRenewed(g) \/ Fetching(g)
         \/ \E p \in Pollers : Polling(p)
         \/ \E w \in Logins : EnsureBabies(w) \/ OnLogin(w)
         \/ \E w \in Logins \cup {Main} : FetchBabies(w) \/ StoreBabies(w)
         \/ Running \/ Write \/ Post \/ Expire \/ UNCHANGED vars
  PROVE  Quiet
<1> USE DEF TypeOK, CallTypes, Refreshing, Goes, Returns, storeVars, callVars, pollVars, serverVars, faultVars, appVars
<1>1. ASSUME NEW g \in Clients, MaybeAuthorize(g) PROVE Quiet
  BY <1>1 DEF Quiet, MaybeAuthorize
<1>2. ASSUME NEW g \in Clients, NotRenewed(g) PROVE Quiet
  BY <1>2 DEF Quiet, NotRenewed
<1>3. ASSUME NEW g \in Clients, Request(g) PROVE Quiet
  BY <1>3 DEF Quiet, Request
<1>4. ASSUME NEW g \in Clients, Unauthorized(g) PROVE Quiet
  BY <1>4 DEF Quiet, Unauthorized
<1>5. ASSUME NEW g \in Clients, GiveUp(g) PROVE Quiet
  BY <1>5 DEF Quiet, GiveUp
<1>6. ASSUME NEW p \in Pollers, Poll(p) PROVE Quiet
  BY <1>6 DEF Quiet, Poll, Clients
<1>7. ASSUME NEW p \in Pollers, FetchMessages(p) PROVE Quiet
  BY <1>7 DEF Quiet, FetchMessages, Clients
<1>8. ASSUME NEW p \in Pollers, ReadSeen(p) PROVE Quiet
  BY <1>8 DEF Quiet, ReadSeen, Clients
<1>9. ASSUME NEW p \in Pollers, StoreSeen(p) PROVE Quiet
  BY <1>9 DEF Quiet, StoreSeen, Update, StoreTypes, Sessions, Clients
<1>10. ASSUME NEW p \in Pollers, Report(p) PROVE Quiet
  BY <1>10 DEF Quiet, Report, Clients
<1>11. ASSUME NEW w \in Logins, EnsureBabies(w) PROVE Quiet
  BY <1>11 DEF Quiet, EnsureBabies, Clients
<1>12. ASSUME NEW w \in Logins \cup {Main}, FetchBabies(w) PROVE Quiet
  BY <1>12 DEF Quiet, FetchBabies, Clients
<1>13. ASSUME NEW w \in Logins \cup {Main}, StoreBabies(w) PROVE Quiet
  BY <1>13 DEF Quiet, StoreBabies, Update, StoreTypes, Sessions, Clients
<1>14. CASE Write
  BY <1>14 DEF Quiet, Write
<1>15. CASE Post
  BY <1>15 DEF Quiet, Post
<1>16. CASE Expire
  BY <1>16 DEF Quiet, Expire
<1>17. CASE UNCHANGED vars
  BY <1>17 DEF Quiet, vars
<1>18. ASSUME NEW w \in Logins, OnLogin(w) PROVE Quiet
  BY <1>18 DEF Quiet, OnLogin, Clients
<1>19. CASE Running
  BY <1>19 DEF Quiet, Running, RunAuthorizes, RunEnsuresBabies, RunStarts, Clients
<1> QED
  BY <1>1, <1>2, <1>3, <1>4, <1>5, <1>6, <1>7, <1>8, <1>9, <1>10, <1>11, <1>12, <1>13, <1>14, <1>15, <1>16, <1>17,
     <1>18, <1>19
  DEF Fetching, Polling

\* A session without a refresh token gets the one of the options, which no answer has brought.
LEMMA SeedStep ==
  ASSUME TypeOK, Known, NewTokens, Unseeded, TokenIsGood, NEW g \in Clients, Seed(g)
  PROVE  Known' /\ NewTokens' /\ Unseeded' /\ TokenIsGood'
<1>1. /\ session'.auth = session.auth
      /\ session'.refresh = IF session.refresh = None THEN given ELSE session.refresh
      /\ UNCHANGED <<given, token, issued, valid, lost>>
      /\ pc[g] = "authorizing" /\ \A h \in Clients : pc'[h] = IF h = g THEN "seeded" ELSE pc[h]
  BY DEF TypeOK, StoreTypes, Sessions, CallTypes, Seed, Update, Goes, callVars, pollVars, serverVars, faultVars, appVars
<1>2. OptsToken # None
  BY NoneAssumption DEF OptsToken
<1>3. Known'
  BY <1>1 DEF Known
<1>4. NewTokens'
  BY <1>1 DEF NewTokens, Unseeded
<1>5. Unseeded'
  BY <1>1, <1>2 DEF Unseeded
<1>6. TokenIsGood'
  BY <1>1 DEF TokenIsGood, Unseeded
<1> QED
  BY <1>3, <1>4, <1>5, <1>6

LEMMA RenewStep ==
  ASSUME TypeOK, Known, NewTokens, Unseeded, TokenIsGood, NEW g \in Clients, Renew(g)
  PROVE  Known' /\ NewTokens' /\ Unseeded' /\ TokenIsGood'
<1>1. /\ UNCHANGED <<session, given, issued, valid, lost>>
      /\ pc[g] = "seeded"
      /\ \A h \in Clients : /\ pc'[h] = IF h = g THEN "renewing" ELSE pc[h]
                            /\ token'[h] = IF h = g THEN session.refresh ELSE token[h]
  BY DEF TypeOK, CallTypes, Renew, Goes, storeVars, pollVars, serverVars, faultVars, appVars
<1>2. Known'
  BY <1>1 DEF Known
<1>3. NewTokens'
  BY <1>1 DEF NewTokens
<1>4. Unseeded'
  BY <1>1 DEF Unseeded
<1>5. TokenIsGood'
  BY <1>1 DEF TokenIsGood
<1> QED
  BY <1>2, <1>3, <1>4, <1>5

\* A token that is issued is not known to anybody.
LEMMA NewToken ==
  ASSUME TypeOK, Known, issued' = issued + 1
  PROVE  /\ issued' \in 0 .. issued' /\ issued' # OptsToken /\ issued' # None
         /\ \A t \in 0 .. issued \cup {None} : t # issued' /\ t \in 0 .. issued' \cup {None}
         /\ issued' # session.refresh /\ issued' # given
         /\ \A h \in Clients : token[h] # issued'
<1>1. issued \in Nat /\ issued' = issued + 1
  BY DEF TypeOK, ServerTypes
<1>2. issued' \in Nat \ {0} /\ issued' # None
  BY <1>1, NoneAssumption
<1>3. \A t \in 0 .. issued : t # issued' /\ t \in 0 .. issued'
  BY <1>1
<1>4. \A t \in 0 .. issued \cup {None} : t # issued' /\ t \in 0 .. issued' \cup {None}
  BY <1>2, <1>3
<1> QED
  BY <1>2, <1>4 DEF Known, OptsToken

LEMMA RenewedStep ==
  ASSUME TypeOK, Known, NewTokens, Unseeded, TokenIsGood, NEW g \in Clients, Renewed(g)
  PROVE  Known' /\ NewTokens' /\ Unseeded' /\ TokenIsGood'
<1>1. /\ UNCHANGED <<session, given, lost>>
      /\ issued' = issued + 1
      /\ valid' = (valid \ {token[g]}) \cup {issued'}
      /\ pc[g] = "renewing"
      /\ \A h \in Clients : /\ pc'[h] = IF h = g THEN "renewed" ELSE pc[h]
                            /\ token'[h] = IF h = g THEN issued' ELSE token[h]
  BY DEF TypeOK, CallTypes, Renewed, Goes, storeVars, pollVars, faultVars, appVars
<1>2. Known'
  BY <1>1, NewToken DEF Known
<1>3. ASSUME NEW q \in Clients, pc'[q] \in {"renewed", "logged in"}
      PROVE  /\ token'[q] \in valid' \ {OptsToken}
             /\ token'[q] # session'.refresh
             /\ \A h \in Clients \ {q} : pc'[h] \in {"renewing", "renewed", "logged in"} => token'[h] # token'[q]
  <2>1. CASE q = g
    BY <1>1, <2>1, NewToken
  <2>2. CASE q # g
    <3>1. /\ token[q] \in valid \ {OptsToken} /\ token[q] # session.refresh /\ token[q] # token[g]
          /\ \A h \in Clients \ {q} : pc[h] \in {"renewing", "renewed", "logged in"} => token[h] # token[q]
      BY <1>1, <1>3, <2>2 DEF NewTokens
    <3>2. token[q] # issued'
      BY <1>1, NewToken
    <3> QED
      BY <1>1, <2>2, <3>1, <3>2
  <2> QED
    BY <2>1, <2>2
<1>4. Unseeded'
  BY <1>1 DEF Unseeded
<1>5. TokenIsGood'
  BY <1>1 DEF TokenIsGood
<1> QED
  BY <1>2, <1>3, <1>4, <1>5 DEF NewTokens

LEMMA AnswerLostStep ==
  ASSUME TypeOK, Known, NewTokens, Unseeded, TokenIsGood, NEW g \in Clients, AnswerLost(g)
  PROVE  Known' /\ NewTokens' /\ Unseeded' /\ TokenIsGood'
<1>1. /\ UNCHANGED <<session, given, issued, valid>>
      /\ lost' # {}
      /\ \A h \in Clients : /\ pc'[h] = IF h = g THEN "idle" ELSE pc[h]
                            /\ token'[h] = IF h = g THEN None ELSE token[h]
  BY DEF TypeOK, CallTypes, AnswerLost, Returns, storeVars, pollVars, serverVars
<1> QED
  BY <1>1 DEF Known, NewTokens, Unseeded, TokenIsGood

LEMMA StoreTokensStep ==
  ASSUME TypeOK, Known, NewTokens, Unseeded, TokenIsGood, NEW g \in Clients, StoreTokens(g)
  PROVE  Known' /\ NewTokens' /\ Unseeded' /\ TokenIsGood'
<1>1. /\ session'.auth = token[g] /\ session'.refresh = token[g]
      /\ UNCHANGED <<given, issued, valid, lost>>
      /\ pc[g] = "renewed" /\ pc'[g] \in {"idle", "fetching", "babies"}
      /\ \A h \in Clients : /\ h # g => pc'[h] = pc[h] /\ token'[h] = token[h]
                            /\ token'[h] \in {token[h], None}
  BY SMTT(20) DEF TypeOK, StoreTypes, Sessions, CallTypes, StoreTokens, Continue, Update, Goes, Returns, callVars,
         pollVars, serverVars, faultVars, appVars
<1>2. token[g] \in valid /\ token[g] # None
  <2>1. token[g] \in valid /\ valid \subseteq 0 .. issued
    BY <1>1 DEF NewTokens, TypeOK, ServerTypes
  <2>2. \A t \in 0 .. issued : t \in Nat
    BY DEF TypeOK, ServerTypes
  <2>3. None \notin Nat
    BY NoneAssumption
  <2> QED
    BY <2>1, <2>2, <2>3
<1>3. Known'
  BY <1>1 DEF Known
<1>4. NewTokens'
  BY <1>1 DEF NewTokens
<1>5. Unseeded' /\ TokenIsGood'
  <2>1. session'.refresh = token[g] /\ valid' = valid
    BY <1>1
  <2> QED
    BY <1>2, <2>1 DEF Unseeded, TokenIsGood
<1> QED
  BY <1>3, <1>4, <1>5

LEMMA LoginStep ==
  ASSUME TypeOK, Known, NewTokens, Unseeded, TokenIsGood, NEW w \in Logins, Login(w)
  PROVE  Known' /\ NewTokens' /\ Unseeded' /\ TokenIsGood'
<1>1. /\ UNCHANGED <<session, given, lost>>
      /\ issued' = issued + 1
      /\ valid' = valid \cup {issued'}
      /\ pc[w] = "idle"
      /\ \A h \in Clients : /\ pc'[h] = IF h = w THEN "logged in" ELSE pc[h]
                            /\ token'[h] = IF h = w THEN issued' ELSE token[h]
  BY DEF TypeOK, CallTypes, Login, Goes, storeVars, pollVars, faultVars, appVars, Clients
<1>2. Known'
  BY <1>1, NewToken DEF Known
<1>3. NewTokens'
  BY <1>1, NewToken DEF NewTokens
<1>4. Unseeded'
  BY <1>1 DEF Unseeded
<1>5. TokenIsGood'
  BY <1>1, NoneAssumption DEF TokenIsGood, Clients
<1> QED
  BY <1>2, <1>3, <1>4, <1>5

LEMMA StoreLoginStep ==
  ASSUME TypeOK, Known, NewTokens, Unseeded, TokenIsGood, NEW w \in Logins, StoreLogin(w)
  PROVE  Known' /\ NewTokens' /\ Unseeded' /\ TokenIsGood'
<1>1. /\ session'.auth = session.auth /\ session'.refresh = token[w]
      /\ UNCHANGED <<given, token, issued, valid, lost>>
      /\ w \in Clients /\ pc[w] = "logged in"
      /\ \A h \in Clients : pc'[h] = IF h = w THEN "login stored" ELSE pc[h]
  BY DEF TypeOK, StoreTypes, Sessions, CallTypes, StoreLogin, Update, Goes, callVars, pollVars, serverVars,
         faultVars, appVars, Clients
<1>2. token[w] \in valid /\ token[w] # None
  <2>1. token[w] \in valid /\ valid \subseteq 0 .. issued
    BY <1>1 DEF NewTokens, TypeOK, ServerTypes
  <2>2. \A t \in 0 .. issued : t \in Nat
    BY DEF TypeOK, ServerTypes
  <2>3. None \notin Nat
    BY NoneAssumption
  <2> QED
    BY <2>1, <2>2, <2>3
<1>3. Known'
  BY <1>1 DEF Known
<1>4. NewTokens'
  BY <1>1 DEF NewTokens
<1>5. Unseeded' /\ TokenIsGood'
  <2>1. session'.refresh = token[w] /\ valid' = valid
    BY <1>1
  <2> QED
    BY <1>2, <2>1 DEF Unseeded, TokenIsGood
<1> QED
  BY <1>3, <1>4, <1>5

LEMMA GiveTokenStep ==
  ASSUME TypeOK, Known, NewTokens, Unseeded, TokenIsGood, NEW w \in Logins, GiveToken(w)
  PROVE  Known' /\ NewTokens' /\ Unseeded' /\ TokenIsGood'
<1>1. /\ UNCHANGED <<session, token, issued, valid, lost>>
      /\ given' = token[w]
      /\ w \in Clients /\ pc[w] = "login stored"
      /\ \A h \in Clients : pc'[h] = IF h = w THEN "authorizing" ELSE pc[h]
  BY DEF TypeOK, CallTypes, GiveToken, Goes, storeVars, callVars, pollVars, serverVars, faultVars, appVars, Clients
<1> QED
  BY <1>1 DEF Known, NewTokens, Unseeded, TokenIsGood

\* After a crash, the session is the one in the file: if the file was not lost, nothing has changed.
LEMMA CrashStep ==
  ASSUME TypeOK, Known, Saved, NewTokens, Unseeded, TokenIsGood, Crash
  PROVE  Known' /\ NewTokens' /\ Unseeded' /\ TokenIsGood'
<1>1. /\ given' = OptsToken
      /\ UNCHANGED <<issued, valid>>
      /\ \A h \in Clients : pc'[h] = "idle" /\ token'[h] = None
      /\ lost' = {} => lost = {} /\ saving = None /\ \A h \in Clients : pc[h] # "renewed"
  BY DEF Crash, serverVars
<1>2. session' = session \/ session' = Fresh
  BY DEF Crash, Saved
<1>3. lost' = {} => session' = session
  BY <1>1 DEF Crash, Saved
<1>4. 0 \in 0 .. issued
  BY DEF TypeOK, ServerTypes
<1>5. Known'
  BY <1>1, <1>2, <1>4 DEF Known, OptsToken, Fresh
<1>6. NewTokens'
  BY <1>1 DEF NewTokens
<1>7. Unseeded' /\ TokenIsGood'
  BY <1>1, <1>3 DEF Unseeded, TokenIsGood
<1> QED
  BY <1>5, <1>6, <1>7

LEMMA InitTokens == Init => Known /\ Saved /\ NewTokens /\ Unseeded /\ TokenIsGood
<1> SUFFICES ASSUME Init PROVE Known /\ Saved /\ NewTokens /\ Unseeded /\ TokenIsGood
  OBVIOUS
<1>1. Known
  BY DEF Init, Known, Fresh, OptsToken
<1>2. Saved /\ NewTokens /\ Unseeded /\ TokenIsGood
  BY DEF Init, Saved, NewTokens, Unseeded, TokenIsGood, Fresh
<1> QED
  BY <1>1, <1>2

\* While nobody saves, the file is the session.
LEMMA SavedStep == TypeOK /\ Saved /\ [Next]_vars => Saved'
<1> SUFFICES ASSUME TypeOK, Saved, [Next]_vars PROVE Saved'
  OBVIOUS
<1>1. CASE UNCHANGED <<session, file, saving>>
  BY <1>1 DEF Saved
<1>2. ASSUME NEW g \in Clients, NEW s \in Sessions, Update(g, s) PROVE Saved'
  BY <1>2, NoneAssumption DEF Update, Saved
<1>3. CASE Write
  <2>1. session # Truncated
    BY SessionIsWritten DEF TypeOK, StoreTypes
  <2> QED
    BY <1>3, <2>1 DEF Write, Saved
<1>4. CASE Crash
  BY <1>4 DEF Crash, Saved
<1> QED
  BY <1>1, <1>2, <1>3, <1>4, StoreSteps

\* Every step keeps the tokens.
LEMMA TokenStep == TokenInv /\ [Next]_vars => TokenInv'
<1> SUFFICES ASSUME TokenInv, [Next]_vars PROVE TokenInv'
  OBVIOUS
<1> USE DEF TokenInv
<1>1. TypeOK' /\ Saved'
  BY TypeStep, SavedStep
<1>2. Known' /\ NewTokens' /\ Unseeded' /\ TokenIsGood'
  <2>1. CASE Quiet
    BY <2>1, QuietStep
  <2>2. CASE \E g \in Clients : Authorizing(g)
    BY <2>1, <2>2, QuietSteps, SeedStep, RenewStep, RenewedStep, AnswerLostStep, StoreTokensStep DEF Authorizing
  <2>3. CASE \E w \in Logins : LoggingIn(w)
    BY <2>1, <2>3, QuietSteps, LoginStep, StoreLoginStep, GiveTokenStep DEF LoggingIn
  <2>4. CASE Crash
    BY <2>4, CrashStep
  <2>5. CASE Running \/ \E w \in Logins \cup {Main} : FetchBabies(w) \/ StoreBabies(w)
    BY <2>1, <2>5, QuietSteps
  <2> QED
    BY <2>1, <2>2, <2>3, <2>4, <2>5, QuietSteps DEF Next
<1> QED
  BY <1>1, <1>2

\* The tokens are known, the file is the session, tokens not stored yet are good and nobody
\* else's, and the session has a good one: RenewSession, Store.Update and the logins.
THEOREM TokenInvariant == Spec => []TokenInv
<1>1. Init => TokenInv
  BY InitTypes, InitTokens DEF TokenInv
<1> QED
  BY <1>1, TokenStep, PTL DEF Spec

\* The refresh token of the session is one the server takes, unless an answer or the file was
\* lost: for any clients, tokens and crashes.
THEOREM TokenCorrect == Spec => []TokenIsGood
<1>1. TokenInv => TokenIsGood
  BY DEF TokenInv
<1> QED
  BY <1>1, TokenInvariant, PTL

-----------------------------------------------------------------------------
(* The messages                                                            *)

LEMMA TimesAreNumbers == Times = 1 .. Len(Messages) /\ Len(Messages) \in Nat
BY MessagesAssumption DEF Times

\* A step that leaves the time of the last message alone, and the polls.
Unpolled ==
  /\ session'.seen = session.seen
  /\ "file" \notin lost' => "file" \notin lost
  /\ UNCHANGED reported
  /\ rivals => rivals'
  /\ \A p \in Pollers : pc'[p] \in {"newer", "filtering"} =>
        pc'[p] = pc[p] /\ got'[p] = got[p] /\ after'[p] = after[p]

LEMMA UnpolledStep ==
  ASSUME Polled, SeenIsLatest, Unpolled
  PROVE  Polled' /\ SeenIsLatest'
<1>1. Polled'
  BY DEF Polled, Unpolled
<1>2. SeenIsLatest'
  BY DEF SeenIsLatest, Unpolled
<1> QED
  BY <1>1, <1>2

LEMMA ReadSeenStep ==
  ASSUME TypeOK, Polled, SeenIsLatest, NEW p \in Pollers, ReadSeen(p)
  PROVE  Polled' /\ SeenIsLatest'
<1>1. /\ UNCHANGED <<session, reported, got, lost, rivals>>
      /\ session.seen # 0 => after'[p] = session.seen
      /\ pc[p] = "fetched" /\ pc'[p] = IF session.seen < Max(got[p]) THEN "newer" ELSE "filtering"
      /\ \A c \in Pollers \ {p} : pc'[c] = pc[c] /\ after'[c] = after[c]
  BY DEF TypeOK, CallTypes, PollTypes, ReadSeen, Goes, storeVars, callVars, serverVars, faultVars, appVars, Clients
<1>2. got[p] \in SUBSET Times /\ got[p] # {} /\ session.seen \in Times \cup {0}
  BY <1>1 DEF TypeOK, StoreTypes, Sessions, PollTypes
<1>3. Max(got[p]) \in Times /\ \A m \in got[p] : m <= Max(got[p])
  BY <1>2, LatestExists
<1>4. pc'[p] = "filtering" => \A m \in got[p] : m <= session.seen
  BY <1>1, <1>2, <1>3, TimesAreNumbers
<1>5. Polled'
  BY <1>1, <1>4 DEF Polled
<1>6. SeenIsLatest'
  <2> SUFFICES ASSUME "file" \notin lost', ~ rivals', NEW m \in Times, reported'[m] > 0
               PROVE  /\ reported'[m] = 1 /\ m <= session'.seen
                      /\ \A c \in Pollers : pc'[c] \in {"newer", "filtering"} => m <= after'[c]
    BY DEF SeenIsLatest
  <2>1. /\ reported[m] = 1 /\ m <= session.seen
        /\ \A c \in Pollers : pc[c] \in {"newer", "filtering"} => m <= after[c]
    BY <1>1 DEF SeenIsLatest
  <2>2. session.seen # 0
    BY <2>1, TimesAreNumbers
  <2> QED
    BY <1>1, <2>1, <2>2
<1> QED
  BY <1>5, <1>6

\* Without rivals, a poller at work is the only one.
LEMMA AtWorkAlone ==
  ASSUME Alone, ~ rivals, NEW p \in Pollers, pc[p] # "idle"
  PROVE  \A q \in Pollers \ {p} : pc[q] = "idle"
BY DEF Alone

LEMMA StoreSeenStep ==
  ASSUME TypeOK, Alone, Polled, SeenIsLatest, ~ rivals, NEW p \in Pollers, StoreSeen(p)
  PROVE  Polled' /\ SeenIsLatest'
<1>1. /\ UNCHANGED <<reported, got, after, lost, rivals>>
      /\ session'.seen = Max(got[p])
      /\ pc[p] = "newer" /\ pc'[p] = "filtering"
      /\ \A q \in Pollers \ {p} : pc'[q] = pc[q]
  BY DEF TypeOK, StoreTypes, Sessions, CallTypes, StoreSeen, Update, Goes, callVars, pollVars, serverVars,
         faultVars, appVars, Clients
<1>2. \A q \in Pollers \ {p} : pc'[q] = "idle"
  BY <1>1, AtWorkAlone
<1>3. got[p] \in SUBSET Times /\ got[p] # {} /\ session.seen \in Times \cup {0}
  BY <1>1 DEF TypeOK, StoreTypes, Sessions, PollTypes
<1>4. Max(got[p]) \in Times /\ \A m \in got[p] : m <= Max(got[p])
  BY <1>3, LatestExists
<1>5. session.seen < session'.seen
  BY <1>1 DEF Polled
<1>6. Polled'
  BY <1>1, <1>2, <1>4 DEF Polled
<1>7. SeenIsLatest'
  <2> SUFFICES ASSUME "file" \notin lost', NEW m \in Times, reported'[m] > 0
               PROVE  reported'[m] = 1 /\ m <= session'.seen /\ m <= after'[p]
    BY <1>1, <1>2 DEF SeenIsLatest
  <2>1. reported[m] = 1 /\ m <= session.seen /\ m <= after[p]
    BY <1>1 DEF SeenIsLatest
  <2> QED
    BY <1>1, <1>3, <1>4, <1>5, <2>1, TimesAreNumbers
<1> QED
  BY <1>6, <1>7

LEMMA ReportStep ==
  ASSUME TypeOK, Alone, Polled, SeenIsLatest, ~ rivals, NEW p \in Pollers, Report(p)
  PROVE  Polled' /\ SeenIsLatest'
<1>1. /\ UNCHANGED <<session, lost, rivals>>
      /\ reported' = [m \in Times |-> IF m \in got[p] /\ m > after[p] THEN reported[m] + 1 ELSE reported[m]]
      /\ pc[p] = "filtering" /\ pc'[p] = "idle"
      /\ \A q \in Pollers \ {p} : pc'[q] = pc[q]
  BY DEF TypeOK, CallTypes, Report, Returns, storeVars, serverVars, faultVars, appVars, Clients
<1>2. \A q \in Pollers : pc'[q] = "idle"
  BY <1>1, AtWorkAlone
<1>3. Polled'
  BY <1>2 DEF Polled
<1>4. SeenIsLatest'
  <2> SUFFICES ASSUME "file" \notin lost', NEW m \in Times, reported'[m] > 0
               PROVE  reported'[m] = 1 /\ m <= session'.seen
    BY <1>2 DEF SeenIsLatest
  <2>1. reported[m] \in Nat /\ after[p] \in Nat /\ m \in Nat
    BY TimesAreNumbers DEF TypeOK, PollTypes
  <2>2. reported[m] > 0 => reported[m] = 1 /\ m <= session.seen /\ m <= after[p]
    BY <1>1 DEF SeenIsLatest
  <2>3. CASE m \in got[p] /\ m > after[p]
    <3>1. reported'[m] = reported[m] + 1 /\ m <= session.seen
      BY <1>1, <2>3 DEF Polled
    <3> QED
      BY <1>1, <2>1, <2>2, <2>3, <3>1
  <2>4. CASE ~ (m \in got[p] /\ m > after[p])
    BY <1>1, <2>2, <2>4
  <2> QED
    BY <2>3, <2>4
<1> QED
  BY <1>3, <1>4

LEMMA UnpolledSteps ==
  ASSUME TypeOK,
         \/ \E g \in Clients : Authorizing(g) \/ Fetching(g)
         \/ \E p \in Pollers : Poll(p) \/ FetchMessages(p)
         \/ \E w \in Logins : LoggingIn(w)
         \/ \E w \in Logins \cup {Main} : FetchBabies(w) \/ StoreBabies(w)
         \/ Running \/ Write \/ Post \/ Expire \/ UNCHANGED vars
  PROVE  Unpolled
<1> USE DEF TypeOK, CallTypes, PollTypes, Goes, Returns, storeVars, callVars, pollVars, serverVars, faultVars, appVars, Clients
<1>1. ASSUME NEW g \in Clients, MaybeAuthorize(g) PROVE Unpolled
  BY <1>1 DEF Unpolled, MaybeAuthorize
<1>2. ASSUME NEW g \in Clients, Seed(g) PROVE Unpolled
  BY <1>2 DEF Unpolled, Seed, Update, StoreTypes, Sessions
<1>3. ASSUME NEW g \in Clients, Renew(g) PROVE Unpolled
  BY <1>3 DEF Unpolled, Renew
<1>4. ASSUME NEW g \in Clients, Renewed(g) PROVE Unpolled
  BY <1>4 DEF Unpolled, Renewed
<1>5. ASSUME NEW g \in Clients, AnswerLost(g) PROVE Unpolled
  BY <1>5 DEF Unpolled, AnswerLost
<1>6. ASSUME NEW g \in Clients, NotRenewed(g) PROVE Unpolled
  BY <1>6 DEF Unpolled, NotRenewed
<1>7. ASSUME NEW g \in Clients, StoreTokens(g) PROVE Unpolled
  BY <1>7 DEF Unpolled, StoreTokens, Update, StoreTypes, Sessions, Continue
<1>8. ASSUME NEW g \in Clients, Request(g) PROVE Unpolled
  BY <1>8 DEF Unpolled, Request
<1>9. ASSUME NEW g \in Clients, Unauthorized(g) PROVE Unpolled
  BY <1>9 DEF Unpolled, Unauthorized
<1>10. ASSUME NEW g \in Clients, GiveUp(g) PROVE Unpolled
  BY <1>10 DEF Unpolled, GiveUp
<1>11. ASSUME NEW p \in Pollers, Poll(p) PROVE Unpolled
  BY <1>11 DEF Unpolled, Poll
<1>12. ASSUME NEW p \in Pollers, FetchMessages(p) PROVE Unpolled
  BY <1>12 DEF Unpolled, FetchMessages
<1>13. ASSUME NEW w \in Logins, Login(w) PROVE Unpolled
  BY <1>13 DEF Unpolled, Login
<1>14. ASSUME NEW w \in Logins, StoreLogin(w) PROVE Unpolled
  BY <1>14 DEF Unpolled, StoreLogin, Update, StoreTypes, Sessions
<1>15. ASSUME NEW w \in Logins, GiveToken(w) PROVE Unpolled
  BY <1>15 DEF Unpolled, GiveToken
<1>16. ASSUME NEW w \in Logins, EnsureBabies(w) PROVE Unpolled
  BY <1>16 DEF Unpolled, EnsureBabies
<1>17. ASSUME NEW w \in Logins \cup {Main}, FetchBabies(w) PROVE Unpolled
  BY <1>17 DEF Unpolled, FetchBabies
<1>18. ASSUME NEW w \in Logins \cup {Main}, StoreBabies(w) PROVE Unpolled
  BY <1>18 DEF Unpolled, StoreBabies, Update, StoreTypes, Sessions
<1>19. CASE Write
  BY <1>19 DEF Unpolled, Write
<1>20. CASE Post
  BY <1>20 DEF Unpolled, Post
<1>21. CASE Expire
  BY <1>21 DEF Unpolled, Expire
<1>22. CASE UNCHANGED vars
  BY <1>22 DEF Unpolled, vars
<1>23. ASSUME NEW w \in Logins, OnLogin(w) PROVE Unpolled
  BY <1>23 DEF Unpolled, OnLogin, HandleBabies
<1>24. CASE RunAuthorizes
  BY <1>24 DEF Unpolled, RunAuthorizes
<1>25. CASE RunEnsuresBabies
  BY <1>25 DEF Unpolled, RunEnsuresBabies
<1>26. CASE RunStarts
  BY <1>26 DEF Unpolled, RunStarts, HandleBabies
<1> QED
  BY <1>1, <1>2, <1>3, <1>4, <1>5, <1>6, <1>7, <1>8, <1>9, <1>10, <1>11, <1>12, <1>13, <1>14,
     <1>15, <1>16, <1>17, <1>18, <1>19, <1>20, <1>21, <1>22, <1>23, <1>24,
     <1>25, <1>26
  DEF Authorizing, Fetching, LoggingIn, Running

\* The session that is loaded after a crash is the one there was, or the file was lost.
LEMMA CrashKeepsSeen ==
  ASSUME Saved, Polled, SeenIsLatest, Crash
  PROVE  Polled' /\ SeenIsLatest'
<1>1. /\ UNCHANGED <<reported, rivals>>
      /\ \A p \in Pollers : pc'[p] = "idle"
      /\ "file" \notin lost' => "file" \notin lost /\ saving = None
  BY DEF Crash, Clients
<1>2. "file" \notin lost' => session' = session
  BY <1>1 DEF Crash, Saved
<1> QED
  BY <1>1, <1>2 DEF Polled, SeenIsLatest

\* Only goroutines that were started poll: handleBaby starts them, and nothing but the end of
\* the process stops them.
LEMMA AloneStep == TypeOK /\ Alone /\ [Next]_vars => Alone'
<1> SUFFICES ASSUME TypeOK, Alone, [Next]_vars PROVE Alone'
  OBVIOUS
<1>1. \A p \in Pollers : pc'[p] # "idle" => pc[p] # "idle" \/ p \in polling
  <2> SUFFICES ASSUME NEW p \in Pollers, pc[p] = "idle", pc'[p] # "idle" PROVE p \in polling
    OBVIOUS
  <2> USE DEF TypeOK, CallTypes, Goes, Returns, Clients
  <2>1. ASSUME NEW g \in Clients, Authorizing(g) PROVE p \in polling
    <3>1. CASE MaybeAuthorize(g)
      BY <3>1, ClientsAssumption DEF MaybeAuthorize
    <3>2. CASE StoreTokens(g)
      <4>1. pc[g] = "renewed" /\ \A h \in Clients \ {g} : pc'[h] = pc[h]
        BY <3>2 DEF StoreTokens
      <4> QED
        BY <4>1
    <3> QED
      BY <2>1, <3>1, <3>2 DEF Authorizing, Seed, Renew, Renewed, AnswerLost, NotRenewed
  <2>2. ASSUME NEW g \in Clients, Fetching(g) PROVE p \in polling
    BY <2>2 DEF Fetching, Request, Unauthorized, GiveUp
  <2>3. ASSUME NEW q \in Pollers, Polling(q) PROVE p \in polling
    BY <2>3 DEF Polling, Poll, FetchMessages, ReadSeen, StoreSeen, Report
  <2>4. ASSUME NEW w \in Logins, LoggingIn(w) PROVE p \in polling
    <3>1. p # w
      BY ClientsAssumption
    <3>2. pc'[p] = pc[p]
      BY <2>4, <3>1 DEF LoggingIn, Login, StoreLogin, GiveToken, EnsureBabies, OnLogin
    <3> QED
      BY <3>2
  <2>5. ASSUME NEW w \in Logins \cup {Main}, FetchBabies(w) \/ StoreBabies(w) PROVE p \in polling
    BY <2>5 DEF FetchBabies, StoreBabies
  <2>6. CASE Running
    BY <2>6, ClientsAssumption DEF Running, RunAuthorizes, RunEnsuresBabies, RunStarts
  <2>7. CASE Write \/ Post \/ Expire \/ Crash \/ UNCHANGED vars
    BY <2>7 DEF Write, Post, Expire, Crash, vars
  <2> QED
    BY <2>1, <2>2, <2>3, <2>4, <2>5, <2>6, <2>7 DEF Next
<1>2. CASE UNCHANGED <<polling, rivals>>
  BY <1>1, <1>2 DEF Alone
<1>3. CASE HandleBabies
  <2>1. polling \subseteq polling'
    BY <1>3 DEF HandleBabies
  <2>2. ~ rivals' => \A p, q \in polling' : p = q
    BY <1>3 DEF HandleBabies
  <2> QED
    BY <1>1, <2>1, <2>2 DEF Alone
<1>4. CASE Crash
  BY <1>4 DEF Crash, Alone, Clients
<1> QED
  BY <1>2, <1>3, <1>4, AppSteps

\* Every step keeps the times of the messages that were returned.
LEMMA SeenStep == SeenInv /\ [Next]_vars => SeenInv'
<1> SUFFICES ASSUME SeenInv, [Next]_vars PROVE SeenInv'
  OBVIOUS
<1>1. TypeOK /\ Saved /\ Alone /\ Polled /\ SeenIsLatest
  BY DEF SeenInv, TokenInv
<1>2. CASE rivals'
  BY <1>1, <1>2, AloneStep, TokenStep DEF SeenInv, Polled, SeenIsLatest
<1>3. ASSUME ~ rivals' PROVE Polled' /\ SeenIsLatest'
  <2>1. CASE Crash
    BY <1>1, <2>1, CrashKeepsSeen
  <2>2. CASE \E p \in Pollers : StoreSeen(p) \/ Report(p)
    <3>1. ~ rivals
      BY <1>3, <2>2 DEF StoreSeen, Report, appVars
    <3> QED
      BY <1>1, <2>2, <3>1, StoreSeenStep, ReportStep
  <2>3. CASE \E p \in Pollers : ReadSeen(p)
    BY <1>1, <2>3, ReadSeenStep
  <2> QED
    BY <1>1, <2>1, <2>2, <2>3, UnpolledSteps, UnpolledStep DEF Next, Polling
<1> QED
  BY <1>1, <1>2, <1>3, AloneStep, TokenStep DEF SeenInv

LEMMA InitSeen == Init => SeenInv
<1> SUFFICES ASSUME Init PROVE SeenInv
  OBVIOUS
<1>1. TokenInv
  BY InitTypes, InitTokens DEF TokenInv
<1>2. Alone /\ Polled /\ SeenIsLatest
  BY DEF Init, Alone, Polled, SeenIsLatest, Clients
<1> QED
  BY <1>1, <1>2 DEF SeenInv

\* Without rivals the time stored is not before a message that was returned: FetchNewMessages
\* stores the time of the last message before it returns one, and a crash goes back to no
\* earlier time.
THEOREM SeenInvariant == Spec => []SeenInv
BY InitSeen, SeenStep, PTL DEF Spec

\* No message is returned twice unless a process has polled with two goroutines or the session
\* file was lost: for any messages, clients, tokens and crashes.
THEOREM MessagesCorrect == Spec => []FetchedIsIgnored
<1>1. SeenInv => FetchedIsIgnored
  BY DEF SeenInv, TokenInv, TypeOK, PollTypes, SeenIsLatest, FetchedIsIgnored, FetchedOnce
<1> QED
  BY <1>1, SeenInvariant, PTL

=============================================================================
