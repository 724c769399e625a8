------------------------------ MODULE ApiClient ------------------------------
(***************************************************************************)
(* The browser's side of a session: the API client of the React app        *)
(* (react-app/src/lib/apiClient.js) with the sign-in and the logout of     *)
(* AuthContext.js, in the default cookie mode of the API.                  *)
(*                                                                         *)
(* The tabs of a browser share the refresh cookie and localStorage; each   *)
(* has a promise of its own for the refresh under way (single flight).  A  *)
(* cookie is attached when a request is sent, and set when its response    *)
(* arrives.  A token stands for the pair of a refresh token and the access *)
(* token issued with it.                                                   *)
(***************************************************************************)
EXTENDS Integers, FiniteSets

CONSTANTS
  Tabs,
  Calls,   \* places for calls of the API that need an access token
  TabOf,   \* the tab of each
  Tokens,  \* a bound
  None

ASSUME ApiClientAssumption == TabOf \in [Calls -> Tabs] /\ None \notin Tokens

VARIABLES
  \* the API
  issued,
  revoked,  \* refresh tokens
  stale,    \* access tokens
  origin,   \* history: the refresh token that one was exchanged for
  \* the browser
  cookie,   \* the refresh cookie
  token,    \* localStorage: token
  profile,  \* localStorage: user is there
  \* the tabs
  flight,   \* refreshPromise, and where its request is
  leaving,  \* the logout under way
  call,
  \* history
  excused,  \* the user left, two tabs refreshed at once, or the API refused
            \* the session for a reason of its own
  out,      \* the last of sign-in and logout was a logout
  quiet,    \* no refresh was under way during it
  cut       \* its request or response was lost

server  == <<issued, revoked, stale, origin>>
storage == <<token, profile>>
hist    == <<excused, out, quiet, cut>>
vars    == <<server, cookie, storage, flight, leaving, call, hist>>

MaybeToken == Tokens \cup {None}

TypeOK ==
  /\ revoked \cup stale \subseteq issued
  /\ issued \subseteq Tokens
  /\ origin \in [Tokens -> MaybeToken]
  /\ cookie \in MaybeToken
  /\ token \in MaybeToken
  /\ profile \in BOOLEAN
  /\ flight \in [Tabs -> [at : {"none", "sent", "found", "ok", "fail"},
                          tok : MaybeToken]]
  /\ leaving \in [Tabs -> [at : {"none", "sent", "answered"}, tok : MaybeToken]]
  /\ call \in [Calls -> [at : {"idle", "sent", "waiting", "retried"},
                         bearer : MaybeToken]]
  /\ excused \in BOOLEAN /\ out \in BOOLEAN /\ quiet \in BOOLEAN /\ cut \in BOOLEAN

-----------------------------------------------------------------------------
Nothing == [at |-> "none", tok |-> None]
Settled == [at |-> "idle", bearer |-> None]

Leaving   == \E b \in Tabs : leaving[b] # Nothing
Refreshes == \E b \in Tabs : flight[b] # Nothing

\* Calls of tab b that wait for its refresh.
Queue(b) == {c \in Calls : TabOf[c] = b /\ call[c].at = "waiting"}

\* _clearAuthStorage
ClearStorage == token' = None /\ profile' = FALSE

\* As in AuthSessions, Mistaken_... is the next definition with a mistake.
Mistaken_SetTokens(t) == token' = "undefined"

\* _setTokensFromResponse
SetTokens(t) == token' = t

\* _set_refresh_cookie and _clear_refresh_cookie, when the response arrives.
SetCookie(t) == cookie' = t
DeleteCookie == cookie' = None

\* The access token is accepted.
Accepted(t) == t \in issued \ stale

Mistaken_JoinFlight(b) ==
  /\ flight' = [flight EXCEPT ![b] = [at |-> "sent", tok |-> cookie]]
  /\ quiet' = (quiet /\ ~Leaving)
  /\ excused' = (excused \/ \E a \in Tabs \ {b} : flight[a] # Nothing)

\* _refreshAccessTokenSingleFlight, called by a request that got a 401.
JoinFlight(b) ==
  IF flight[b] = Nothing
  THEN /\ flight' = [flight EXCEPT ![b] = [at |-> "sent", tok |-> cookie]]
       /\ quiet' = (quiet /\ ~Leaving)
       /\ excused' = (excused \/ Refreshes)
  ELSE UNCHANGED <<flight, excused, quiet>>

\* A page calls the API.
Send(c) ==
  /\ call[c].at = "idle"
  /\ call' = [call EXCEPT ![c] = [at |-> "sent", bearer |-> token]]
  /\ UNCHANGED <<server, cookie, storage, flight, leaving, hist>>

\* The answer to a call, or none: anything but a 401 goes to the caller.
Answer(c) ==
  /\ call[c].at \in {"sent", "retried"}
  /\ call' = [call EXCEPT ![c] = Settled]
  /\ UNCHANGED <<server, cookie, storage, flight, leaving, hist>>

\* A 401 to a first try.
Unauthorized(c) ==
  /\ call[c].at = "sent"
  /\ ~Accepted(call[c].bearer)
  /\ call' = [call EXCEPT ![c] = [at |-> "waiting", bearer |-> None]]
  /\ JoinFlight(TabOf[c])
  /\ UNCHANGED <<server, cookie, storage, leaving, out, cut>>

\* A 401 to the retry: the new access token is over already.
UnauthorizedRetry(c) ==
  /\ call[c].at = "retried"
  /\ ~Accepted(call[c].bearer)
  /\ call' = [call EXCEPT ![c] = Settled]
  /\ ClearStorage
  /\ excused' = TRUE
  /\ UNCHANGED <<server, cookie, flight, leaving, out, quiet, cut>>

\* /auth/refresh reads the token it was sent.
RefreshFind(b) ==
  /\ flight[b].at = "sent"
  /\ LET t == flight[b].tok
     IN  flight' = [flight EXCEPT ![b].at =
                      IF t \in issued \ revoked THEN "found" ELSE "fail"]
  /\ UNCHANGED <<server, cookie, storage, leaving, call, hist>>

Mistaken_RefreshRotate(b, n) ==
  /\ flight[b].at = "found"
  /\ n \in Tokens \ issued
  /\ issued' = issued \cup {n}
  /\ origin' = [origin EXCEPT ![n] = flight[b].tok]
  /\ flight' = [flight EXCEPT ![b] = [at |-> "ok", tok |-> n]]
  /\ UNCHANGED <<revoked, stale, cookie, storage, leaving, call, hist>>

\* It issues a new one and revokes the old one.
RefreshRotate(b, n) ==
  /\ flight[b].at = "found"
  /\ n \in Tokens \ issued
  /\ issued' = issued \cup {n}
  /\ revoked' = revoked \cup {flight[b].tok}
  /\ origin' = [origin EXCEPT ![n] = flight[b].tok]
  /\ flight' = [flight EXCEPT ![b] = [at |-> "ok", tok |-> n]]
  /\ UNCHANGED <<stale, cookie, storage, leaving, call, hist>>

\* The session has expired, or the API fails.
RefreshError(b) ==
  /\ flight[b].at \in {"sent", "found"}
  /\ flight' = [flight EXCEPT ![b].at = "fail"]
  /\ excused' = TRUE
  /\ UNCHANGED <<server, cookie, storage, leaving, call, out, quiet, cut>>

\* The response arrives: the waiting calls are sent again.
RefreshDone(b) ==
  /\ flight[b].at = "ok"
  /\ SetCookie(flight[b].tok)
  /\ SetTokens(flight[b].tok)
  /\ flight' = [flight EXCEPT ![b] = Nothing]
  /\ call' = [c \in Calls |->
       IF c \in Queue(b) THEN [at |-> "retried", bearer |-> token'] ELSE call[c]]
  /\ UNCHANGED <<server, profile, leaving, hist>>

Mistaken_Abandon(b) ==
  /\ flight' = [flight EXCEPT ![b] = Nothing]
  /\ ClearStorage
  /\ UNCHANGED <<server, cookie, leaving, call, out, quiet, cut>>

\* The refresh has failed, for every call that waits for it.
Abandon(b) ==
  /\ flight' = [flight EXCEPT ![b] = Nothing]
  /\ ClearStorage
  /\ call' = [c \in Calls |-> IF c \in Queue(b) THEN Settled ELSE call[c]]
  /\ UNCHANGED <<server, cookie, leaving, out, quiet, cut>>

RefreshFail(b) ==
  /\ flight[b].at = "fail"
  /\ Abandon(b)
  /\ UNCHANGED excused

\* The API has rotated the token but its response is lost.
RefreshLost(b) ==
  /\ flight[b].at = "ok"
  /\ Abandon(b)
  /\ excused' = TRUE

\* A sign-in (register, loginWithEmail, loginWithGoogle), from its request to its
\* response; one that fails changes nothing.
Login(n) ==
  /\ ~profile
  /\ n \in Tokens \ issued
  /\ issued' = issued \cup {n}
  /\ SetCookie(n)
  /\ SetTokens(n)
  /\ profile' = TRUE
  /\ excused' = (Leaving \/ Refreshes) /\ out' = FALSE
  /\ quiet' = (Leaving /\ quiet) /\ cut' = (Leaving /\ cut)
  /\ UNCHANGED <<revoked, stale, origin, flight, leaving, call>>

LogoutSend(b) ==
  /\ leaving[b] = Nothing
  /\ leaving' = [leaving EXCEPT ![b] = [at |-> "sent", tok |-> cookie]]
  /\ quiet' = (~Refreshes /\ (Leaving => quiet))
  /\ cut' = (Leaving /\ cut)
  /\ excused' = TRUE
  /\ UNCHANGED <<server, cookie, storage, flight, call, out>>

\* auth_logout revokes the token of the cookie it was sent, or says nothing of
\* failing to.
LogoutServe(b) ==
  /\ leaving[b].at = "sent"
  /\ revoked' \in {revoked, revoked \cup ({leaving[b].tok} \ {None})}
  /\ leaving' = [leaving EXCEPT ![b].at = "answered"]
  /\ UNCHANGED <<issued, stale, origin, cookie, storage, flight, call, hist>>

\* The end of logout, whatever became of its request.
Leave(b) ==
  /\ leaving' = [leaving EXCEPT ![b] = Nothing]
  /\ ClearStorage
  /\ out' = TRUE
  /\ UNCHANGED <<server, flight, call, excused, quiet>>

Mistaken_LogoutDone(b) ==
  /\ leaving[b].at = "answered"
  /\ Leave(b)
  /\ UNCHANGED <<cookie, cut>>

\* Its response deletes the cookie.
LogoutDone(b) ==
  /\ leaving[b].at = "answered"
  /\ DeleteCookie
  /\ Leave(b)
  /\ UNCHANGED cut

LogoutLost(b) ==
  /\ leaving[b] # Nothing
  /\ Leave(b)
  /\ cut' = TRUE
  /\ UNCHANGED cookie

\* JWT_EXPIRE has passed.
Expire(t) ==
  /\ t \in issued \ stale
  /\ stale' = stale \cup {t}
  /\ UNCHANGED <<issued, revoked, origin, cookie, storage, flight, leaving, call,
                 hist>>

\* A browser that is signed in.
Init ==
  /\ \E t \in Tokens : issued = {t} /\ cookie = t /\ token = t
  /\ revoked = {} /\ stale = {}
  /\ origin = [t \in Tokens |-> None]
  /\ profile = TRUE
  /\ flight = [b \in Tabs |-> Nothing]
  /\ leaving = [b \in Tabs |-> Nothing]
  /\ call = [c \in Calls |-> Settled]
  /\ excused = FALSE /\ out = FALSE /\ quiet = FALSE /\ cut = FALSE

CallStep(c) == Answer(c) \/ Unauthorized(c) \/ UnauthorizedRetry(c)

RefreshStep(b) ==
  \/ RefreshFind(b) \/ RefreshError(b)
  \/ RefreshDone(b) \/ RefreshFail(b) \/ RefreshLost(b)
  \/ \E n \in Tokens : RefreshRotate(b, n)

Next ==
  \/ \E c \in Calls : Send(c) \/ CallStep(c)
  \/ \E b \in Tabs : \/ RefreshStep(b)
                     \/ LogoutSend(b) \/ LogoutServe(b)
                     \/ LogoutDone(b) \/ LogoutLost(b)
  \/ \E t \in Tokens : Login(t) \/ Expire(t)

Spec == Init /\ [][Next]_vars

\* Every request is answered, or the browser gives up on it.
Fairness ==
  /\ \A c \in Calls : WF_vars(CallStep(c))
  /\ \A b \in {TabOf[c] : c \in Calls} : WF_vars(RefreshStep(b))

FairSpec == Spec /\ Fairness

-----------------------------------------------------------------------------
\* A user stays signed in until they leave, two tabs refresh at once, or the API
\* refuses the session for a reason of its own: the concurrent 401s of one tab,
\* late ones included, do not present a refresh token already exchanged.
KeepsSignedIn == profile \/ excused

\* A logout that was answered, and during which no tab was refreshing, leaves
\* nothing in the browser that a page could go on with.
LogoutEnds ==
  out /\ ~Leaving /\ quiet /\ ~cut => cookie = None /\ token = None

\* The API has found token t good for a tab and has not answered yet.
Trades(b, t) == flight[b] = [at |-> "found", tok |-> t]

InTrade == {t \in Tokens : \E b \in Tabs : Trades(b, t)}

Server == INSTANCE SessionServer WITH
  handed <- issued, spent <- revoked, trading <- InTrade

\* The API that the browser meets here is the server that AuthSessions implements:
\* overlapping refreshes and logouts of its tabs exchange good tokens only, each of
\* them spent when its successor is there.
KeepsServer == Server!Spec

\* Every call is settled in the end: none waits for a refresh that is over, and
\* none is tried for ever.  The calls are interchangeable: one is enough.
CallsSettle ==
  LET c == CHOOSE x \in Calls : TRUE
  IN  call[c].at # "idle" ~> call[c].at = "idle"

=============================================================================
