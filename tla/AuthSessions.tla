---------------------------- MODULE AuthSessions ----------------------------
(***************************************************************************)
(* Sessions of the FastAPI service: password login, refresh-token          *)
(* rotation, logout, "revoke other sessions", and the password reset that  *)
(* must end every session of an account.                                   *)
(*                                                                         *)
(* The service runs several uvicorn workers.  A handler is a coroutine     *)
(* that reads its body first and then runs synchronous psycopg2 code, so a *)
(* worker serves one request at a time, but every repository call is a     *)
(* statement committed on its own: statements of different workers         *)
(* interleave freely.  Hence one action per statement, and what a handler  *)
(* read in one statement may be stale in the next.                         *)
(*                                                                         *)
(* Left out: audit rows and last_seen_at (written, never read by a         *)
(* handler of this module), access tokens (signed, not stored), the mail   *)
(* that carries a reset token (module EmailOutbox), rate limits (module    *)
(* RateLimit).                                                             *)
(***************************************************************************)
EXTENDS Integers, FiniteSets

CONSTANTS
  Users,          \* rows of api_auth_users
  Passwords,      \* passwords that satisfy the policy
  RefreshTokens,  \* ids of api_auth_refresh_tokens: the bound on sessions
  ResetTokens,    \* ids of password_reset one-time tokens: a bound
  Workers,        \* uvicorn workers (API_WORKERS)
  MaxFailures,    \* AUTH_LOCKOUT_MAX_FAILURES
  MaxUnlocks,     \* locks of an account that may expire in a row: a bound
  Kinds,          \* the requests and events this instance takes
  None

Requests == {"login", "refresh", "logout", "others", "forgot", "reset"}
Events   == {"clock", "lapse", "unlock", "admin", "fault"}

ASSUME WorkersAssumption == IsFiniteSet(Workers)
ASSUME MaxFailuresAssumption == MaxFailures \in Nat \ {0}
ASSUME MaxUnlocksAssumption == MaxUnlocks \in Nat
ASSUME KindsAssumption == Kinds \subseteq Requests \cup Events
ASSUME NoneAssumption ==
  None \notin Users \cup Passwords \cup RefreshTokens \cup ResetTokens

VARIABLES
  \* api_auth_users
  hash,        \* password_hash, by user
  inactive,    \* users with is_active = FALSE
  failures,    \* failed_login_attempts, saturated at MaxFailures
  locked,      \* users whose locked_until is in the future
  \* api_auth_refresh_tokens
  issued,      \* rows
  revoked,     \* rows with revoked_at set
  expired,     \* rows with expires_at in the past
  owner,       \* user_id
  replacedBy,  \* replaced_by_token_id
  \* api_auth_one_time_tokens of type password_reset
  minted,      \* rows
  consumed,    \* rows with consumed_at set
  lapsed,      \* rows with expires_at in the past
  resetOwner,  \* user_id
  uses,        \* history: the passwords set with it, counted to one past the bound
  \* the workers
  pc,          \* the statement a worker runs next
  arg,         \* the local variables of its handler
  \* history
  held,        \* refresh tokens a client has received in a response
  parent,      \* the token that was exchanged for this one
  secret,      \* the password proved at the login that began the session
  ended,       \* tokens revoked while live, other than by rotation
  raced,       \* workers whose check was overtaken by such an ending
  outlived,    \* tokens answered by a raced worker, or descending from one
  guesses,     \* wrong passwords tried since failed_login_attempts was last 0
  unlocks      \* locks that have expired since then

userVars    == <<hash, inactive, failures, locked>>
refreshVars == <<issued, revoked, expired, owner, replacedBy>>
resetVars   == <<minted, consumed, lapsed, resetOwner, uses>>
tokenHist   == <<parent, secret>>
endHist     == <<ended, raced>>
heldHist    == <<held, outlived>>
guessHist   == <<guesses, unlocks>>
vars == <<userVars, refreshVars, resetVars, pc, arg, tokenHist, endHist,
          heldHist, guessHist>>

Statements ==
  {"login_user", "login_lock", "login_fail", "login_create", "login_clear",
   "refresh_find", "refresh_create", "refresh_revoke",
   "logout_find", "logout_revoke", "others_find", "others_revoke",
   "forgot_find", "forgot_mint",
   "reset_find", "reset_hash", "reset_consume", "reset_revoke", "respond"}

\* The handlers' local variables: the user the request is about, the token it
\* presents, the token it created, the reset token, the password presented and
\* the hash read from the user's row.
Blank == [user |-> None, tok |-> None, new |-> None, key |-> None,
          pw |-> None, seen |-> None]

Args == [user : Users \cup {None}, tok : RefreshTokens \cup {None},
         new : RefreshTokens \cup {None}, key : ResetTokens \cup {None},
         pw : Passwords \cup {None}, seen : Passwords \cup {None}]

TypeOK ==
  /\ hash \in [Users -> Passwords]
  /\ inactive \subseteq Users
  /\ failures \in [Users -> 0 .. MaxFailures]
  /\ locked \subseteq Users
  /\ issued \subseteq RefreshTokens
  /\ revoked \subseteq issued
  /\ expired \subseteq issued
  /\ owner \in [RefreshTokens -> Users \cup {None}]
  /\ replacedBy \in [RefreshTokens -> RefreshTokens \cup {None}]
  /\ minted \subseteq ResetTokens
  /\ consumed \subseteq minted
  /\ lapsed \subseteq minted
  /\ resetOwner \in [ResetTokens -> Users \cup {None}]
  /\ uses \in [ResetTokens -> Nat]
  /\ pc \in [Workers -> Statements \cup {"idle"}]
  /\ arg \in [Workers -> Args]
  /\ held \subseteq issued
  /\ parent \in [RefreshTokens -> RefreshTokens \cup {None}]
  /\ secret \in [RefreshTokens -> Passwords \cup {None}]
  /\ ended \subseteq revoked
  /\ raced \subseteq Workers
  /\ outlived \subseteq held
  /\ guesses \in [Users -> Nat]
  /\ unlocks \in [Users -> 0 .. MaxUnlocks]

-----------------------------------------------------------------------------
(* The repository: api/auth/repo.py.                                       *)

\* A definition named Mistaken_... is the next one with a plausible mistake: the
\* properties of this module must tell the two apart.
Mistaken_Live == issued \ expired

Live == issued \ (revoked \cup expired)

TokensOf(u) == {t \in issued : owner[t] = u}

SessionsOf(u) == TokensOf(u) \ revoked

Mistaken_create_refresh_token(t, u) ==
  /\ t \notin issued
  /\ owner' = [owner EXCEPT ![t] = u]
  /\ UNCHANGED <<issued, revoked, expired, replacedBy>>

create_refresh_token(t, u) ==
  /\ t \notin issued
  /\ issued' = issued \cup {t}
  /\ owner' = [owner EXCEPT ![t] = u]
  /\ UNCHANGED <<revoked, expired, replacedBy>>

Mistaken_revoke_refresh_token(t, by) ==
  /\ replacedBy' = [replacedBy EXCEPT ![t] = by]
  /\ UNCHANGED <<issued, revoked, expired, owner>>

revoke_refresh_token(t, by) ==
  /\ revoked' = revoked \cup {t}
  /\ replacedBy' = [replacedBy EXCEPT ![t] = by]
  /\ UNCHANGED <<issued, expired, owner>>

Mistaken_revoke_all_refresh_tokens(u) == UNCHANGED refreshVars

revoke_all_refresh_tokens(u) ==
  /\ revoked' = revoked \cup SessionsOf(u)
  /\ UNCHANGED <<issued, expired, owner, replacedBy>>

Mistaken_revoke_all_refresh_tokens_except(u, keep) ==
  /\ revoked' = revoked \cup (issued \ {keep})
  /\ UNCHANGED <<issued, expired, owner, replacedBy>>

revoke_all_refresh_tokens_except(u, keep) ==
  /\ revoked' = revoked \cup (SessionsOf(u) \ {keep})
  /\ UNCHANGED <<issued, expired, owner, replacedBy>>

Mistaken_register_login_failure(u) ==
  /\ failures' = [failures EXCEPT ![u] = IF @ < MaxFailures THEN @ + 1 ELSE @]
  /\ locked' = IF failures[u] + 1 > MaxFailures THEN locked \cup {u} ELSE locked
  /\ UNCHANGED <<hash, inactive>>

register_login_failure(u) ==
  /\ failures' = [failures EXCEPT ![u] = IF @ < MaxFailures THEN @ + 1 ELSE @]
  /\ locked' = IF failures[u] + 1 >= MaxFailures THEN locked \cup {u} ELSE locked
  /\ UNCHANGED <<hash, inactive>>

reset_login_failures(u) ==
  /\ failures' = [failures EXCEPT ![u] = 0]
  /\ locked' = locked \ {u}
  /\ UNCHANGED <<hash, inactive>>

set_user_password_hash(u, p) ==
  /\ hash' = [hash EXCEPT ![u] = p]
  /\ UNCHANGED <<inactive, failures, locked>>

create_one_time_token(k, u) ==
  /\ k \notin minted
  /\ minted' = minted \cup {k}
  /\ resetOwner' = [resetOwner EXCEPT ![k] = u]
  /\ UNCHANGED <<consumed, lapsed, uses>>

\* The row of a token that was sent out.
find_one_time_token(k) ==
  [user_id |-> resetOwner[k], consumed |-> k \in consumed, expired |-> k \in lapsed]

Mistaken_consume_one_time_token(k) == UNCHANGED resetVars

consume_one_time_token(k) ==
  /\ consumed' = consumed \cup {k}
  /\ UNCHANGED <<minted, lapsed, resetOwner, uses>>

-----------------------------------------------------------------------------
(* How a worker goes from one statement to the next.                       *)

Begin(w, statement, a) ==
  /\ pc[w] = "idle"
  /\ pc' = [pc EXCEPT ![w] = statement]
  /\ arg' = [arg EXCEPT ![w] = a]
  /\ UNCHANGED <<userVars, refreshVars, resetVars, tokenHist, endHist,
                 heldHist, guessHist>>

Goto(w, statement, a) ==
  /\ pc' = [pc EXCEPT ![w] = statement]
  /\ arg' = [arg EXCEPT ![w] = a]

\* The request is over: the handler's locals are gone.
Finish(w) ==
  /\ pc' = [pc EXCEPT ![w] = "idle"]
  /\ arg' = [arg EXCEPT ![w] = Blank]

\* The request is over with an error answer, or dropped, and no effect.
Reject(w) ==
  /\ Finish(w)
  /\ raced' = raced \ {w}
  /\ UNCHANGED <<ended, guessHist>>

Proceed(w, statement, a) ==
  /\ Goto(w, statement, a)
  /\ UNCHANGED <<endHist, guessHist>>

NoRows == UNCHANGED <<userVars, refreshVars, resetVars>>

\* Ids are left for every request in progress and for one more (bound).
Room ==
  Cardinality(RefreshTokens \ issued) >
    Cardinality({w \in Workers : pc[w] # "idle"})

\* A refresh that has read token t as live and has not yet revoked it.
Exchanging(w, t) ==
  /\ pc[w] \in {"refresh_create", "refresh_revoke"}
  /\ arg[w].tok = t

\* What GuessesBounded allows account u, and one more wrong password counted up
\* to that number.
Allowed(u) == MaxFailures + (unlocks[u] + 1) * Cardinality(Workers)

Counted(u) == IF guesses[u] < Allowed(u) THEN guesses[u] + 1 ELSE guesses[u]

\* One more use of a reset token, counted up to one past the bound of ResetsBounded.
Used(n) == IF n <= Cardinality(Workers) THEN n + 1 ELSE n

\* Tokens S are revoked to end their sessions: those still accepted are ended,
\* and the exchanges of any of them are overtaken.
End(S) ==
  /\ ended' = ended \cup (S \ revoked)
  /\ raced' = raced \cup {w \in Workers : \E t \in S : Exchanging(w, t)}

\* A login that has read the hash of u and has not yet created its session.
Proving(w, u) ==
  /\ pc[w] \in {"login_lock", "login_create"}
  /\ arg[w].user = u

-----------------------------------------------------------------------------
(* POST /auth/login: login_user of api/auth/service.py.                    *)

LoginRequest(w, u, p) ==
  /\ "login" \in Kinds
  /\ Room
  /\ Begin(w, "login_user", [Blank EXCEPT !.user = u, !.pw = p])

LoginUser(w) ==
  /\ pc[w] = "login_user"
  /\ LET u == arg[w].user IN
       \/ /\ u \in inactive
          /\ Reject(w)
       \/ /\ u \notin inactive
          /\ Proceed(w, "login_lock", [arg[w] EXCEPT !.seen = hash[u]])
  /\ NoRows
  /\ UNCHANGED <<tokenHist, heldHist>>

\* A lock state that cannot be read (a fault) counts as unlocked.  The password
\* is compared with the hash read by LoginUser.
LoginLock(w) ==
  /\ pc[w] = "login_lock"
  /\ LET u == arg[w].user IN
       \/ /\ u \in locked
          /\ Reject(w)
       \/ /\ u \notin locked \/ "fault" \in Kinds
          /\ arg[w].pw = arg[w].seen
          /\ Proceed(w, "login_create", arg[w])
       \/ /\ u \notin locked \/ "fault" \in Kinds
          /\ arg[w].pw # arg[w].seen
          /\ guesses' = [guesses EXCEPT ![u] = Counted(u)]
          /\ Goto(w, "login_fail", arg[w])
          /\ UNCHANGED <<endHist, unlocks>>
  /\ NoRows
  /\ UNCHANGED <<tokenHist, heldHist>>

\* The failure to count a failure is swallowed.
LoginFail(w) ==
  /\ pc[w] = "login_fail"
  /\ \/ register_login_failure(arg[w].user)
     \/ "fault" \in Kinds /\ UNCHANGED userVars
  /\ Reject(w)
  /\ UNCHANGED <<refreshVars, resetVars, tokenHist, heldHist>>

LoginCreate(w) ==
  /\ pc[w] = "login_create"
  /\ \E t \in RefreshTokens :
       /\ create_refresh_token(t, arg[w].user)
       /\ secret' = [secret EXCEPT ![t] = arg[w].seen]
       /\ Proceed(w, "login_clear", [arg[w] EXCEPT !.new = t])
  /\ UNCHANGED <<userVars, resetVars, parent, heldHist>>

\* The failure to clear the counter is swallowed.
LoginClear(w) ==
  /\ pc[w] = "login_clear"
  /\ LET u == arg[w].user IN
       \/ /\ reset_login_failures(u)
          /\ guesses' = [guesses EXCEPT ![u] = 0]
          /\ unlocks' = [unlocks EXCEPT ![u] = 0]
       \/ /\ "fault" \in Kinds
          /\ UNCHANGED <<userVars, guessHist>>
  /\ Goto(w, "respond", arg[w])
  /\ UNCHANGED <<refreshVars, resetVars, tokenHist, endHist, heldHist>>

\* The answer of a login or a refresh reaches the client with its new token.
Respond(w) ==
  /\ pc[w] = "respond"
  /\ held' = held \cup {arg[w].new}
  /\ outlived' = IF w \in raced \/ arg[w].tok \in outlived
                 THEN outlived \cup {arg[w].new}
                 ELSE outlived
  /\ Reject(w)
  /\ NoRows
  /\ UNCHANGED tokenHist

-----------------------------------------------------------------------------
(* POST /auth/refresh: refresh_tokens of api/auth/service.py.  It does not  *)
(* look at is_active.                                                      *)

RefreshRequest(w, t) ==
  /\ "refresh" \in Kinds
  /\ Room
  /\ Begin(w, "refresh_find", [Blank EXCEPT !.tok = t])

RefreshFind(w) ==
  /\ pc[w] = "refresh_find"
  /\ arg[w].tok \in Live
  /\ Proceed(w, "refresh_create", [arg[w] EXCEPT !.user = owner[arg[w].tok]])
  /\ NoRows
  /\ UNCHANGED <<tokenHist, heldHist>>

\* A revoked token is presented: audited as auth.refresh_reuse, and refused.
RefreshReuse(w) ==
  /\ pc[w] = "refresh_find"
  /\ arg[w].tok \in revoked
  /\ Reject(w)
  /\ NoRows
  /\ UNCHANGED <<tokenHist, heldHist>>

RefreshExpired(w) ==
  /\ pc[w] = "refresh_find"
  /\ arg[w].tok \in expired \ revoked
  /\ Reject(w)
  /\ NoRows
  /\ UNCHANGED <<tokenHist, heldHist>>

RefreshCreate(w) ==
  /\ pc[w] = "refresh_create"
  /\ \E t \in RefreshTokens :
       /\ create_refresh_token(t, arg[w].user)
       /\ parent' = [parent EXCEPT ![t] = arg[w].tok]
       /\ secret' = [secret EXCEPT ![t] = secret[arg[w].tok]]
       /\ Proceed(w, "refresh_revoke", [arg[w] EXCEPT !.new = t])
  /\ UNCHANGED <<userVars, resetVars, heldHist>>

RefreshRevoke(w) ==
  /\ pc[w] = "refresh_revoke"
  /\ revoke_refresh_token(arg[w].tok, arg[w].new)
  /\ Proceed(w, "respond", arg[w])
  /\ UNCHANGED <<userVars, resetVars, tokenHist, heldHist>>

-----------------------------------------------------------------------------
(* POST /auth/logout and /auth/sessions/revoke-others (api/routes/auth.py). *)

LogoutRequest(w, t) ==
  /\ "logout" \in Kinds
  /\ Begin(w, "logout_find", [Blank EXCEPT !.tok = t])

LogoutFind(w) ==
  /\ pc[w] = "logout_find"
  /\ Proceed(w, "logout_revoke", arg[w])
  /\ NoRows
  /\ UNCHANGED <<tokenHist, heldHist>>

\* Whatever the state of the token: a rotated one loses its replacedBy.
LogoutRevoke(w) ==
  /\ pc[w] = "logout_revoke"
  /\ revoke_refresh_token(arg[w].tok, None)
  /\ End({arg[w].tok})
  /\ Finish(w)
  /\ UNCHANGED <<userVars, resetVars, tokenHist, heldHist, guessHist>>

\* u is the subject of the access token that comes with the request.
OthersRequest(w, u, t) ==
  /\ "others" \in Kinds
  /\ Begin(w, "others_find", [Blank EXCEPT !.user = u, !.tok = t])

\* The token must be one of the user's: it may be revoked or expired.
OthersFind(w) ==
  /\ pc[w] = "others_find"
  /\ \/ /\ owner[arg[w].tok] # arg[w].user
        /\ Reject(w)
     \/ /\ owner[arg[w].tok] = arg[w].user
        /\ Proceed(w, "others_revoke", arg[w])
  /\ NoRows
  /\ UNCHANGED <<tokenHist, heldHist>>

OthersRevoke(w) ==
  /\ pc[w] = "others_revoke"
  /\ revoke_all_refresh_tokens_except(arg[w].user, arg[w].tok)
  /\ End(TokensOf(arg[w].user) \ {arg[w].tok})
  /\ Finish(w)
  /\ UNCHANGED <<userVars, resetVars, tokenHist, heldHist, guessHist>>

-----------------------------------------------------------------------------
(* POST /auth/forgot-password and /auth/reset-password: issue_password_reset *)
(* and reset_password of api/auth/service.py.                              *)

ForgotRequest(w, u) ==
  /\ "forgot" \in Kinds
  /\ Begin(w, "forgot_find", [Blank EXCEPT !.user = u])

ForgotFind(w) ==
  /\ pc[w] = "forgot_find"
  /\ \/ /\ arg[w].user \in inactive \/ minted = ResetTokens
        /\ Reject(w)
     \/ /\ arg[w].user \notin inactive
        /\ Proceed(w, "forgot_mint", arg[w])
  /\ NoRows
  /\ UNCHANGED <<tokenHist, heldHist>>

ForgotMint(w) ==
  /\ pc[w] = "forgot_mint"
  /\ \/ \E k \in ResetTokens : create_one_time_token(k, arg[w].user)
     \/ minted = ResetTokens /\ UNCHANGED resetVars
  /\ Reject(w)
  /\ UNCHANGED <<userVars, refreshVars, tokenHist, heldHist>>

ResetRequest(w, k, p) ==
  /\ "reset" \in Kinds
  /\ Begin(w, "reset_find", [Blank EXCEPT !.key = k, !.pw = p])

ResetFind(w) ==
  /\ pc[w] = "reset_find"
  /\ LET rec == find_one_time_token(arg[w].key)
     IN  IF rec.consumed \/ rec.expired
         THEN Reject(w)
         ELSE Proceed(w, "reset_hash", [arg[w] EXCEPT !.user = rec.user_id])
  /\ NoRows
  /\ UNCHANGED <<tokenHist, heldHist>>

ResetHash(w) ==
  /\ pc[w] = "reset_hash"
  /\ set_user_password_hash(arg[w].user, arg[w].pw)
  /\ uses' = [uses EXCEPT ![arg[w].key] = Used(@)]
  /\ raced' = raced \cup {v \in Workers : Proving(v, arg[w].user)}
  /\ Goto(w, "reset_consume", arg[w])
  /\ UNCHANGED <<refreshVars, minted, consumed, lapsed, resetOwner, tokenHist,
                 ended, heldHist, guessHist>>

ResetConsume(w) ==
  /\ pc[w] = "reset_consume"
  /\ consume_one_time_token(arg[w].key)
  /\ Proceed(w, "reset_revoke", arg[w])
  /\ UNCHANGED <<userVars, refreshVars, tokenHist, heldHist>>

ResetRevoke(w) ==
  /\ pc[w] = "reset_revoke"
  /\ revoke_all_refresh_tokens(arg[w].user)
  /\ End(TokensOf(arg[w].user))
  /\ Finish(w)
  /\ UNCHANGED <<userVars, resetVars, tokenHist, heldHist, guessHist>>

-----------------------------------------------------------------------------
(* The surroundings: time, the administrator, and what may go wrong.       *)

RefreshTokenExpires(t) ==
  /\ "clock" \in Kinds
  /\ t \in issued \ expired
  /\ expired' = expired \cup {t}
  /\ UNCHANGED <<userVars, issued, revoked, owner, replacedBy, resetVars, pc,
                 arg, tokenHist, endHist, heldHist, guessHist>>

ResetTokenLapses(k) ==
  /\ "lapse" \in Kinds
  /\ k \in minted \ lapsed
  /\ lapsed' = lapsed \cup {k}
  /\ UNCHANGED <<userVars, refreshVars, minted, consumed, resetOwner, uses, pc,
                 arg, tokenHist, endHist, heldHist, guessHist>>

\* locked_until passes; the counter keeps its value, so the next failure that is
\* counted locks the account again.
LockExpires(u) ==
  /\ "unlock" \in Kinds
  /\ u \in locked
  /\ unlocks[u] < MaxUnlocks
  /\ locked' = locked \ {u}
  /\ unlocks' = [unlocks EXCEPT ![u] = @ + 1]
  /\ UNCHANGED <<hash, inactive, failures, refreshVars, resetVars, pc, arg,
                 tokenHist, endHist, heldHist, guesses>>

\* is_active has no writer in the service: an operator changes the row.
SetActive(u) ==
  /\ "admin" \in Kinds
  /\ inactive' = IF u \in inactive THEN inactive \ {u} ELSE inactive \cup {u}
  /\ UNCHANGED <<hash, failures, locked, refreshVars, resetVars, pc, arg,
                 tokenHist, endHist, heldHist, guessHist>>

\* The worker dies, its statement raises, or its answer is lost.
Drop(w) ==
  /\ "fault" \in Kinds
  /\ pc[w] # "idle"
  /\ Reject(w)
  /\ NoRows
  /\ UNCHANGED <<tokenHist, heldHist>>

-----------------------------------------------------------------------------
Init ==
  /\ hash \in [Users -> Passwords]
  /\ inactive = {}
  /\ failures = [u \in Users |-> 0]
  /\ locked = {}
  /\ issued = {} /\ revoked = {} /\ expired = {}
  /\ owner = [t \in RefreshTokens |-> None]
  /\ replacedBy = [t \in RefreshTokens |-> None]
  /\ minted = {} /\ consumed = {} /\ lapsed = {}
  /\ resetOwner = [k \in ResetTokens |-> None]
  /\ uses = [k \in ResetTokens |-> 0]
  /\ pc = [w \in Workers |-> "idle"]
  /\ arg = [w \in Workers |-> Blank]
  /\ held = {}
  /\ parent = [t \in RefreshTokens |-> None]
  /\ secret = [t \in RefreshTokens |-> None]
  /\ ended = {} /\ raced = {} /\ outlived = {}
  /\ guesses = [u \in Users |-> 0]
  /\ unlocks = [u \in Users |-> 0]

\* The next statement of the handler worker w is running.
Step(w) ==
  \/ LoginUser(w) \/ LoginLock(w) \/ LoginFail(w) \/ LoginCreate(w)
  \/ LoginClear(w) \/ Respond(w)
  \/ RefreshFind(w) \/ RefreshReuse(w) \/ RefreshExpired(w)
  \/ RefreshCreate(w) \/ RefreshRevoke(w)
  \/ LogoutFind(w) \/ LogoutRevoke(w) \/ OthersFind(w) \/ OthersRevoke(w)
  \/ ForgotFind(w) \/ ForgotMint(w)
  \/ ResetFind(w) \/ ResetHash(w) \/ ResetConsume(w) \/ ResetRevoke(w)

\* Clients present tokens they have received, and reset tokens they were mailed.
Request(w) ==
  \/ \E u \in Users, p \in Passwords : LoginRequest(w, u, p)
  \/ \E t \in held : RefreshRequest(w, t) \/ LogoutRequest(w, t)
  \/ \E u \in Users, t \in held : OthersRequest(w, u, t)
  \/ \E u \in Users : ForgotRequest(w, u)
  \/ \E k \in minted, p \in Passwords : ResetRequest(w, k, p)

Surroundings ==
  \/ \E t \in RefreshTokens : RefreshTokenExpires(t)
  \/ \E k \in ResetTokens : ResetTokenLapses(k)
  \/ \E u \in Users : LockExpires(u) \/ SetActive(u)
  \/ \E w \in Workers : Drop(w)

Next == Surroundings \/ \E w \in Workers : Request(w) \/ Step(w)

Spec == Init /\ [][Next]_vars

\* A handler never waits: the worker that runs it keeps executing it.
FairSpec == Spec /\ \A w \in Workers : WF_vars(Step(w))

-----------------------------------------------------------------------------
(* Safety.                                                                 *)

\* replaced_by_token_id names the token this one was exchanged for: only a
\* revoked token is linked, to an existing token of the same user that was
\* created for it.  Logout, revocations and refreshes of the same token by two
\* workers may all touch the row between the two statements of a rotation.
RotationLinked ==
  \A t \in issued :
    replacedBy[t] # None =>
      /\ t \in revoked
      /\ replacedBy[t] \in issued
      /\ owner[replacedBy[t]] = owner[t]
      /\ parent[replacedBy[t]] = t

\* A client never holds a new token while the token it gave for it is still
\* accepted, wherever the rotation's worker may have stopped: the old row is
\* revoked before the new token leaves the service.
RotatedBeforeAnswered ==
  \A t \in held : parent[t] # None => parent[t] \in revoked

\* A session ended by logout, by "revoke others" or by a password reset stays
\* ended: a token exchanged for an ended one is of no use, unless the exchange
\* had passed its check when the session ended.
EndedStaysEnded ==
  \A t \in held : parent[t] \in ended => t \in revoked \cup outlived

\* A session is revoked by a request made for its user or with its own token,
\* never by another user's: every bulk statement keeps to the user it is given.
OnlyOwnSessionsRevoked ==
  [][\A t \in revoked' \ revoked :
       \E w \in Workers :
         pc'[w] # pc[w] /\ (arg[w].tok = t \/ arg[w].user = owner[t])]_vars

\* A reset for u that has changed the password and not yet ended the sessions.
ResetUnderWay(u) ==
  \E w \in Workers : /\ pc[w] \in {"reset_consume", "reset_revoke"}
                     /\ arg[w].user = u

\* The session of token t was begun with the password the account has now.
Current(t) == \E u \in Users : owner[t] = u /\ secret[t] = hash[u]

\* Every session a client can use began with the account's current password:
\* a reset ends the others, but for those whose login or refresh had passed its
\* check before the reset.  It needs resets that run to their end (no "fault").
PasswordCurrent ==
  "fault" \notin Kinds =>
    \A t \in held \ revoked :
      \/ Current(t)
      \/ t \in outlived
      \/ ResetUnderWay(owner[t])

\* Since failed_login_attempts was last 0 (only a login restarts it) an account has
\* taken fewer than MaxFailures wrong passwords, plus one for each worker up to its
\* first lock, plus one for each worker and each lock that expired: the counter is
\* then at its limit, and only those that read the lock state before the next
\* counted failure are let through.
GuessesBounded ==
  "fault" \notin Kinds => \A u \in Users : guesses[u] < Allowed(u)

\* A reset token sets one password for each worker at most: those that had read it
\* before the first of them consumed it.
ResetsBounded ==
  "fault" \notin Kinds => \A k \in ResetTokens : uses[k] <= Cardinality(Workers)

(* What all of it amounts to for clients.                                  *)

\* Worker w has found token t good and has not answered yet.
Trades(w, t) ==
  /\ pc[w] \in {"refresh_create", "refresh_revoke", "respond"}
  /\ arg[w].tok = t

Spent   == held \cap revoked
InTrade  == {t \in RefreshTokens : \E w \in Workers : Trades(w, t)}
Origin  == [t \in RefreshTokens |-> IF t \in held THEN parent[t] ELSE None]

Server == INSTANCE SessionServer WITH
  Tokens <- RefreshTokens, handed <- held, spent <- Spent, trading <- InTrade,
  origin <- Origin

\* For all the statements that interleave, clients see a server of tokens: each new
\* token was handed out by a login or for one token that was good and is spent, no
\* token is handed out twice, and none that is spent is taken again.
KeepsServer == Server!Spec

(* Liveness.                                                               *)

\* A session begun under an earlier password ends, unless it raced the reset.
StaleSessionsEnd ==
  \A t \in RefreshTokens :
    (t \in held /\ ~Current(t)) ~> (t \in revoked \cup outlived \/ Current(t))

=============================================================================
