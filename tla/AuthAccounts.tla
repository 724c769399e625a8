---------------------------- MODULE AuthAccounts ----------------------------
(***************************************************************************)
(* Accounts of the FastAPI service: registration, e-mail verification,     *)
(* change of address, and Google sign-in, which links an identity to an    *)
(* account.                                                                *)
(*                                                                         *)
(* As in AuthSessions a worker runs one handler at a time and every        *)
(* repository call commits on its own, so there is one action per          *)
(* statement.  The database keeps two promises the handlers rely on: no    *)
(* two users have the same email, and no two links the same identity.      *)
(*                                                                         *)
(* Left out: password and profile columns, audit rows, and what the mail   *)
(* carries (EmailOutbox); a session is only the fact that the client is in *)
(* (AuthSessions models sessions).                                         *)
(***************************************************************************)
EXTENDS Integers, FiniteSets

CONSTANTS
  Users,           \* ids of api_auth_users: the bound on accounts
  Emails,          \* normalised addresses
  Subs,            \* Google identities
  GoogleEmail,     \* the email claim of an identity's ID token
  GoogleVerified,  \* identities whose email_verified claim is true
  VerifyTokens,    \* ids of verify_email one-time tokens: a bound
  Workers,
  Kinds,           \* the requests and events this instance takes
  None

ASSUME GoogleAssumption ==
  GoogleEmail \in [Subs -> Emails] /\ GoogleVerified \subseteq Subs
ASSUME NoneAssumption == None \notin Users \cup Emails \cup Subs \cup VerifyTokens

VARIABLES
  \* api_auth_users
  email,     \* by user; None where there is no row
  verified,  \* users with is_email_verified
  inactive,  \* users with is_active = FALSE
  \* api_auth_oauth_accounts
  linked,    \* user_id of an identity's row; None where there is no row
  \* api_auth_one_time_tokens of type verify_email
  minted,    \* rows
  consumed,  \* rows with consumed_at set
  lapsed,    \* rows with expires_at in the past
  bearer,    \* user_id
  \* the workers
  pc, arg,
  \* history
  entered,    \* users a client has been signed in as
  sentTo,     \* the address a verification link was sent to
  confirmed,  \* <<user, address>>: control of the address was shown
  stale,      \* users verified for an address they no longer had
  had,        \* <<user, address>>: addresses a user has had
  made        \* <<identity, user>>: accounts created by a Google sign-in

userVars  == <<email, verified, inactive>>
tokenVars == <<minted, consumed, lapsed, bearer, sentTo>>
histVars  == <<entered, made>>
proofVars == <<confirmed, stale, had>>
vars == <<userVars, linked, tokenVars, pc, arg, histVars, proofVars>>

Rows == {u \in Users : email[u] # None}

Statements ==
  {"register_find", "register_create", "register_session",
   "verify_find", "verify_set", "verify_consume",
   "email_check", "email_update", "link_find", "link_mint",
   "oauth_find", "oauth_row", "oauth_email", "oauth_create", "oauth_verify",
   "oauth_link", "oauth_session"}

\* The handlers' locals: the user, the address and the identity of the request,
\* the user row read or made (with its is_active and its address), the token.
Blank == [user |-> None, email |-> None, sub |-> None, found |-> None,
          active |-> TRUE, to |-> None, key |-> None]

TypeOK ==
  /\ email \in [Users -> Emails \cup {None}]
  /\ verified \subseteq Rows
  /\ inactive \subseteq Rows
  /\ linked \in [Subs -> Users \cup {None}]
  /\ minted \subseteq VerifyTokens
  /\ consumed \subseteq minted
  /\ lapsed \subseteq minted
  /\ bearer \in [VerifyTokens -> Users \cup {None}]
  /\ sentTo \in [VerifyTokens -> Emails \cup {None}]
  /\ pc \in [Workers -> Statements \cup {"idle"}]
  /\ arg \in [Workers -> [user : Users \cup {None}, email : Emails \cup {None},
                          sub : Subs \cup {None}, found : Users \cup {None},
                          active : BOOLEAN, to : Emails \cup {None},
                          key : VerifyTokens \cup {None}]]
  /\ entered \subseteq Rows
  /\ confirmed \subseteq Users \X Emails
  /\ stale \subseteq Users
  /\ had \subseteq Users \X Emails
  /\ made \subseteq Subs \X Users

-----------------------------------------------------------------------------
(* The repository: api/auth/repo.py.                                       *)

HasEmail(u, e) == email[u] = e

\* get_user_by_email: the users it can return, at most one.
ByEmail(e) == {u \in Users : HasEmail(u, e)}

\* The row's id is fresh; the insert fails where the address is in use.
\* As in AuthSessions, Mistaken_... is the next definition with a mistake.
Mistaken_create_user(u, e) ==
  /\ u \notin Rows
  /\ ByEmail(e) = {}
  /\ had' = had \cup {<<u, e>>}
  /\ UNCHANGED <<email, verified, inactive, confirmed, stale>>

create_user(u, e) ==
  /\ u \notin Rows
  /\ ByEmail(e) = {}
  /\ email' = [email EXCEPT ![u] = e]
  /\ had' = had \cup {<<u, e>>}
  /\ UNCHANGED <<verified, inactive, confirmed, stale>>

\* The second statement of update_user_email.
Mistaken_update_user_email(u, e) ==
  /\ ByEmail(e) \subseteq {u}
  /\ email' = [email EXCEPT ![u] = e]
  /\ had' = had \cup {<<u, e>>}
  /\ UNCHANGED <<verified, inactive, confirmed, stale>>

update_user_email(u, e) ==
  /\ ByEmail(e) \subseteq {u}
  /\ email' = [email EXCEPT ![u] = e]
  /\ verified' = verified \ {u}
  /\ stale' = stale \ {u}
  /\ had' = had \cup {<<u, e>>}
  /\ UNCHANGED <<inactive, confirmed>>

\* Control of address e has been shown by user u.
set_user_email_verified(u, e) ==
  /\ verified' = verified \cup {u}
  /\ confirmed' = confirmed \cup {<<u, e>>}
  /\ stale' = IF email[u] = e THEN stale ELSE stale \cup {u}
  /\ UNCHANGED <<email, inactive, had>>

create_oauth_account(s, u) ==
  /\ linked[s] = None
  /\ linked' = [linked EXCEPT ![s] = u]

create_one_time_token(k, u, e) ==
  /\ k \notin minted
  /\ minted' = minted \cup {k}
  /\ bearer' = [bearer EXCEPT ![k] = u]
  /\ sentTo' = [sentTo EXCEPT ![k] = e]
  /\ UNCHANGED <<consumed, lapsed>>

consume_one_time_token(k) ==
  /\ consumed' = consumed \cup {k}
  /\ UNCHANGED <<minted, lapsed, bearer, sentTo>>

-----------------------------------------------------------------------------
(* How a worker goes from one statement to the next.                       *)

Goto(w, statement, a) ==
  /\ pc' = [pc EXCEPT ![w] = statement]
  /\ arg' = [arg EXCEPT ![w] = a]

Begin(w, statement, a) ==
  /\ pc[w] = "idle"
  /\ Goto(w, statement, a)
  /\ UNCHANGED <<userVars, linked, tokenVars, histVars, proofVars>>

Finish(w) == Goto(w, "idle", Blank)

\* A statement that only reads, or fails.
Reads == UNCHANGED <<userVars, linked, tokenVars, histVars, proofVars>>

\* A statement whose failure is suppressed may fail.
Fault == "fault" \in Kinds

-----------------------------------------------------------------------------
(* POST /auth/register: register_user of api/auth/service.py.              *)

RegisterRequest(w, e) ==
  /\ "register" \in Kinds
  /\ Begin(w, "register_find", [Blank EXCEPT !.email = e])

RegisterFind(w) ==
  /\ pc[w] = "register_find"
  /\ \/ /\ ByEmail(arg[w].email) # {}
        /\ Finish(w)
     \/ /\ ByEmail(arg[w].email) = {}
        /\ Rows # Users
        /\ Goto(w, "register_create", arg[w])
  /\ Reads

\* An address taken since RegisterFind makes the insert fail.
RegisterCreate(w) ==
  /\ pc[w] = "register_create"
  /\ \/ \E u \in Users :
          /\ create_user(u, arg[w].email)
          /\ Goto(w, "register_session", [arg[w] EXCEPT !.found = u])
     \/ /\ ByEmail(arg[w].email) # {} \/ Rows = Users
        /\ Finish(w)
        /\ UNCHANGED <<userVars, proofVars>>
  /\ UNCHANGED <<linked, tokenVars, histVars>>

RegisterSession(w) ==
  /\ pc[w] = "register_session"
  /\ entered' = entered \cup {arg[w].found}
  /\ Finish(w)
  /\ UNCHANGED <<userVars, linked, tokenVars, made, proofVars>>

-----------------------------------------------------------------------------
(* POST /auth/verify-email: verify_email of api/auth/service.py.           *)

VerifyRequest(w, k) ==
  /\ "verify" \in Kinds
  /\ Begin(w, "verify_find", [Blank EXCEPT !.key = k])

VerifyFind(w) ==
  /\ pc[w] = "verify_find"
  /\ \/ /\ arg[w].key \in consumed \cup lapsed
        /\ Finish(w)
     \/ /\ arg[w].key \notin consumed \cup lapsed
        /\ Goto(w, "verify_set", arg[w])
  /\ Reads

\* Whatever the user's address is by now.
VerifySet(w) ==
  /\ pc[w] = "verify_set"
  /\ set_user_email_verified(bearer[arg[w].key], sentTo[arg[w].key])
  /\ Goto(w, "verify_consume", arg[w])
  /\ UNCHANGED <<linked, tokenVars, histVars>>

VerifyConsume(w) ==
  /\ pc[w] = "verify_consume"
  /\ consume_one_time_token(arg[w].key)
  /\ Finish(w)
  /\ UNCHANGED <<userVars, linked, histVars, proofVars>>

-----------------------------------------------------------------------------
(* PATCH /users/me with an email: users_me_patch of api/routes/users.py and *)
(* issue_verify_email of api/auth/service.py.                              *)

EmailRequest(w, u, e) ==
  /\ "email" \in Kinds
  /\ Begin(w, "email_check", [Blank EXCEPT !.user = u, !.email = e])

\* The first statement of update_user_email.
EmailCheck(w) ==
  /\ pc[w] = "email_check"
  /\ \/ /\ ByEmail(arg[w].email) \ {arg[w].user} # {}
        /\ Finish(w)
     \/ /\ ByEmail(arg[w].email) \subseteq {arg[w].user}
        /\ Goto(w, "email_update", arg[w])
  /\ Reads

\* An address taken since EmailCheck makes the update fail.
EmailUpdate(w) ==
  /\ pc[w] = "email_update"
  /\ \/ /\ update_user_email(arg[w].user, arg[w].email)
        /\ Goto(w, "link_find", arg[w])
     \/ /\ ByEmail(arg[w].email) \ {arg[w].user} # {}
        /\ Finish(w)
        /\ UNCHANGED <<userVars, proofVars>>
  /\ UNCHANGED <<linked, tokenVars, histVars>>

\* The link is for the user who has the address by now, whoever that is; what
\* fails from here on is swallowed.
LinkFind(w) ==
  /\ pc[w] = "link_find"
  /\ \/ \E u \in ByEmail(arg[w].email) \ verified :
          Goto(w, "link_mint", [arg[w] EXCEPT !.found = u, !.to = email[u]])
     \/ /\ ByEmail(arg[w].email) \subseteq verified \/ Fault
        /\ Finish(w)
  /\ Reads

LinkMint(w) ==
  /\ pc[w] = "link_mint"
  /\ \/ \E k \in VerifyTokens : create_one_time_token(k, arg[w].found, arg[w].to)
     \/ /\ minted = VerifyTokens \/ Fault
        /\ UNCHANGED tokenVars
  /\ Finish(w)
  /\ UNCHANGED <<userVars, linked, histVars, proofVars>>

-----------------------------------------------------------------------------
(* POST /auth/oauth/google (api/routes/auth.py), after the ID token has been *)
(* verified.                                                               *)

OauthRequest(w, s) ==
  /\ "oauth" \in Kinds
  /\ Begin(w, "oauth_find", [Blank EXCEPT !.sub = s, !.email = GoogleEmail[s]])

OauthFind(w) ==
  /\ pc[w] = "oauth_find"
  /\ \/ /\ linked[arg[w].sub] # None
        /\ Goto(w, "oauth_row", [arg[w] EXCEPT !.found = linked[arg[w].sub]])
     \/ /\ linked[arg[w].sub] = None
        /\ Goto(w, "oauth_email", arg[w])
  /\ Reads

OauthRow(w) ==
  /\ pc[w] = "oauth_row"
  /\ \/ /\ arg[w].found \in inactive
        /\ Finish(w)
     \/ /\ arg[w].found \notin inactive
        /\ Goto(w, "oauth_session", arg[w])
  /\ Reads

\* The merge rule: an account with the identity's address is taken over only if
\* its address is verified, here or by Google.
Mistaken_MayMerge(s, u) == TRUE

MayMerge(s, u) == u \in verified \/ s \in GoogleVerified

OauthEmail(w) ==
  /\ pc[w] = "oauth_email"
  /\ \/ \E u \in ByEmail(arg[w].email) :
          \/ /\ MayMerge(arg[w].sub, u)
             /\ Goto(w, "oauth_link",
                     [arg[w] EXCEPT !.found = u, !.active = u \notin inactive])
          \/ /\ ~MayMerge(arg[w].sub, u)
             /\ Finish(w)
     \/ /\ ByEmail(arg[w].email) = {}
        /\ Rows # Users
        /\ Goto(w, "oauth_create", arg[w])
  /\ Reads

OauthCreate(w) ==
  /\ pc[w] = "oauth_create"
  /\ \/ \E u \in Users :
          /\ create_user(u, arg[w].email)
          /\ made' = made \cup {<<arg[w].sub, u>>}
          /\ Goto(w, IF arg[w].sub \in GoogleVerified
                     THEN "oauth_verify" ELSE "oauth_link",
                  [arg[w] EXCEPT !.found = u])
     \/ /\ ByEmail(arg[w].email) # {} \/ Rows = Users
        /\ Finish(w)
        /\ UNCHANGED <<userVars, proofVars, made>>
  /\ UNCHANGED <<linked, tokenVars, entered>>

OauthVerify(w) ==
  /\ pc[w] = "oauth_verify"
  /\ \/ set_user_email_verified(arg[w].found, arg[w].email)
     \/ Fault /\ UNCHANGED <<userVars, proofVars>>
  /\ Goto(w, "oauth_link", arg[w])
  /\ UNCHANGED <<linked, tokenVars, histVars>>

\* The failure to link, also because the identity has a link by now, is
\* swallowed.  An inactive account is linked before it is refused.
OauthLink(w) ==
  /\ pc[w] = "oauth_link"
  /\ \/ create_oauth_account(arg[w].sub, arg[w].found)
     \/ /\ linked[arg[w].sub] # None \/ Fault
        /\ UNCHANGED linked
  /\ \/ arg[w].active /\ Goto(w, "oauth_session", arg[w])
     \/ ~arg[w].active /\ Finish(w)
  /\ UNCHANGED <<userVars, tokenVars, histVars, proofVars>>

OauthSession(w) ==
  /\ pc[w] = "oauth_session"
  /\ entered' = entered \cup {arg[w].found}
  /\ Finish(w)
  /\ UNCHANGED <<userVars, linked, tokenVars, made, proofVars>>

-----------------------------------------------------------------------------
(* The surroundings.                                                       *)

TokenLapses(k) ==
  /\ "clock" \in Kinds
  /\ k \in minted \ lapsed
  /\ lapsed' = lapsed \cup {k}
  /\ UNCHANGED <<userVars, linked, minted, consumed, bearer, sentTo, pc, arg,
                 histVars, proofVars>>

\* is_active has no writer in the service: an operator changes the row.
SetActive(u) ==
  /\ "admin" \in Kinds
  /\ u \in Rows
  /\ inactive' = IF u \in inactive THEN inactive \ {u} ELSE inactive \cup {u}
  /\ UNCHANGED <<email, verified, linked, tokenVars, pc, arg, histVars,
                 proofVars>>

\* The worker dies or its statement raises.
Drop(w) ==
  /\ "death" \in Kinds
  /\ pc[w] # "idle"
  /\ Finish(w)
  /\ Reads

-----------------------------------------------------------------------------
Init ==
  /\ email = [u \in Users |-> None]
  /\ verified = {} /\ inactive = {}
  /\ linked = [s \in Subs |-> None]
  /\ minted = {} /\ consumed = {} /\ lapsed = {}
  /\ bearer = [k \in VerifyTokens |-> None]
  /\ sentTo = [k \in VerifyTokens |-> None]
  /\ pc = [w \in Workers |-> "idle"]
  /\ arg = [w \in Workers |-> Blank]
  /\ entered = {}
  /\ confirmed = {} /\ stale = {} /\ had = {}
  /\ made = {}

Step(w) ==
  \/ RegisterFind(w) \/ RegisterCreate(w) \/ RegisterSession(w)
  \/ VerifyFind(w) \/ VerifySet(w) \/ VerifyConsume(w)
  \/ EmailCheck(w) \/ EmailUpdate(w) \/ LinkFind(w) \/ LinkMint(w)
  \/ OauthFind(w) \/ OauthRow(w) \/ OauthEmail(w) \/ OauthCreate(w)
  \/ OauthVerify(w) \/ OauthLink(w) \/ OauthSession(w)

\* Only a client that has been signed in as a user changes its address.
Request(w) ==
  \/ \E e \in Emails : RegisterRequest(w, e)
  \/ \E k \in minted : VerifyRequest(w, k)
  \/ \E u \in entered, e \in Emails : EmailRequest(w, u, e)
  \/ \E s \in Subs : OauthRequest(w, s)

Next ==
  \/ \E w \in Workers : Request(w) \/ Step(w) \/ Drop(w)
  \/ \E k \in VerifyTokens : TokenLapses(k)
  \/ \E u \in Users : SetActive(u)

Spec == Init /\ [][Next]_vars

-----------------------------------------------------------------------------
(* Safety.                                                                 *)

\* An account marked verified has shown control of the address it has now:
\* changing the address clears the mark, and only a link sent to the address or
\* Google's claim sets it.  The exception is an account verified while its
\* address was already another one (see VerifiedIsProved).
VerifiedUnlessStale ==
  \A u \in verified : <<u, email[u]>> \in confirmed \/ u \in stale

\* An identity may use account u: u has had the identity's address, and the
\* account was made for it, or Google vouches for the address, or u had
\* verified an address.
Entitled(s, u) ==
  /\ <<u, GoogleEmail[s]>> \in had
  /\ \/ <<s, u>> \in made
     \/ s \in GoogleVerified
     \/ \E e \in Emails : <<u, e>> \in confirmed

\* Every Google sign-in and every link keeps to the merge rule, though the
\* account's address and mark may change between its check and the link.
SignInEntitled ==
  /\ \A w \in Workers :
       pc[w] = "oauth_session" => Entitled(arg[w].sub, arg[w].found)
  /\ \A s \in Subs : linked[s] # None => Entitled(s, linked[s])

-----------------------------------------------------------------------------
(* What documents say, and the code does not do.                           *)

\* "if you support email change, require re-verify": a link sent to an earlier
\* address of the account marks the present one as verified.
VerifiedIsProved == \A u \in verified : <<u, email[u]>> \in confirmed

=============================================================================
