----------------------------- MODULE DjangoAuth -----------------------------
(***************************************************************************)
(* The session-cookie accounts of the Django project (users/api_views.py): *)
(* sign-up, e-mail verification, password reset, login, logout and Google  *)
(* sign-in.  project/urls.py does not route these views, and               *)
(* test_no_auth_routes.py keeps it so: this module is about the code as it *)
(* would run if users/api_urls.py were included.                           *)
(*                                                                         *)
(* Every statement is its own transaction (ATOMIC_REQUESTS is not set), so *)
(* a request is a sequence of actions and holds objects read earlier.  A   *)
(* client has one session, and does one thing at a time: a request, or a   *)
(* visit to Google.  A server process may die in any request.              *)
(*                                                                         *)
(* A password is the number of the statement that set it; nobody confuses  *)
(* two of them, and hashing is injective.  The username of a Google user   *)
(* is a number, the suffix of the local part of the address, which all     *)
(* addresses here share.  Profiles and the audit trail are left out.       *)
(*                                                                         *)
(* As in AuthSessions, Mistaken_... is the next definition with a mistake. *)
(***************************************************************************)
EXTENDS Integers, FiniteSets

CONSTANTS
  Clients,
  Emails,
  Subs,         \* Google identities
  GoogleEmail,  \* address of each identity
  Tokens,       \* one-time tokens, each minted once; a bound
  MaxUsers,     \* a bound: rows of auth_user, numbered in order
  MaxCrashes,   \* a bound
  None

ASSUME GoogleAssumption == GoogleEmail \in [Subs -> Emails]
ASSUME BoundAssumption == MaxUsers \in Nat /\ MaxCrashes \in Nat /\ IsFiniteSet(Clients)
Users == 1..MaxUsers
Names == Emails \cup 0..MaxUsers

VARIABLES
  user,     \* auth_user
  address,  \* users_emailaddress of each user
  token,    \* users_onetimetoken, with the mail that carries it
  link,     \* users_oauthaccount
  sess,     \* django_session of each client
  req,      \* the request of each client
  uses,     \* history: passwords set with each token
  crashes

vars == <<user, address, token, link, sess, req, uses, crashes>>
accounts == <<user, address, token, link, uses>>

\* Set by sign-up, by create_user and save() for Google, or with a token.
Passwords == ({"signup", "google"} \X {0, 1})
             \cup (Tokens \X (1 .. Cardinality(Clients) + MaxCrashes))
Usable(pw) == pw[1] # "google"
ASSUME TokenAssumption == "signup" \notin Tokens /\ "google" \notin Tokens

Accounts  == [name : Names, email : Emails, pw : Passwords]
Minted    == [user : Users, for : {"verify", "reset"}, consumed : BOOLEAN]

ASSUME NoneAssumption ==
  None \notin Emails \cup Subs \cup Tokens \cup Nat \cup {"signup", "google"}
             \cup Accounts \cup Minted

Unused  == {u \in Users : user[u] = None}
Rows    == Users \ Unused
Having(email) == {u \in Rows : user[u].email = email}
Taken   == {user[u].name : u \in Rows}
Least(S) == CHOOSE x \in S : \A y \in S : x <= y

\* since is history: uses, as it was when the user of the request or session was read.
Idle      == [at |-> "idle", email |-> None, name |-> None, user |-> None, pw |-> None,
              token |-> None, sub |-> None, since |-> None]
Anonymous == [user |-> None, pw |-> None, via |-> None, since |-> None]

\* get_user: the session names a user and carries the hash of the password as it is.
Live(c) == sess[c].user # None /\ sess[c].pw = user[sess[c].user].pw

TypeOK ==
  /\ user \in [Users -> Accounts \cup {None}]
  /\ address \in [Users -> {"none", "unverified", "verified"}]
  /\ token \in [Tokens -> Minted \cup {None}]
  /\ link \in [Subs -> Users \cup {None}]
  /\ sess \in [Clients -> [user : Users \cup {None}, pw : Passwords \cup {None},
                           via : Subs \cup {None}, since : [Tokens -> Nat] \cup {None}]]
  /\ req \in [Clients -> [at : {"idle", "create", "rows", "consume",
                                "mark", "reset", "spend", "google", "find", "name",
                                "insert", "save", "link", "login"},
                          email : Emails \cup {None}, name : Names \cup {None},
                          user : Users \cup {None}, pw : Passwords \cup {None},
                          token : Tokens \cup {None}, sub : Subs \cup {None},
                          since : [Tokens -> Nat] \cup {None}]]
  /\ uses \in [Tokens -> Nat]
  /\ crashes \in 0..MaxCrashes

-----------------------------------------------------------------------------
At(c, step) == req[c].at = step
Go(c, step) == req' = [req EXCEPT ![c].at = step]
Hold(c, u, step) ==
  req' = [req EXCEPT ![c] = [Idle EXCEPT !.at = step, !.user = u, !.pw = user[u].pw,
                                         !.since = uses, !.sub = req[c].sub]]
Answer(c) == req' = [req EXCEPT ![c] = Idle]

\* create_user: username is UNIQUE, email is not.
Insert(u, name, email, pw) ==
  /\ u \in Unused /\ \A v \in Unused : u <= v
  /\ name \notin Taken
  /\ user' = [user EXCEPT ![u] = [name |-> name, email |-> email, pw |-> pw]]

\* The token and its mail; a failure of either is only logged.
mint_one_time_token(u, purpose) ==
  \/ UNCHANGED token
  \/ /\ \E t \in Tokens : token[t] = None
     /\ token' = [token EXCEPT ![CHOOSE t \in Tokens : token[t] = None] =
                    [user |-> u, for |-> purpose, consumed |-> FALSE]]

\* For whoever reads the mail in time: a token that expired, or whose mail was lost,
\* is one that nobody presents.
get_valid_one_time_token(t, purpose) ==
  token[t] # None /\ token[t].for = purpose /\ ~token[t].consumed

Mistaken_Login(c) ==
  /\ At(c, "login")
  /\ sess' = [sess EXCEPT ![c] =
       [user |-> req[c].user, pw |-> user[req[c].user].pw, via |-> req[c].sub,
        since |-> req[c].since]]
  /\ Answer(c)
  /\ UNCHANGED <<accounts, crashes>>

\* login(): the hash is that of the user object in memory.
Login(c) ==
  /\ At(c, "login")
  /\ sess' = [sess EXCEPT ![c] =
       [user |-> req[c].user, pw |-> req[c].pw, via |-> req[c].sub, since |-> req[c].since]]
  /\ Answer(c)
  /\ UNCHANGED <<accounts, crashes>>

-----------------------------------------------------------------------------
Mistaken_SignupCheck(c, email, name) ==
  /\ At(c, "idle")
  /\ req' = [req EXCEPT ![c].at = "create", ![c].email = email, ![c].name = name]
  /\ UNCHANGED <<accounts, sess, crashes>>

\* signup
SignupCheck(c, email, name) ==
  /\ At(c, "idle")
  /\ Having(email) = {}
  /\ req' = [req EXCEPT ![c].at = "create", ![c].email = email, ![c].name = name]
  /\ UNCHANGED <<accounts, sess, crashes>>

SignupCreate(c) ==
  /\ At(c, "create")
  /\ \/ \E u \in Users :
          /\ Insert(u, req[c].name, req[c].email, <<"signup", 0>>)
          /\ req' = [req EXCEPT ![c] = [Idle EXCEPT !.at = "rows", !.user = u,
                                                      !.pw = <<"signup", 0>>, !.since = uses]]
     \/ req[c].name \in Taken /\ Answer(c) /\ UNCHANGED user
  /\ UNCHANGED <<address, token, link, sess, uses, crashes>>

\* The address of an EmailAddress is UNIQUE.
AddressTaken(email) == \E u \in Having(email) : address[u] # "none"

Mistaken_SignupRows(c) ==
  /\ At(c, "rows")
  /\ LET u == req[c].user
     IN  /\ IF AddressTaken(user[u].email) THEN UNCHANGED address
            ELSE address' = [address EXCEPT ![u] = "unverified"]
         /\ mint_one_time_token(u, "verify")
  /\ Go(c, "login")
  /\ UNCHANGED <<user, link, sess, uses, crashes>>

\* The profile, the address, and the token.  When another account has the address
\* meanwhile, IntegrityError, status 500.
SignupRows(c) ==
  /\ At(c, "rows")
  /\ LET u == req[c].user
     IN  \/ /\ ~AddressTaken(user[u].email)
            /\ address' = [address EXCEPT ![u] = "unverified"]
            /\ mint_one_time_token(u, "verify")
            /\ Go(c, "login")
         \/ AddressTaken(user[u].email) /\ Answer(c) /\ UNCHANGED <<address, token>>
  /\ UNCHANGED <<user, link, sess, uses, crashes>>

\* verify_email; consume_one_time_token reads the token and then saves it.
VerifyRead(c, t) ==
  /\ At(c, "idle")
  /\ get_valid_one_time_token(t, "verify")
  /\ req' = [req EXCEPT ![c].at = "consume", ![c].token = t, ![c].user = token[t].user]
  /\ UNCHANGED <<accounts, sess, crashes>>

VerifyConsume(c) ==
  /\ At(c, "consume")
  /\ token' = [token EXCEPT ![req[c].token].consumed = TRUE]
  /\ Go(c, "mark")
  /\ UNCHANGED <<user, address, link, sess, uses, crashes>>

VerifyMark(c) ==
  /\ At(c, "mark")
  /\ address' = [address EXCEPT ![req[c].user] =
                   IF @ = "none" THEN @ ELSE "verified"]
  /\ Answer(c)
  /\ UNCHANGED <<user, token, link, sess, uses, crashes>>

-----------------------------------------------------------------------------
Mistaken_ForgotPassword(c, email) ==
  /\ At(c, "idle")
  /\ LET first == IF Having(email) = {} THEN None ELSE Least(Having(email))
     IN  mint_one_time_token(first, "reset")
  /\ UNCHANGED <<user, address, link, sess, req, uses, crashes>>

\* forgot_password: the first user of that address, who stays the first.
ForgotPassword(c, email) ==
  /\ At(c, "idle")
  /\ Having(email) # {}
  /\ mint_one_time_token(Least(Having(email)), "reset")
  /\ UNCHANGED <<user, address, link, sess, req, uses, crashes>>

\* reset_password: the token is read, the password saved, the token consumed.
ResetRead(c, t) ==
  /\ At(c, "idle")
  /\ get_valid_one_time_token(t, "reset")
  /\ req' = [req EXCEPT ![c].at = "reset", ![c].token = t, ![c].user = token[t].user]
  /\ UNCHANGED <<accounts, sess, crashes>>

ResetSave(c) ==
  /\ At(c, "reset")
  /\ LET t == req[c].token
     IN  /\ uses' = [uses EXCEPT ![t] = @ + 1]
         /\ user' = [user EXCEPT ![req[c].user].pw = <<t, uses[t] + 1>>]
  /\ Go(c, "spend")
  /\ UNCHANGED <<address, token, link, sess, crashes>>

Mistaken_ResetSpend(c) ==
  /\ At(c, "spend")
  /\ Answer(c)
  /\ UNCHANGED <<accounts, sess, crashes>>

ResetSpend(c) ==
  /\ At(c, "spend")
  /\ token' = [token EXCEPT ![req[c].token].consumed = TRUE]
  /\ Answer(c)
  /\ UNCHANGED <<user, address, link, sess, uses, crashes>>

\* login_view: authenticate() has compared the password with the row as it was.
LoginRead(c, u) ==
  /\ At(c, "idle")
  /\ u \in Rows
  /\ Usable(user[u].pw)
  /\ Hold(c, u, "login")
  /\ UNCHANGED <<accounts, sess, crashes>>

\* logout_view
Logout(c) ==
  /\ At(c, "idle")
  /\ Live(c)
  /\ sess' = [sess EXCEPT ![c] = Anonymous]
  /\ UNCHANGED <<accounts, req, crashes>>

\* me, and any view that asks who the user is: a session whose hash is no longer
\* that of the password is flushed.
Me(c) ==
  /\ At(c, "idle")
  /\ sess[c].user # None
  /\ ~Live(c)
  /\ sess' = [sess EXCEPT ![c] = Anonymous]
  /\ UNCHANGED <<accounts, req, crashes>>

-----------------------------------------------------------------------------
\* oauth_google_start: the session remembers the state with which the client, now
\* away at Google, has to come back.
OauthStart(c) ==
  /\ At(c, "idle")
  /\ Go(c, "google")
  /\ UNCHANGED <<accounts, sess, crashes>>

\* oauth_google_callback: the state is another session's or too old, or Google does
\* not honour the code.
OauthRefused(c) ==
  /\ At(c, "google")
  /\ Answer(c)
  /\ UNCHANGED <<accounts, sess, crashes>>

\* Google vouches for identity s.
OauthCallback(c, s) ==
  /\ At(c, "google")
  /\ LET u == link[s]
     IN  req' = [req EXCEPT ![c] =
           IF u # None
           THEN [Idle EXCEPT !.at = "login", !.sub = s, !.user = u, !.pw = user[u].pw,
                        !.since = uses]
           ELSE [Idle EXCEPT !.at = "find", !.sub = s, !.email = GoogleEmail[s]]]
  /\ UNCHANGED <<accounts, sess, crashes>>

Mistaken_CallbackFind(c) ==
  /\ At(c, "find")
  /\ LET same == Having(req[c].email)
     IN  \/ same # {} /\ Hold(c, Least(same), "login")
         \/ same = {} /\ Go(c, "name")
  /\ UNCHANGED <<accounts, sess, crashes>>

CallbackFind(c) ==
  /\ At(c, "find")
  /\ LET same == Having(req[c].email)
     IN  \/ same # {} /\ Hold(c, Least(same), "link")
         \/ same = {} /\ Go(c, "name")
  /\ UNCHANGED <<accounts, sess, crashes>>

\* The first candidate that exists() does not find.
CallbackName(c) ==
  /\ At(c, "name")
  /\ req' = [req EXCEPT ![c].at = "insert", ![c].name = Least(0..MaxUsers \ Taken)]
  /\ UNCHANGED <<accounts, sess, crashes>>

\* A name taken meanwhile: IntegrityError, status 500.
CallbackCreate(c) ==
  /\ At(c, "insert")
  /\ \/ \E u \in Users :
          /\ Insert(u, req[c].name, req[c].email, <<"google", 0>>)
          /\ req' = [req EXCEPT ![c].at = "save", ![c].user = u, ![c].since = uses]
     \/ req[c].name \in Taken /\ Answer(c) /\ UNCHANGED user
  /\ UNCHANGED <<address, token, link, sess, uses, crashes>>

\* set_unusable_password, and save() of the whole row.
CallbackSave(c) ==
  /\ At(c, "save")
  /\ user' = [user EXCEPT ![req[c].user].pw = <<"google", 1>>]
  /\ req' = [req EXCEPT ![c].at = "link", ![c].name = None, ![c].pw = <<"google", 1>>]
  /\ UNCHANGED <<address, token, link, sess, uses, crashes>>

Mistaken_CallbackLink(c) ==
  /\ At(c, "link")
  /\ link' = [link EXCEPT ![req[c].sub] = IF @ = None THEN req[c].user ELSE @]
  /\ Go(c, "login")
  /\ UNCHANGED <<user, address, token, sess, uses, crashes>>

\* (provider, provider_user_id) is UNIQUE: when the identity has been linked
\* meanwhile, IntegrityError, status 500.
CallbackLink(c) ==
  /\ At(c, "link")
  /\ \/ /\ link[req[c].sub] = None
        /\ link' = [link EXCEPT ![req[c].sub] = req[c].user]
        /\ Go(c, "login")
     \/ link[req[c].sub] # None /\ Answer(c) /\ UNCHANGED link
  /\ UNCHANGED <<user, address, token, sess, uses, crashes>>

-----------------------------------------------------------------------------
\* A process dies, or a statement fails, in the request of c.
Crash(c) ==
  /\ req[c].at \notin {"idle", "google"}
  /\ crashes < MaxCrashes
  /\ crashes' = crashes + 1
  /\ Answer(c)
  /\ UNCHANGED <<accounts, sess>>

Init ==
  /\ user = [u \in Users |-> None]
  /\ address = [u \in Users |-> "none"]
  /\ token = [t \in Tokens |-> None]
  /\ link = [s \in Subs |-> None]
  /\ sess = [c \in Clients |-> Anonymous]
  /\ req = [c \in Clients |-> Idle]
  /\ uses = [t \in Tokens |-> 0]
  /\ crashes = 0

\* A request in progress.
Step(c) ==
  \/ SignupCreate(c) \/ SignupRows(c)
  \/ VerifyConsume(c) \/ VerifyMark(c)
  \/ ResetSave(c) \/ ResetSpend(c)
  \/ CallbackFind(c) \/ CallbackName(c) \/ CallbackCreate(c)
  \/ CallbackSave(c) \/ CallbackLink(c)
  \/ Login(c)

Request(c) ==
  \/ \E email \in Emails : \/ ForgotPassword(c, email)
                          \/ \E name \in {email, 0} : SignupCheck(c, email, name)
  \/ \E t \in Tokens : VerifyRead(c, t) \/ ResetRead(c, t)
  \/ \E u \in Users : LoginRead(c, u)
  \/ \E s \in Subs : OauthCallback(c, s)
  \/ Logout(c) \/ Me(c) \/ OauthStart(c) \/ OauthRefused(c)

Next == \E c \in Clients : Request(c) \/ Step(c) \/ Crash(c)

Spec == Init /\ [][Next]_vars

\* Requests end, and clients go on signing in with Google.
FairSpec ==
  /\ Spec
  /\ \A c \in Clients : WF_vars(Step(c))
  /\ SF_vars(\E c \in Clients : OauthStart(c))
  /\ \A s \in Subs : SF_vars(\E c \in Clients : OauthCallback(c, s))

-----------------------------------------------------------------------------
\* The check for an address and the insert are apart, and nothing in the schema makes
\* auth_user.email unique: two accounts have one address only when their requests
\* were served at once.
AccountsBounded == \A e \in Emails : Cardinality(Having(e)) <= Cardinality(Clients)

\* Whoever signed in with a Google identity is in the one account linked to it,
\* whatever requests raced or died on the way.
OneAccountPerIdentity ==
  \A c \in Clients : sess[c].via # None => link[sess[c].via] = sess[c].user

\* A reset was lost: a Google sign-in that had just created the account saved the
\* row as it knew it.
Overwritten(u) ==
  /\ user[u].pw = <<"google", 1>>
  /\ \E t \in Tokens : token[t] # None /\ token[t].user = u /\ uses[t] > 0

\* A reset ends every session of the account, those of requests included that had read
\* the user, and compared the old password, before it and signed in after it: no
\* password was set between that read and now in the account of a session that works.
ResetEndsSessions ==
  \A c \in Clients, t \in Tokens :
    /\ Live(c) /\ ~Overwritten(sess[c].user)
    /\ token[t] # None /\ token[t].user = sess[c].user
    => sess[c].since[t] = uses[t]

\* A token sets a password again only in requests that ran at once, or after one
\* that died between the password and the token.
ResetsBounded == \A t \in Tokens : uses[t] <= Cardinality(Clients) + crashes

\* A verification token is used up without its address being verified only by a
\* request that died in between; there is no other way to get a second token.
VerificationsKept ==
  Cardinality({t \in Tokens :
    /\ token[t] # None /\ token[t].for = "verify" /\ token[t].consumed
    /\ address[token[t].user] # "verified"
    /\ \A c \in Clients : ~(At(c, "mark") /\ req[c].token = t)}) <= crashes

\* A sign-in that dies between creating the account and linking it is repaired by the
\* next: the identity is linked in the end.
EndsLinked == \A s \in Subs : <>(link[s] # None)

=============================================================================
