--------------------------- MODULE DjangoAuthProofs ---------------------------
(***************************************************************************)
(* Proofs about DjangoAuth, for any number of clients, addresses, Google   *)
(* identities, tokens, users and crashes.                                  *)
(*                                                                         *)
(* A request holds objects that it read some statements ago.  What it      *)
(* holds stays true because rows only grow (Grown): users are not deleted  *)
(* and keep their address, a token keeps its user and purpose, a link is   *)
(* final.  The bounds count, for each address and each token, the requests *)
(* that have passed their check and not done their write yet.              *)
(***************************************************************************)
EXTENDS DjangoAuth, FiniteSetTheorems, TLAPS

Steps == {"idle", "create", "rows", "consume", "mark", "reset", "spend", "google", "find",
          "name", "insert", "save", "link", "login"}

Requests == [at : Steps, email : Emails \cup {None}, name : Names \cup {None},
             user : Users \cup {None}, pw : Passwords \cup {None},
             token : Tokens \cup {None}, sub : Subs \cup {None},
             since : [Tokens -> Nat] \cup {None}]

Sessions == [user : Users \cup {None}, pw : Passwords \cup {None},
             via : Subs \cup {None}, since : [Tokens -> Nat] \cup {None}]

\* A request that presented a token still holds it, and its user.
Presents(c, purpose) ==
  /\ req[c].token \in Tokens
  /\ token[req[c].token] # None
  /\ token[req[c].token].for = purpose
  /\ token[req[c].token].user = req[c].user

\* What the request of c holds at each of its steps.
Holds(c) ==
  /\ req[c].at \in {"create", "find", "name", "insert"} => req[c].email \in Emails
  /\ req[c].at \in {"create", "insert"} => req[c].name \in Names
  /\ req[c].at \in {"rows", "save", "link", "login"} => req[c].user \in Rows
  /\ req[c].at \in {"rows", "link", "login"} => req[c].pw \in Passwords
  /\ req[c].at \in {"idle", "google", "create", "rows"} => req[c].sub = None
  /\ req[c].at \in {"find", "name", "insert", "save", "link"} => req[c].sub \in Subs
  /\ req[c].at = "login" /\ req[c].sub # None => link[req[c].sub] = req[c].user
  /\ req[c].at \in {"consume", "mark"} => Presents(c, "verify")
  /\ req[c].at = "mark" => token[req[c].token].consumed
  /\ req[c].at \in {"reset", "spend"} => Presents(c, "reset")

\* Tokens and links are of users, and a verification token of one with an address.
Referred ==
  /\ \A t \in Tokens : token[t] # None =>
       /\ token[t].user \in Rows
       /\ token[t].for = "verify" => address[token[t].user] # "none"
  /\ \A s \in Subs : link[s] # None => link[s] \in Rows

\* Requests that are to set a password with token t, and those that have set it and
\* not consumed the token yet.
Resetting(t) == {c \in Clients : At(c, "reset") /\ req[c].token = t}
Spending(t)  == {c \in Clients : At(c, "spend") /\ req[c].token = t}

\* Each password set with a token was set by a request that is still to consume it, or
\* has died, or overlapped one that consumed it.
Resets ==
  \A t \in Tokens :
    /\ uses[t] + Cardinality(Resetting(t)) <= Cardinality(Clients) + crashes
    /\ (token[t] = None \/ ~token[t].consumed) =>
         uses[t] <= Cardinality(Spending(t)) + crashes

Inv == TypeOK /\ (\A c \in Clients : Holds(c)) /\ Referred /\ Resets

\* What no step takes back.
Grown ==
  /\ Rows \subseteq Rows'
  /\ \A u \in Rows : user'[u].email = user[u].email
  /\ \A u \in Users : address[u] # "none" => address'[u] # "none"
  /\ \A t \in Tokens : token[t] # None =>
       /\ token'[t] # None
       /\ token'[t].user = token[t].user /\ token'[t].for = token[t].for
       /\ token[t].consumed => token'[t].consumed
  /\ \A s \in Subs : link[s] # None => link'[s] = link[s]

-----------------------------------------------------------------------------
\* None is nothing else, and a row is an account.
LEMMA Rowed ==
  ASSUME TypeOK
  PROVE  /\ \A u \in Users : u \in Rows <=> user[u] # None
         /\ Rows \subseteq Users
         /\ \A u \in Rows : user[u] \in Accounts
         /\ \A t \in Tokens : token[t] # None => token[t] \in Minted
         /\ None \notin Users /\ None \notin Subs /\ None \notin Tokens /\ None \notin Emails
         /\ None \notin Accounts /\ None \notin Minted
<1>1. Users \subseteq Nat
  BY BoundAssumption DEF Users
<1>2. /\ \A u \in Users : u \in Rows <=> user[u] # None
      /\ Rows \subseteq Users
  BY DEF Rows, Unused
<1>3. user \in [Users -> Accounts \cup {None}] /\ token \in [Tokens -> Minted \cup {None}]
  BY DEF TypeOK
<1>4. \A u \in Rows : user[u] \in Accounts
  BY <1>2, <1>3
<1>5. \A t \in Tokens : token[t] # None => token[t] \in Minted
  BY <1>3
<1> QED
  BY <1>1, <1>2, <1>4, <1>5, NoneAssumption

\* Least chooses a member.
LEMMA LeastIn ==
  ASSUME NEW S, S \subseteq Nat, S # {}
  PROVE  Least(S) \in S
<1> DEFINE R == {ss \in Nat \X Nat : ss[1] < ss[2]}
<1>1. IsWellFoundedOn(R, Nat)
  BY NatLessThanWellFounded DEF OpToRel
<1>2. PICK x \in S : \A y \in S : ~(<<y, x>> \in R)
  <2> HIDE DEF R
  <2> QED
    BY <1>1, WFMin
<1>3. ASSUME NEW y \in S PROVE x <= y
  <2>1. x \in Nat /\ y \in Nat /\ ~(y < x)
    BY <1>2
  <2> QED
    BY <2>1
<1> QED
  BY <1>2, <1>3 DEF Least

\* There are more names than users.
LEMMA NameLeft ==
  ASSUME TypeOK
  PROVE  Least(0 .. MaxUsers \ Taken) \in 0 .. MaxUsers
<1> DEFINE f == [u \in Rows |-> user[u].name]
           Free == 0 .. MaxUsers \ Taken
<1>1. IsFiniteSet(Users) /\ Cardinality(Users) = MaxUsers /\ Rows \subseteq Users
  BY BoundAssumption, FS_Interval DEF Users, Rows
<1>2. IsFiniteSet(Rows) /\ Cardinality(Rows) <= MaxUsers /\ Cardinality(Rows) \in Nat
  BY <1>1, FS_Subset, FS_CardinalityType
<1>3. f \in Surjection(Rows, Taken)
  BY DEF Surjection, Taken
<1>4. IsFiniteSet(Taken) /\ Cardinality(Taken) <= Cardinality(Rows)
  BY <1>2, <1>3, FS_Surjection
<1>5. Cardinality(Taken) \in Nat
  BY <1>4, FS_CardinalityType
<1>6. IsFiniteSet(0 .. MaxUsers) /\ Cardinality(0 .. MaxUsers) = MaxUsers + 1
  BY BoundAssumption, FS_Interval
<1>7. Free # {}
  <2> SUFFICES ASSUME 0 .. MaxUsers \subseteq Taken PROVE FALSE
    OBVIOUS
  <2>1. Cardinality(0 .. MaxUsers) <= Cardinality(Taken)
    BY <1>4, FS_Subset
  <2> QED
    BY <1>2, <1>4, <1>5, <1>6, <2>1, BoundAssumption
<1>8. Free \subseteq Nat
  OBVIOUS
<1>9. Least(Free) \in Free
  <2> HIDE DEF Free
  <2> QED
    BY <1>7, <1>8, LeastIn
<1> QED
  BY <1>9

\* Minting gives an unused token to a user, or changes nothing.
LEMMA MintedToken ==
  ASSUME TypeOK, NEW u \in Rows, NEW purpose \in {"verify", "reset"},
         mint_one_time_token(u, purpose)
  PROVE  \/ token' = token
         \/ \E t \in Tokens :
              /\ token[t] = None
              /\ token' = [token EXCEPT ![t] = [user |-> u, for |-> purpose, consumed |-> FALSE]]
              /\ [user |-> u, for |-> purpose, consumed |-> FALSE] \in Minted
<1>1. [user |-> u, for |-> purpose, consumed |-> FALSE] \in Minted
  BY Rowed DEF Minted
<1> HIDE DEF Minted
<1>2. CASE token' # token
  <2> DEFINE t == CHOOSE x \in Tokens : token[x] = None
  <2>1. t \in Tokens /\ token[t] = None
    BY <1>2 DEF mint_one_time_token
  <2>2. token' = [token EXCEPT ![t] = [user |-> u, for |-> purpose, consumed |-> FALSE]]
    BY <1>2 DEF mint_one_time_token
  <2> QED
    BY <1>1, <2>1, <2>2
<1> QED
  BY <1>2

-----------------------------------------------------------------------------
\* The few actions that change each variable.
LEMMA Touched ==
  ASSUME NEW c \in Clients, Request(c) \/ Step(c) \/ Crash(c)
  PROVE  /\ UNCHANGED <<user, uses>> \/ SignupCreate(c) \/ ResetSave(c) \/ CallbackCreate(c) \/ CallbackSave(c)
         /\ UNCHANGED address \/ SignupRows(c) \/ VerifyMark(c)
         /\ \/ UNCHANGED token
            \/ SignupRows(c) \/ VerifyConsume(c) \/ ResetSpend(c)
            \/ \E email \in Emails : ForgotPassword(c, email)
         /\ UNCHANGED link \/ CallbackLink(c)
         /\ UNCHANGED sess \/ Login(c) \/ Logout(c) \/ Me(c)
         /\ UNCHANGED uses \/ ResetSave(c)
         /\ UNCHANGED crashes \/ Crash(c)
<1>1. CASE Request(c)
  <2>1. ASSUME NEW email \in Emails, ForgotPassword(c, email)
        PROVE  UNCHANGED <<user, address, link, sess, uses, crashes>>
    BY <2>1 DEF ForgotPassword
  <2>2. ASSUME NEW email \in Emails, NEW name \in {email, 0}, SignupCheck(c, email, name)
        PROVE  UNCHANGED <<accounts, sess, crashes>>
    BY <2>2 DEF SignupCheck
  <2>3. ASSUME NEW t \in Tokens, VerifyRead(c, t) \/ ResetRead(c, t)
        PROVE  UNCHANGED <<accounts, sess, crashes>>
    BY <2>3 DEF VerifyRead, ResetRead
  <2>4. ASSUME NEW u \in Users, LoginRead(c, u) PROVE UNCHANGED <<accounts, sess, crashes>>
    BY <2>4 DEF LoginRead
  <2>5. ASSUME NEW s \in Subs, OauthCallback(c, s) PROVE UNCHANGED <<accounts, sess, crashes>>
    BY <2>5 DEF OauthCallback
  <2>6. OauthStart(c) \/ OauthRefused(c) => UNCHANGED <<accounts, sess, crashes>>
    BY DEF OauthStart, OauthRefused
  <2>7. Logout(c) \/ Me(c) => UNCHANGED <<accounts, crashes>>
    BY DEF Logout, Me
  <2> QED
    BY <1>1, <2>1, <2>2, <2>3, <2>4, <2>5, <2>6, <2>7 DEF Request, accounts
<1>2. CASE Step(c)
  <2>1. SignupCreate(c) \/ CallbackCreate(c) \/ CallbackSave(c) =>
          UNCHANGED <<address, token, link, sess, uses, crashes>>
    BY Zenon DEF SignupCreate, CallbackCreate, CallbackSave
  <2>2. SignupRows(c) => UNCHANGED <<user, link, sess, uses, crashes>>
    BY DEF SignupRows
  <2>3. VerifyConsume(c) \/ ResetSpend(c) => UNCHANGED <<user, address, link, sess, uses, crashes>>
    BY DEF VerifyConsume, ResetSpend
  <2>4. VerifyMark(c) => UNCHANGED <<user, token, link, sess, uses, crashes>>
    BY DEF VerifyMark
  <2>5. ResetSave(c) => UNCHANGED <<address, token, link, sess, crashes>>
    BY DEF ResetSave
  <2>6. CallbackFind(c) \/ CallbackName(c) => UNCHANGED <<accounts, sess, crashes>>
    BY DEF CallbackFind, CallbackName
  <2>7. CallbackLink(c) => UNCHANGED <<user, address, token, sess, uses, crashes>>
    BY DEF CallbackLink
  <2>8. Login(c) => UNCHANGED <<accounts, crashes>>
    BY DEF Login
  <2> QED
    BY <1>2, <2>1, <2>2, <2>3, <2>4, <2>5, <2>6, <2>7, <2>8 DEF Step, accounts
<1>3. CASE Crash(c)
  BY <1>3 DEF Crash, accounts
<1> QED
  BY <1>1, <1>2, <1>3

\* An insert adds one row, of the first free number.
LEMMA Inserted ==
  ASSUME TypeOK, NEW u \in Users, NEW name \in Names, NEW email \in Emails,
         NEW pw \in Passwords, Insert(u, name, email, pw)
  PROVE  /\ u \notin Rows /\ Rows' = Rows \cup {u}
         /\ user' \in [Users -> Accounts \cup {None}]
         /\ user'[u].email = email /\ user'[u].pw = pw
         /\ \A v \in Rows : user'[v] = user[v]
<1> DEFINE a == [name |-> name, email |-> email, pw |-> pw]
<1>1. a \in Accounts /\ a.email = email /\ a.pw = pw
  BY DEF Accounts
<1>2. u \in Unused /\ user' = [user EXCEPT ![u] = a] /\ user \in [Users -> Accounts \cup {None}]
  BY DEF Insert, TypeOK
<1>3. a # None
  BY <1>1, Rowed
<1> HIDE DEF a
<1>4. Unused' = Unused \ {u}
  BY <1>2, <1>3 DEF Unused
<1> QED
  BY <1>1, <1>2, <1>4 DEF Rows, Unused

\* A request that is to set a password with a token is counted.
LEMMA RoomLeft ==
  ASSUME TypeOK, Resets, NEW c \in Clients, At(c, "reset"), req[c].token \in Tokens
  PROVE  uses[req[c].token] + 1 \in 1 .. Cardinality(Clients) + MaxCrashes
<1> DEFINE t == req[c].token
           k == Cardinality(Resetting(t))
           n == Cardinality(Clients)
           v == uses[t]
<1>1. Resetting(t) \subseteq Clients /\ c \in Resetting(t)
  BY DEF Resetting
<1>2. IsFiniteSet(Resetting(t)) /\ k \in Nat
  BY <1>1, BoundAssumption, FS_Subset, FS_CardinalityType
<1>3. k # 0
  BY <1>1, <1>2, FS_EmptySet
<1>4. /\ v + k <= n + crashes
      /\ v \in Nat /\ crashes \in Nat /\ crashes <= MaxCrashes /\ MaxCrashes \in Nat
      /\ n \in Nat
  BY BoundAssumption, FS_CardinalityType DEF Resets, TypeOK
<1>5. v + 1 \in 1 .. n + MaxCrashes
  <2> HIDE DEF t, k, n, v
  <2> QED
    BY <1>2, <1>3, <1>4
<1> QED
  BY <1>5

\* The users: rows are added, and their passwords change.
LEMMA UserStep ==
  ASSUME Inv, NEW c \in Clients, Request(c) \/ Step(c) \/ Crash(c)
  PROVE  /\ user' \in [Users -> Accounts \cup {None}]
         /\ uses' \in [Tokens -> Nat]
         /\ Rows \subseteq Rows'
         /\ \A u \in Rows : user'[u].email = user[u].email
<1>0. /\ user \in [Users -> Accounts \cup {None}] /\ uses \in [Tokens -> Nat]
      /\ TypeOK /\ Holds(c)
  BY DEF Inv, TypeOK
<1>1. CASE UNCHANGED <<user, uses>>
  BY <1>0, <1>1 DEF Rows, Unused
<1>2. CASE SignupCreate(c)
  <2>1. /\ uses' = uses /\ req[c].email \in Emails /\ req[c].name \in Names
        /\ <<"signup", 0>> \in Passwords
    <3>1. uses' = uses /\ req[c].email \in Emails /\ req[c].name \in Names
      <4>1. uses' = uses /\ At(c, "create")
        BY <1>2, Zenon DEF SignupCreate
      <4> QED
        BY <1>0, <4>1 DEF Holds, At
    <3>2. <<"signup", 0>> \in Passwords
      BY DEF Passwords
    <3> QED
      BY <3>1, <3>2
  <2>2. CASE UNCHANGED user
    BY <1>1, <2>1, <2>2
  <2>3. ASSUME NEW u \in Users, Insert(u, req[c].name, req[c].email, <<"signup", 0>>)
        PROVE  /\ user' \in [Users -> Accounts \cup {None}] /\ Rows \subseteq Rows'
               /\ \A v \in Rows : user'[v].email = user[v].email
    BY <1>0, <2>1, <2>3, Inserted
  <2> QED
    <3>1. \/ UNCHANGED user
          \/ \E u \in Users : Insert(u, req[c].name, req[c].email, <<"signup", 0>>)
      BY <1>2, Zenon DEF SignupCreate
    <3> QED
      BY <1>0, <2>1, <2>2, <2>3, <3>1
<1>3. CASE CallbackCreate(c)
  <2>1. /\ uses' = uses /\ req[c].email \in Emails /\ req[c].name \in Names
        /\ <<"google", 0>> \in Passwords
    <3>1. uses' = uses /\ req[c].email \in Emails /\ req[c].name \in Names
      BY <1>0, <1>3 DEF CallbackCreate, Holds, At
    <3>2. <<"google", 0>> \in Passwords
      BY DEF Passwords
    <3> QED
      BY <3>1, <3>2
  <2>2. CASE UNCHANGED user
    BY <1>1, <2>1, <2>2
  <2>3. ASSUME NEW u \in Users, Insert(u, req[c].name, req[c].email, <<"google", 0>>)
        PROVE  /\ user' \in [Users -> Accounts \cup {None}] /\ Rows \subseteq Rows'
               /\ \A v \in Rows : user'[v].email = user[v].email
    BY <1>0, <2>1, <2>3, Inserted
  <2> QED
    <3>1. \/ UNCHANGED user
          \/ \E u \in Users : Insert(u, req[c].name, req[c].email, <<"google", 0>>)
      BY <1>3 DEF CallbackCreate
    <3> QED
      BY <1>0, <2>1, <2>2, <2>3, <3>1
<1>4. ASSUME NEW u \in Rows, NEW pw \in Passwords, user' = [user EXCEPT ![u].pw = pw]
      PROVE  /\ user' \in [Users -> Accounts \cup {None}]
             /\ Rows \subseteq Rows'
             /\ \A v \in Rows : user'[v].email = user[v].email
  <2> DEFINE a == [user[u] EXCEPT !.pw = pw]
  <2>1. u \in Users /\ user[u] \in Accounts
    BY <1>0, Rowed
  <2>2. a \in Accounts /\ a.email = user[u].email
    BY <2>1 DEF Accounts
  <2>3. user' = [user EXCEPT ![u] = a] /\ a # None
    BY <1>0, <1>4, <2>2, Rowed
  <2> HIDE DEF a
  <2> QED
    BY <1>0, <2>1, <2>2, <2>3 DEF Rows, Unused
<1>5. CASE ResetSave(c)
  <2> DEFINE t == req[c].token
  <2>1. At(c, "reset") /\ t \in Tokens /\ req[c].user \in Rows
    BY <1>0, <1>5 DEF ResetSave, Holds, Presents, At, Inv, Referred
  <2>2. uses[t] + 1 \in 1 .. Cardinality(Clients) + MaxCrashes
    BY <1>0, <2>1, RoomLeft DEF Inv
  <2>3. <<t, uses[t] + 1>> \in Passwords
    BY <2>1, <2>2 DEF Passwords
  <2>4. user' = [user EXCEPT ![req[c].user].pw = <<t, uses[t] + 1>>]
        /\ uses' = [uses EXCEPT ![t] = @ + 1]
    BY <1>5 DEF ResetSave
  <2> QED
    <3>1. uses' \in [Tokens -> Nat]
      <4>1. uses' = [uses EXCEPT ![t] = @ + 1]
        BY <2>4
      <4> HIDE DEF t
      <4> QED
        BY <1>0, <2>1, <4>1
    <3>2. user' = [user EXCEPT ![req[c].user].pw = <<t, uses[t] + 1>>]
      BY <2>4
    <3> HIDE DEF t
    <3> QED
      BY <1>4, <2>1, <2>3, <3>1, <3>2
<1>6. CASE CallbackSave(c)
  <2>1. req[c].user \in Rows /\ <<"google", 1>> \in Passwords
    BY <1>0, <1>6 DEF CallbackSave, Holds, At, Passwords
  <2> QED
    BY <1>0, <1>4, <1>6, <2>1 DEF CallbackSave
<1> QED
  BY <1>1, <1>2, <1>3, <1>5, <1>6, Touched

\* The addresses: a row is added, or verified.
LEMMA AddressStep ==
  ASSUME Inv, NEW c \in Clients, Request(c) \/ Step(c) \/ Crash(c)
  PROVE  /\ address' \in [Users -> {"none", "unverified", "verified"}]
         /\ \A u \in Users : address[u] # "none" => address'[u] # "none"
         /\ \A u \in Users : address[u] = "verified" => address'[u] = "verified"
<1>0. /\ address \in [Users -> {"none", "unverified", "verified"}]
      /\ TypeOK /\ Holds(c)
  BY DEF Inv, TypeOK
<1>1. CASE SignupRows(c)
  <2>1. req[c].user \in Rows
    BY <1>0, <1>1 DEF SignupRows, Holds, At
  <2>2. UNCHANGED address \/
        (address[req[c].user] = "none" /\ address' = [address EXCEPT ![req[c].user] = "unverified"])
    BY <1>0, <1>1, <2>1 DEF SignupRows, AddressTaken, Having
  <2> QED
    BY <1>0, <2>2
<1>2. CASE VerifyMark(c)
  BY <1>0, <1>2 DEF VerifyMark
<1> QED
  BY <1>0, <1>1, <1>2, Touched

\* The tokens: one is minted, or consumed.
LEMMA TokenStep ==
  ASSUME Inv, NEW c \in Clients, Request(c) \/ Step(c) \/ Crash(c)
  PROVE  /\ token' \in [Tokens -> Minted \cup {None}]
         /\ \A t \in Tokens : token[t] # None =>
              /\ token'[t] # None
              /\ token'[t].user = token[t].user /\ token'[t].for = token[t].for
              /\ token[t].consumed => token'[t].consumed
<1>0. /\ token \in [Tokens -> Minted \cup {None}] /\ TypeOK /\ Holds(c)
  BY DEF Inv, TypeOK
<1>1. ASSUME NEW u \in Rows, NEW purpose \in {"verify", "reset"}, mint_one_time_token(u, purpose)
      PROVE  /\ token' \in [Tokens -> Minted \cup {None}]
             /\ \A t \in Tokens : token[t] # None => token'[t] = token[t]
  BY <1>0, <1>1, MintedToken
<1>2. ASSUME NEW t \in Tokens, token[t] # None, token' = [token EXCEPT ![t].consumed = TRUE]
      PROVE  /\ token' \in [Tokens -> Minted \cup {None}]
             /\ \A s \in Tokens : token[s] # None =>
                  /\ token'[s] # None
                  /\ token'[s].user = token[s].user /\ token'[s].for = token[s].for
                  /\ token[s].consumed => token'[s].consumed
  <2> DEFINE m == [token[t] EXCEPT !.consumed = TRUE]
  <2>1. m \in Minted /\ m.user = token[t].user /\ m.for = token[t].for /\ m.consumed
    BY <1>0, <1>2, Rowed DEF Minted
  <2>2. token' = [token EXCEPT ![t] = m] /\ m # None
    BY <1>0, <1>2, <2>1, Rowed
  <2> HIDE DEF m
  <2> QED
    BY <1>0, <2>1, <2>2
<1>3. CASE SignupRows(c)
  <2>1. req[c].user \in Rows
    BY <1>0, <1>3 DEF SignupRows, Holds, At
  <2>2. UNCHANGED token \/ mint_one_time_token(req[c].user, "verify")
    BY <1>3 DEF SignupRows
  <2> QED
    BY <1>0, <1>1, <2>1, <2>2
<1>4. ASSUME NEW email \in Emails, ForgotPassword(c, email)
      PROVE  /\ token' \in [Tokens -> Minted \cup {None}]
             /\ \A t \in Tokens : token[t] # None => token'[t] = token[t]
  <2>1. Having(email) # {} /\ Having(email) \subseteq Nat /\ Having(email) \subseteq Rows
    BY <1>4, BoundAssumption DEF ForgotPassword, Having, Rows, Users
  <2>2. Least(Having(email)) \in Rows
    BY <2>1, LeastIn
  <2> QED
    BY <1>1, <1>4, <2>2 DEF ForgotPassword
<1>5. CASE VerifyConsume(c)
  BY <1>0, <1>2, <1>5 DEF VerifyConsume, Holds, Presents, At
<1>6. CASE ResetSpend(c)
  BY <1>0, <1>2, <1>6 DEF ResetSpend, Holds, Presents, At
<1> QED
  BY <1>0, <1>3, <1>4, <1>5, <1>6, Touched

\* The links: one is added.
LEMMA LinkStep ==
  ASSUME Inv, NEW c \in Clients, Request(c) \/ Step(c) \/ Crash(c)
  PROVE  /\ link' \in [Subs -> Users \cup {None}]
         /\ \A s \in Subs : link[s] # None => link'[s] = link[s]
         /\ \A s \in Subs : link'[s] # None => link'[s] \in Rows
<1>0. /\ link \in [Subs -> Users \cup {None}] /\ TypeOK /\ Holds(c) /\ Referred
  BY DEF Inv, TypeOK
<1>1. CASE CallbackLink(c)
  <2>1. req[c].sub \in Subs /\ req[c].user \in Users /\ req[c].user \in Rows
    <3>1. req[c].sub \in Subs
      BY <1>0, <1>1 DEF CallbackLink, Holds, At
    <3>2. req[c].user \in Rows
      BY <1>0, <1>1 DEF CallbackLink, Holds, At
    <3> QED
      BY <1>0, <3>1, <3>2, Rowed
  <2> QED
    BY <1>0, <1>1, <2>1 DEF CallbackLink, Referred
<1> QED
  BY <1>0, <1>1, Touched DEF Referred

\* Rows grow.
LEMMA GrownStep ==
  ASSUME Inv, NEW c \in Clients, Request(c) \/ Step(c) \/ Crash(c)
  PROVE  Grown
BY UserStep, AddressStep, TokenStep, LinkStep DEF Grown

-----------------------------------------------------------------------------
\* What another request holds stays as it was.
LEMMA OthersHold ==
  ASSUME Inv, Grown, NEW d \in Clients, req'[d] = req[d]
  PROVE  Holds(d)'
<1>1. Holds(d) /\ TypeOK /\ Rows \subseteq Rows'
  BY DEF Inv, Grown
<1>2. \A purpose : Presents(d, purpose) => Presents(d, purpose)'
  BY DEF Presents, Grown
<1>3. req'[d].at = "login" /\ req'[d].sub # None => link'[req'[d].sub] = req'[d].user
  <2>1. req[d].at = "login" => req[d].user \in Rows
    BY <1>1 DEF Holds
  <2>2. req[d].at = "login" => req[d].user # None
    BY <1>1, <2>1, Rowed
  <2>3. req[d].sub # None => req[d].sub \in Subs
    BY <1>1 DEF TypeOK
  <2>4. req[d].at = "login" /\ req[d].sub # None =>
          link[req[d].sub] = req[d].user /\ link'[req[d].sub] = link[req[d].sub]
    BY <1>1, <2>2, <2>3 DEF Holds, Grown
  <2> QED
    BY <2>4
<1>4. req[d].at = "mark" => token'[req[d].token].consumed
  <2>1. req[d].at = "mark" => /\ req[d].token \in Tokens /\ token[req[d].token] # None
                              /\ token[req[d].token].consumed
    BY <1>1 DEF Holds, Presents
  <2> QED
    BY <2>1 DEF Grown
<1> QED
  BY <1>1, <1>2, <1>3, <1>4 DEF Holds

\* The next state of c's request holds what it should, and no other request moves.
Moves(c) == req'[c] \in Requests /\ Holds(c)' /\ \A d \in Clients \ {c} : req'[d] = req[d]

\* A request that is answered holds nothing.
LEMMA AnswerHolds ==
  ASSUME TypeOK, NEW c \in Clients, Answer(c)
  PROVE  Moves(c) /\ req'[c] = Idle
<1>1. req'[c] = Idle /\ \A d \in Clients \ {c} : req'[d] = req[d]
  BY DEF TypeOK, Answer
<1>2. req'[c] \in Requests /\ req'[c].at = "idle" /\ req'[c].sub = None
  BY <1>1 DEF Idle, Requests, Steps
<1> QED
  BY <1>1, <1>2 DEF Holds, Moves

\* A request that has come to hold the user it is about.
LEMMA UserHolds ==
  ASSUME Inv, NEW c \in Clients, NEW r \in Requests, req' = [req EXCEPT ![c] = r],
         r.at \in {"rows", "link", "login"}, r.user \in Rows', r.pw \in Passwords,
         r.at = "rows" => r.sub = None, r.at = "link" => r.sub \in Subs,
         r.at = "login" /\ r.sub # None => link'[r.sub] = r.user
  PROVE  Moves(c)
<1>1. req'[c] = r /\ \A d \in Clients \ {c} : req'[d] = req[d]
  BY DEF Inv, TypeOK
<1>2. Holds(c)'
  BY <1>1 DEF Holds
<1> QED
  BY <1>1, <1>2 DEF Moves

\* A request that presents a token whose user it has come to hold.
LEMMA TokenHolds ==
  ASSUME Inv, NEW c \in Clients, NEW r \in Requests, req' = [req EXCEPT ![c] = r],
         NEW purpose \in {"verify", "reset"}, get_valid_one_time_token(r.token, purpose),
         r.token \in Tokens, r.user = token[r.token].user, UNCHANGED token,
         purpose = "verify" => r.at = "consume", purpose = "reset" => r.at = "reset"
  PROVE  Moves(c)
<1>1. req'[c] = r /\ \A d \in Clients \ {c} : req'[d] = req[d]
  BY DEF Inv, TypeOK
<1>2. Presents(c, purpose)'
  BY <1>1 DEF Presents, get_valid_one_time_token
<1>3. CASE purpose = "verify"
  <2>1. r.at = "consume" /\ Presents(c, "verify")'
    BY <1>2, <1>3
  <2> QED
    BY <1>1, <2>1 DEF Holds, Moves
<1>4. CASE purpose = "reset"
  <2>1. r.at = "reset" /\ Presents(c, "reset")'
    BY <1>2, <1>4
  <2> QED
    BY <1>1, <2>1 DEF Holds, Moves
<1> QED
  BY <1>1, <1>3, <1>4 DEF Moves

\* What a client's request that arrives comes to hold.
LEMMA RequestHolds ==
  ASSUME Inv, Grown, NEW c \in Clients, Request(c)
  PROVE  Moves(c)
<1>0. /\ req \in [Clients -> Requests] /\ req[c] \in Requests /\ TypeOK /\ Holds(c) /\ Referred
      /\ Rows \subseteq Rows' /\ Rows \subseteq Users /\ uses \in [Tokens -> Nat]
  BY Rowed DEF Inv, TypeOK, Requests, Steps, Grown
<1>1. ASSUME UNCHANGED req
      PROVE  Moves(c)
  BY <1>0, <1>1, OthersHold DEF Moves
<1>2. ASSUME NEW email \in Emails, NEW name \in {email, 0}, SignupCheck(c, email, name)
      PROVE  Moves(c)
  <2>1. At(c, "idle") /\ req' = [req EXCEPT ![c] = [req[c] EXCEPT !.at = "create", !.email = email, !.name = name]]
    BY <1>2 DEF SignupCheck
  <2>2. name \in Names
    BY BoundAssumption DEF Names
  <2>3. /\ req'[c].at = "create" /\ req'[c].email = email /\ req'[c].name = name
        /\ req'[c].sub = None /\ req'[c] \in Requests
    BY <1>0, <2>1, <2>2 DEF Requests, Steps, Holds, At
  <2> QED
    BY <1>0, <2>1, <2>2, <2>3 DEF Holds, Moves
<1>5. ASSUME NEW u \in Users, LoginRead(c, u)
      PROVE  Moves(c)
  <2>1. u \in Rows' /\ u \in Rows /\ req[c].sub = None
    BY <1>0, <1>5 DEF LoginRead, Holds, At
  <2>2. req' = [req EXCEPT ![c] = [Idle EXCEPT !.at = "login", !.user = u, !.pw = user[u].pw,
                                               !.since = uses, !.sub = req[c].sub]]
    BY <1>5, Zenon DEF LoginRead, Hold
  <2>3. user[u].pw \in Passwords
    BY <1>0, <2>1, Rowed DEF Accounts
  <2> DEFINE r == [Idle EXCEPT !.at = "login", !.user = u, !.pw = user[u].pw, !.since = uses,
                          !.sub = None]
  <2>4. req' = [req EXCEPT ![c] = r]
    BY <2>1, <2>2
  <2>5. /\ r \in Requests
        /\ r.at = "login" /\ r.user = u /\ r.pw = user[u].pw /\ r.sub = None
    BY <1>0, <2>3 DEF Requests, Steps, Idle
  <2> HIDE DEF r
  <2> QED
    BY <2>1, <2>3, <2>4, <2>5, UserHolds
<1>6. ASSUME NEW s \in Subs, OauthCallback(c, s)
      PROVE  Moves(c)
  <2>1. CASE link[s] # None
    <3> DEFINE u == link[s]
               r == [Idle EXCEPT !.at = "login", !.sub = s, !.user = u, !.pw = user[u].pw,
                           !.since = uses]
    <3>1. req' = [req EXCEPT ![c] = r]
      BY <1>6, <2>1 DEF OauthCallback
    <3>2. u \in Rows /\ u \in Rows' /\ u \in Users /\ link'[s] = u
      BY <1>0, <2>1 DEF Referred, Grown
    <3>3. user[u].pw \in Passwords
      BY <1>0, <3>2, Rowed DEF Accounts
    <3> HIDE DEF u
    <3>4. /\ r \in Requests
          /\ r.at = "login" /\ r.user = u /\ r.pw = user[u].pw /\ r.sub = s
      BY <1>0, <3>2, <3>3 DEF Requests, Steps, Idle
    <3> HIDE DEF r
    <3> QED
      BY <3>1, <3>2, <3>3, <3>4, UserHolds
  <2>2. CASE link[s] = None
    <3>1. req' = [req EXCEPT ![c] = [Idle EXCEPT !.at = "find", !.sub = s, !.email = GoogleEmail[s]]]
      BY <1>6, <2>2 DEF OauthCallback
    <3>2. GoogleEmail[s] \in Emails
      BY GoogleAssumption
    <3>3. /\ req'[c].at = "find" /\ req'[c].sub = s /\ req'[c].email = GoogleEmail[s]
          /\ req'[c] \in Requests
      BY <1>0, <3>1, <3>2 DEF Requests, Steps, Idle
    <3>4. Holds(c)'
      BY <3>2, <3>3 DEF Holds
    <3> QED
      BY <1>0, <3>1, <3>3, <3>4 DEF Moves
  <2> QED
    BY <2>1, <2>2
<1>7. ASSUME OauthStart(c) \/ OauthRefused(c)
      PROVE  Moves(c)
  <2>1. \E step \in {"idle", "google"} :
          req' = [req EXCEPT ![c] = [req[c] EXCEPT !.at = step]] \/ req' = [req EXCEPT ![c] = Idle]
    BY <1>7 DEF OauthStart, OauthRefused, Go, Answer
  <2>2. At(c, "idle") \/ At(c, "google")
    BY <1>7 DEF OauthStart, OauthRefused
  <2>3. /\ req'[c] \in Requests /\ req'[c].at \in {"idle", "google"} /\ req'[c].sub = None
        /\ \A d \in Clients \ {c} : req'[d] = req[d]
    BY <1>0, <2>1, <2>2 DEF Requests, Steps, Idle, Holds, At
  <2> QED
    BY <2>3 DEF Holds, Moves
<1>8. ASSUME NEW t \in Tokens, VerifyRead(c, t) \/ ResetRead(c, t)
      PROVE  Moves(c)
  <2>1. CASE VerifyRead(c, t)
    <3> DEFINE r == [req[c] EXCEPT !.at = "consume", !.token = t, !.user = token[t].user]
    <3>1. req' = [req EXCEPT ![c] = r] /\ UNCHANGED token
      BY <2>1 DEF VerifyRead, accounts
    <3>2. get_valid_one_time_token(t, "verify")
      BY <2>1 DEF VerifyRead
    <3>3. token[t].user \in Users
      BY <1>0, <3>2 DEF get_valid_one_time_token, Referred
    <3>4. /\ r \in Requests
          /\ r.at = "consume" /\ r.token = t /\ r.user = token[t].user
      BY <1>0, <3>3 DEF Requests, Steps
    <3> HIDE DEF r
    <3> QED
      BY <3>1, <3>2, <3>4, TokenHolds
  <2>2. CASE ResetRead(c, t)
    <3> DEFINE r == [req[c] EXCEPT !.at = "reset", !.token = t, !.user = token[t].user]
    <3>1. req' = [req EXCEPT ![c] = r] /\ UNCHANGED token
      BY <2>2 DEF ResetRead, accounts
    <3>2. get_valid_one_time_token(t, "reset")
      BY <2>2 DEF ResetRead
    <3>3. token[t].user \in Users
      BY <1>0, <3>2 DEF get_valid_one_time_token, Referred
    <3>4. /\ r \in Requests
          /\ r.at = "reset" /\ r.token = t /\ r.user = token[t].user
      BY <1>0, <3>3 DEF Requests, Steps
    <3> HIDE DEF r
    <3> QED
      BY <3>1, <3>2, <3>4, TokenHolds
  <2> QED
    BY <1>8, <2>1, <2>2
<1>9. (Logout(c) \/ Me(c) \/ \E email \in Emails : ForgotPassword(c, email)) => UNCHANGED req
  BY DEF Logout, Me, ForgotPassword
<1> QED
  BY <1>1, <1>2, <1>5, <1>6, <1>7, <1>8, <1>9 DEF Request

\* What a request comes to hold when it takes its next step.
LEMMA StepHolds ==
  ASSUME Inv, Grown, NEW c \in Clients, Step(c)
  PROVE  Moves(c)
<1>0. /\ req \in [Clients -> Requests] /\ req[c] \in Requests /\ TypeOK /\ Holds(c) /\ Referred
      /\ Rows \subseteq Rows' /\ Rows \subseteq Users /\ uses \in [Tokens -> Nat]
  BY Rowed DEF Inv, TypeOK, Requests, Steps, Grown
<1>1. CASE Answer(c)
  BY <1>0, <1>1, AnswerHolds
<1>2. CASE SignupCreate(c)
  <2>1. At(c, "create") /\ req[c].email \in Emails /\ req[c].name \in Names
    <3>1. At(c, "create")
      BY <1>2, Zenon DEF SignupCreate
    <3> QED
      BY <1>0, <3>1 DEF Holds, At
  <2>2. <<"signup", 0>> \in Passwords
    BY DEF Passwords
  <2>3. ASSUME NEW u \in Users, Insert(u, req[c].name, req[c].email, <<"signup", 0>>),
               req' = [req EXCEPT ![c] = [Idle EXCEPT !.at = "rows", !.user = u,
                                                      !.pw = <<"signup", 0>>, !.since = uses]]
        PROVE  Moves(c)
    <3> DEFINE r == [Idle EXCEPT !.at = "rows", !.user = u, !.pw = <<"signup", 0>>, !.since = uses]
    <3>1. u \in Rows'
      BY <1>0, <2>1, <2>2, <2>3, Inserted
    <3>2. req' = [req EXCEPT ![c] = r]
      BY <2>3
    <3>3. /\ r \in Requests
          /\ r.at = "rows" /\ r.user = u /\ r.pw \in Passwords /\ r.sub = None
      BY <1>0, <2>2 DEF Requests, Steps, Idle
    <3> HIDE DEF r
    <3> QED
      BY <3>1, <3>2, <3>3, UserHolds
  <2>4. \/ Answer(c)
        \/ \E u \in Users :
             /\ Insert(u, req[c].name, req[c].email, <<"signup", 0>>)
             /\ req' = [req EXCEPT ![c] = [Idle EXCEPT !.at = "rows", !.user = u,
                                                        !.pw = <<"signup", 0>>, !.since = uses]]
    BY <1>2, Zenon DEF SignupCreate
  <2> QED
    BY <1>1, <2>3, <2>4, Zenon
<1>3. CASE SignupRows(c)
  <2> DEFINE r == [req[c] EXCEPT !.at = "login"]
  <2>1. req[c].user \in Rows /\ req[c].pw \in Passwords /\ req[c].sub = None
    BY <1>0, <1>3 DEF SignupRows, Holds, At
  <2>2. Answer(c) \/ req' = [req EXCEPT ![c] = r]
    BY <1>3 DEF SignupRows, Go
  <2>3. /\ r \in Requests /\ r.at = "login"
        /\ r.user = req[c].user /\ r.pw = req[c].pw /\ r.sub = req[c].sub
    BY <1>0 DEF Requests, Steps
  <2> HIDE DEF r
  <2> QED
    BY <1>0, <1>1, <2>1, <2>2, <2>3, UserHolds
<1>4. CASE VerifyConsume(c)
  <2> DEFINE r == [req[c] EXCEPT !.at = "mark"]
             t == req[c].token
  <2>1. At(c, "consume") /\ Presents(c, "verify")
    BY <1>0, <1>4 DEF VerifyConsume, Holds, At
  <2>2. req' = [req EXCEPT ![c] = r] /\ token' = [token EXCEPT ![t].consumed = TRUE]
    BY <1>4 DEF VerifyConsume, Go
  <2>3. /\ r \in Requests /\ r.at = "mark" /\ r.token = t /\ r.user = req[c].user
        /\ r.sub = req[c].sub
    BY <1>0 DEF Requests, Steps
  <2> HIDE DEF r
  <2>4. req'[c] = r /\ \A d \in Clients \ {c} : req'[d] = req[d]
    BY <1>0, <2>2
  <2>5. t \in Tokens /\ token[t] # None /\ token[t].for = "verify" /\ token[t].user = req[c].user
    BY <2>1 DEF Presents
  <2>6. token' = [token EXCEPT ![t] = [token[t] EXCEPT !.consumed = TRUE]]
    BY <2>2
  <2>7. token'[t].consumed
    <3>1. token[t] \in Minted /\ token \in [Tokens -> Minted \cup {None}]
      BY <1>0, <2>5, Rowed DEF TypeOK
    <3> DEFINE x == [token[t] EXCEPT !.consumed = TRUE]
    <3>2. x.consumed
      BY <3>1 DEF Minted
    <3>3. token' = [token EXCEPT ![t] = x]
      BY <2>6
    <3> HIDE DEF x
    <3> QED
      BY <2>5, <3>1, <3>2, <3>3
  <2>8. Presents(c, "verify")'
    BY <2>3, <2>4, <2>5 DEF Presents, Grown
  <2> QED
    <3>1. Holds(c)'
      BY <2>3, <2>4, <2>7, <2>8 DEF Holds
    <3> QED
      BY <2>3, <2>4, <3>1 DEF Moves
<1>5. CASE ResetSave(c)
  <2> DEFINE r == [req[c] EXCEPT !.at = "spend"]
  <2>1. At(c, "reset") /\ Presents(c, "reset")
    BY <1>0, <1>5 DEF ResetSave, Holds, At
  <2>2. req' = [req EXCEPT ![c] = r] /\ UNCHANGED token
    BY <1>5 DEF ResetSave, Go
  <2>3. r \in Requests /\ r.at = "spend" /\ r.token = req[c].token /\ r.user = req[c].user
    BY <1>0 DEF Requests, Steps
  <2> HIDE DEF r
  <2>4. req'[c] = r /\ \A d \in Clients \ {c} : req'[d] = req[d]
    BY <1>0, <2>2
  <2>5. Presents(c, "reset")'
    BY <2>1, <2>2, <2>3, <2>4 DEF Presents
  <2>6. Holds(c)'
    BY <2>3, <2>4, <2>5 DEF Holds
  <2> QED
    BY <2>3, <2>4, <2>6 DEF Moves

<1>6. CASE CallbackFind(c)
  <2> DEFINE same == Having(req[c].email)
  <2>1. At(c, "find") /\ req[c].sub \in Subs /\ req[c].email \in Emails
    BY <1>0, <1>6 DEF CallbackFind, Holds, At
  <2>2. CASE Go(c, "name")
    <3> DEFINE r == [req[c] EXCEPT !.at = "name"]
    <3>1. req' = [req EXCEPT ![c] = r]
      BY <2>2 DEF Go
    <3>2. r \in Requests /\ r.at = "name" /\ r.email = req[c].email /\ r.sub = req[c].sub
      BY <1>0 DEF Requests, Steps
    <3> HIDE DEF r
    <3>3. req'[c] = r /\ \A d \in Clients \ {c} : req'[d] = req[d]
      BY <1>0, <3>1
    <3>4. Holds(c)'
      BY <2>1, <3>2, <3>3 DEF Holds
    <3> QED
      BY <3>2, <3>3, <3>4 DEF Moves
  <2>3. CASE same # {} /\ Hold(c, Least(same), "link")
    <3> DEFINE u == Least(same)
               r == [Idle EXCEPT !.at = "link", !.user = u, !.pw = user[u].pw, !.since = uses,
                          !.sub = req[c].sub]
    <3>1. same \subseteq Nat /\ same \subseteq Rows
      BY BoundAssumption DEF Having, Rows, Users
    <3>2. u \in Rows /\ u \in Rows' /\ u \in Users
      BY <1>0, <2>3, <3>1, LeastIn
    <3>3. req' = [req EXCEPT ![c] = r]
      BY <2>3, Zenon DEF Hold
    <3> HIDE DEF u
    <3>4. user[u].pw \in Passwords
      BY <1>0, <3>2, Rowed DEF Accounts
    <3>5. /\ r \in Requests
          /\ r.at = "link" /\ r.user = u /\ r.pw = user[u].pw /\ r.sub = req[c].sub
      BY <1>0, <2>1, <3>2, <3>4 DEF Requests, Steps, Idle
    <3> HIDE DEF r
    <3> QED
      BY <2>1, <3>2, <3>3, <3>4, <3>5, UserHolds
  <2> QED
    BY <1>6, <2>2, <2>3, Zenon DEF CallbackFind
<1>7. CASE CallbackName(c)
  <2> DEFINE n == Least(0 .. MaxUsers \ Taken)
             r == [req[c] EXCEPT !.at = "insert", !.name = n]
  <2>1. At(c, "name") /\ req[c].sub \in Subs /\ req[c].email \in Emails
    BY <1>0, <1>7 DEF CallbackName, Holds, At
  <2>2. req' = [req EXCEPT ![c] = r]
    BY <1>7 DEF CallbackName
  <2>3. n \in Names
    BY <1>0, NameLeft DEF Names
  <2> HIDE DEF n
  <2>4. /\ r \in Requests /\ r.at = "insert" /\ r.email = req[c].email /\ r.sub = req[c].sub
        /\ r.name = n
    BY <1>0, <2>3 DEF Requests, Steps
  <2> HIDE DEF r
  <2>5. req'[c] = r /\ \A d \in Clients \ {c} : req'[d] = req[d]
    BY <1>0, <2>2
  <2>6. Holds(c)'
    BY <2>1, <2>3, <2>4, <2>5 DEF Holds
  <2> QED
    BY <2>4, <2>5, <2>6 DEF Moves
<1>8. CASE CallbackCreate(c)
  <2>1. /\ At(c, "insert") /\ req[c].email \in Emails /\ req[c].name \in Names
        /\ req[c].sub \in Subs
    <3>1. At(c, "insert")
      BY <1>8, Zenon DEF CallbackCreate
    <3> QED
      BY <1>0, <3>1 DEF Holds, At
  <2>2. <<"google", 0>> \in Passwords
    BY DEF Passwords
  <2>3. ASSUME NEW u \in Users, Insert(u, req[c].name, req[c].email, <<"google", 0>>),
               req' = [req EXCEPT ![c].at = "save", ![c].user = u, ![c].since = uses]
        PROVE  Moves(c)
    <3> DEFINE r == [req[c] EXCEPT !.at = "save", !.user = u, !.since = uses]
    <3>1. u \in Rows'
      BY <1>0, <2>1, <2>2, <2>3, Inserted
    <3>2. req' = [req EXCEPT ![c] = r]
      BY <2>3
    <3>3. r \in Requests /\ r.at = "save" /\ r.user = u /\ r.sub = req[c].sub
      BY <1>0 DEF Requests, Steps
    <3> HIDE DEF r
    <3>4. req'[c] = r /\ \A d \in Clients \ {c} : req'[d] = req[d]
      BY <1>0, <3>2
    <3>5. Holds(c)'
      BY <2>1, <3>1, <3>3, <3>4 DEF Holds
    <3> QED
      BY <3>3, <3>4, <3>5 DEF Moves
  <2>4. \/ Answer(c)
        \/ \E u \in Users :
             /\ Insert(u, req[c].name, req[c].email, <<"google", 0>>)
             /\ req' = [req EXCEPT ![c].at = "save", ![c].user = u, ![c].since = uses]
    BY <1>8, Zenon DEF CallbackCreate
  <2> QED
    BY <1>1, <2>3, <2>4, Zenon
<1>9. CASE CallbackSave(c)
  <2> DEFINE r == [req[c] EXCEPT !.at = "link", !.name = None, !.pw = <<"google", 1>>]
  <2>1. req[c].user \in Rows /\ req[c].sub \in Subs
    BY <1>0, <1>9 DEF CallbackSave, Holds, At
  <2>2. <<"google", 1>> \in Passwords
    BY DEF Passwords
  <2>3. req' = [req EXCEPT ![c] = r]
    BY <1>9 DEF CallbackSave
  <2>4. /\ r \in Requests /\ r.at = "link" /\ r.pw \in Passwords
        /\ r.user = req[c].user /\ r.sub = req[c].sub
    BY <1>0, <2>2 DEF Requests, Steps
  <2> HIDE DEF r
  <2> QED
    BY <1>0, <2>1, <2>3, <2>4, UserHolds
<1>10. CASE CallbackLink(c)
  <2> DEFINE r == [req[c] EXCEPT !.at = "login"]
  <2>1. /\ req[c].user \in Rows /\ req[c].pw \in Passwords /\ req[c].sub \in Subs
    BY <1>0, <1>10 DEF CallbackLink, Holds, At
  <2>2. \/ Answer(c)
        \/ /\ req' = [req EXCEPT ![c] = r]
           /\ link' = [link EXCEPT ![req[c].sub] = req[c].user]
    BY <1>10 DEF CallbackLink, Go
  <2>3. /\ r \in Requests /\ r.at = "login"
        /\ r.user = req[c].user /\ r.pw = req[c].pw /\ r.sub = req[c].sub
    BY <1>0 DEF Requests, Steps
  <2>4. link \in [Subs -> Users \cup {None}]
    BY <1>0 DEF TypeOK
  <2> HIDE DEF r
  <2> QED
    BY <1>0, <1>1, <2>1, <2>2, <2>3, <2>4, UserHolds
<1>11. VerifyMark(c) \/ ResetSpend(c) \/ Login(c) => Answer(c)
  BY Zenon DEF VerifyMark, ResetSpend, Login
<1> QED
  BY <1>1, <1>2, <1>3, <1>4, <1>5, <1>6, <1>7, <1>8, <1>9, <1>10, <1>11, Zenon DEF Step

\* Every step leaves one request for each client.
LEMMA RequestsKept ==
  ASSUME TypeOK, NEW c \in Clients, Request(c) \/ Step(c) \/ Crash(c)
  PROVE  req' = [d \in Clients |-> req'[d]]
<1>0. req = [d \in Clients |-> req[d]]
  BY DEF TypeOK
<1>1. ASSUME NEW r, req' = [req EXCEPT ![c] = r] PROVE req' = [d \in Clients |-> req'[d]]
  BY <1>0, <1>1
<1>2. ASSUME UNCHANGED req PROVE req' = [d \in Clients |-> req'[d]]
  BY <1>0, <1>2
<1>3. ASSUME \E step : Go(c, step) PROVE req' = [d \in Clients |-> req'[d]]
  BY <1>0, <1>3 DEF Go
<1>4. CASE Answer(c)
  BY <1>0, <1>4 DEF Answer
<1>5. ASSUME \E u, step : Hold(c, u, step) PROVE req' = [d \in Clients |-> req'[d]]
  BY <1>0, <1>5 DEF Hold
<1>6. CASE Request(c)
  <2>1. ASSUME NEW email \in Emails, NEW name \in {email, 0}, SignupCheck(c, email, name)
        PROVE  req' = [d \in Clients |-> req'[d]]
    BY <1>0, <2>1 DEF SignupCheck
  <2>2. ASSUME NEW t \in Tokens, VerifyRead(c, t) \/ ResetRead(c, t)
        PROVE  req' = [d \in Clients |-> req'[d]]
    BY <1>0, <2>2 DEF VerifyRead, ResetRead
  <2>3. ASSUME NEW u \in Users, LoginRead(c, u) PROVE req' = [d \in Clients |-> req'[d]]
    BY <1>5, <2>3, Zenon DEF LoginRead
  <2>4. ASSUME NEW s \in Subs, OauthCallback(c, s) PROVE req' = [d \in Clients |-> req'[d]]
    BY <1>0, <2>4 DEF OauthCallback
  <2>5. CASE OauthStart(c)
    BY <1>3, <2>5, Zenon DEF OauthStart
  <2>6. CASE OauthRefused(c)
    BY <1>4, <2>6, Zenon DEF OauthRefused
  <2>7. (Logout(c) \/ Me(c) \/ \E email \in Emails : ForgotPassword(c, email)) => UNCHANGED req
    BY DEF Logout, Me, ForgotPassword
  <2> QED
    BY <1>2, <1>6, <2>1, <2>2, <2>3, <2>4, <2>5, <2>6, <2>7 DEF Request
<1>7. CASE Step(c)
  <2>1. CASE SignupCreate(c)
    <3>1. Answer(c) \/ \E r : req' = [req EXCEPT ![c] = r]
      BY <2>1, Zenon DEF SignupCreate
    <3> QED
      BY <1>1, <1>4, <3>1, Zenon
  <2>2. CASE CallbackCreate(c)
    <3>1. ASSUME NEW u, req' = [req EXCEPT ![c].at = "save", ![c].user = u, ![c].since = uses]
          PROVE  req' = [d \in Clients |-> req'[d]]
      BY <1>0, <3>1
    <3>2. Answer(c) \/ \E u : req' = [req EXCEPT ![c].at = "save", ![c].user = u, ![c].since = uses]
      BY <2>2, Zenon DEF CallbackCreate
    <3> QED
      BY <1>4, <3>1, <3>2, Zenon
  <2>3. CASE CallbackName(c) \/ CallbackSave(c)
    BY <1>0, <2>3 DEF CallbackName, CallbackSave
  <2>4. SignupRows(c) \/ VerifyConsume(c) \/ ResetSave(c) \/ CallbackLink(c) =>
          Answer(c) \/ \E step : Go(c, step)
    BY Zenon DEF SignupRows, VerifyConsume, ResetSave, CallbackLink
  <2>5. CallbackFind(c) => (\E u, step : Hold(c, u, step)) \/ \E step : Go(c, step)
    BY Zenon DEF CallbackFind
  <2>6. VerifyMark(c) \/ ResetSpend(c) \/ Login(c) => Answer(c)
    BY Zenon DEF VerifyMark, ResetSpend, Login
  <2> QED
    BY <1>3, <1>4, <1>5, <1>7, <2>1, <2>2, <2>3, <2>4, <2>5, <2>6, Zenon DEF Step
<1>8. CASE Crash(c)
  BY <1>4, <1>8, Zenon DEF Crash
<1> QED
  BY <1>6, <1>7, <1>8

\* Whatever a client does, its request holds what it should, and so do the others.
LEMMA HoldsStep ==
  ASSUME Inv, Grown, NEW c \in Clients, Request(c) \/ Step(c) \/ Crash(c)
  PROVE  Moves(c) /\ req' \in [Clients -> Requests] /\ \A d \in Clients : Holds(d)'
<1>0. TypeOK /\ req \in [Clients -> Requests]
  BY DEF Inv, TypeOK, Requests, Steps
<1>1. Moves(c)
  <2>1. Crash(c) => Answer(c)
    BY Zenon DEF Crash
  <2> QED
    BY <1>0, <2>1, RequestHolds, StepHolds, AnswerHolds, Zenon
<1>2. req'[c] \in Requests /\ Holds(c)' /\ \A d \in Clients \ {c} : req'[d] = req[d]
  BY <1>1 DEF Moves
<1>3. req' \in [Clients -> Requests]
  BY <1>0, <1>2, RequestsKept
<1>4. ASSUME NEW d \in Clients PROVE Holds(d)'
  <2>1. CASE d = c
    BY <1>2, <2>1
  <2>2. CASE d # c
    BY <1>2, <2>2, OthersHold
  <2> QED
    BY <2>1, <2>2
<1> QED
  BY <1>1, <1>3, <1>4

\* The sessions: a client logs in, or out.
LEMMA SessionStep ==
  ASSUME Inv, NEW c \in Clients, Request(c) \/ Step(c) \/ Crash(c)
  PROVE  sess' \in [Clients -> Sessions]
<1>0. sess \in [Clients -> Sessions] /\ req[c] \in Requests /\ TypeOK
  BY DEF Inv, TypeOK, Sessions, Requests, Steps
<1>1. CASE Login(c)
  <2> DEFINE x == [user |-> req[c].user, pw |-> req[c].pw, via |-> req[c].sub,
              since |-> req[c].since]
  <2>1. x \in Sessions
    BY <1>0 DEF Sessions, Requests
  <2>2. sess' = [sess EXCEPT ![c] = x]
    BY <1>1 DEF Login
  <2> HIDE DEF x
  <2> QED
    BY <1>0, <2>1, <2>2
<1>2. CASE Logout(c) \/ Me(c)
  <2>1. Anonymous \in Sessions
    BY DEF Anonymous, Sessions
  <2>2. sess' = [sess EXCEPT ![c] = Anonymous]
    BY <1>2 DEF Logout, Me
  <2> QED
    BY <1>0, <2>1, <2>2
<1> QED
  BY <1>0, <1>1, <1>2, Touched

\* Crashes are counted.
LEMMA CrashStep ==
  ASSUME Inv, NEW c \in Clients, Request(c) \/ Step(c) \/ Crash(c)
  PROVE  /\ crashes' \in 0 .. MaxCrashes /\ crashes \in Nat
         /\ ~Crash(c) => crashes' = crashes
         /\ Crash(c) => crashes' = crashes + 1
<1>1. crashes \in 0 .. MaxCrashes
  BY DEF Inv, TypeOK
<1> QED
  BY <1>1, Touched, BoundAssumption DEF Crash

\* Types are kept.
LEMMA TypeStep ==
  ASSUME Inv, NEW c \in Clients, Request(c) \/ Step(c) \/ Crash(c)
  PROVE  TypeOK'
<1>1. req' \in [Clients -> Requests] /\ sess' \in [Clients -> Sessions]
  BY GrownStep, HoldsStep, SessionStep
<1>2. /\ user' \in [Users -> Accounts \cup {None}]
      /\ address' \in [Users -> {"none", "unverified", "verified"}]
      /\ token' \in [Tokens -> Minted \cup {None}]
      /\ link' \in [Subs -> Users \cup {None}]
      /\ uses' \in [Tokens -> Nat]
      /\ crashes' \in 0 .. MaxCrashes
  BY UserStep, AddressStep, TokenStep, LinkStep, CrashStep
<1> QED
  BY <1>1, <1>2 DEF TypeOK, Sessions, Requests, Steps

\* A token is of the user it was minted for, and a verification token of one whose
\* address is recorded.
LEMMA ReferredStep ==
  ASSUME Inv, NEW c \in Clients, Request(c) \/ Step(c) \/ Crash(c)
  PROVE  Referred'
<1>0. /\ TypeOK /\ Referred /\ Holds(c) /\ Grown
      /\ token \in [Tokens -> Minted \cup {None}]
      /\ address \in [Users -> {"none", "unverified", "verified"}]
      /\ Rows \subseteq Users /\ Rows \subseteq Rows'
  BY GrownStep, Rowed DEF Inv, TypeOK, Grown
<1>1. \A s \in Subs : link'[s] # None => link'[s] \in Rows'
  BY <1>0, LinkStep
<1>2. ASSUME NEW t \in Tokens, token[t] # None
      PROVE  /\ token'[t].user \in Rows'
             /\ token'[t].for = "verify" => address'[token'[t].user] # "none"
  BY <1>0, <1>2 DEF Referred, Grown
<1>3. ASSUME NEW u \in Rows, NEW purpose \in {"verify", "reset"}, mint_one_time_token(u, purpose),
             purpose = "verify" => address'[u] # "none"
      PROVE  \A t \in Tokens : token'[t] # None =>
               /\ token'[t].user \in Rows'
               /\ token'[t].for = "verify" => address'[token'[t].user] # "none"
  <2>1. CASE token' = token
    BY <1>2, <2>1
  <2>2. ASSUME NEW x \in Tokens, token[x] = None,
               token' = [token EXCEPT ![x] = [user |-> u, for |-> purpose, consumed |-> FALSE]]
        PROVE  \A t \in Tokens : token'[t] # None =>
                 /\ token'[t].user \in Rows'
                 /\ token'[t].for = "verify" => address'[token'[t].user] # "none"
    <3>1. token'[x].user = u /\ token'[x].for = purpose
      BY <1>0, <2>2
    <3>2. \A t \in Tokens : t # x => token'[t] = token[t]
      BY <1>0, <2>2
    <3> QED
      BY <1>0, <1>2, <1>3, <3>1, <3>2
  <2>3. \/ token' = token
        \/ \E x \in Tokens :
             /\ token[x] = None
             /\ token' = [token EXCEPT ![x] = [user |-> u, for |-> purpose, consumed |-> FALSE]]
    BY <1>0, <1>3, MintedToken
  <2> QED
    BY <2>1, <2>2, <2>3, Zenon
<1>4. ASSUME UNCHANGED token
      PROVE  \A t \in Tokens : token'[t] # None =>
               /\ token'[t].user \in Rows'
               /\ token'[t].for = "verify" => address'[token'[t].user] # "none"
  BY <1>2, <1>4
<1>5. ASSUME SignupRows(c)
      PROVE  \A t \in Tokens : token'[t] # None =>
               /\ token'[t].user \in Rows'
               /\ token'[t].for = "verify" => address'[token'[t].user] # "none"
  <2> DEFINE u == req[c].user
  <2>1. u \in Rows /\ u \in Users
    BY <1>0, <1>5 DEF SignupRows, Holds, At
  <2>2. UNCHANGED token \/ (mint_one_time_token(u, "verify") /\ address' = [address EXCEPT ![u] = "unverified"])
    BY <1>5 DEF SignupRows
  <2> HIDE DEF u
  <2>3. CASE mint_one_time_token(u, "verify") /\ address' = [address EXCEPT ![u] = "unverified"]
    <3>1. address'[u] # "none"
      BY <1>0, <2>1, <2>3
    <3> QED
      BY <1>3, <2>1, <2>3, <3>1
  <2> QED
    BY <1>4, <2>2, <2>3
<1>6. ASSUME NEW email \in Emails, ForgotPassword(c, email)
      PROVE  \A t \in Tokens : token'[t] # None =>
               /\ token'[t].user \in Rows'
               /\ token'[t].for = "verify" => address'[token'[t].user] # "none"
  <2>1. Having(email) # {} /\ Having(email) \subseteq Nat /\ Having(email) \subseteq Rows
    BY <1>6, BoundAssumption DEF ForgotPassword, Having, Rows, Users
  <2>2. Least(Having(email)) \in Rows
    BY <2>1, LeastIn
  <2> QED
    BY <1>3, <1>6, <2>2 DEF ForgotPassword
<1>7. ASSUME VerifyConsume(c) \/ ResetSpend(c)
      PROVE  \A t \in Tokens : token'[t] # None => token[t] # None
  <2> DEFINE t == req[c].token
             x == [token[t] EXCEPT !.consumed = TRUE]
  <2>1. t \in Tokens /\ token[t] # None
    BY <1>0, <1>7 DEF VerifyConsume, ResetSpend, Holds, Presents, At
  <2>2. token' = [token EXCEPT ![t] = x]
    BY <1>7 DEF VerifyConsume, ResetSpend
  <2> HIDE DEF t, x
  <2> QED
    BY <1>0, <2>1, <2>2
<1> QED
  BY <1>1, <1>2, <1>4, <1>5, <1>6, <1>7, Touched DEF Referred

-----------------------------------------------------------------------------
\* The way of a request through its steps: that of a verification, of a reset, of the
\* creation of an account, and the steps that are on none of these ways.
Verifying(c) == (\E t \in Tokens : VerifyRead(c, t)) \/ VerifyConsume(c) \/ VerifyMark(c)
Renewing(c)  == (\E t \in Tokens : ResetRead(c, t)) \/ ResetSave(c) \/ ResetSpend(c)
Creating(c)  == \/ \E email \in Emails : \E name \in {email, 0} : SignupCheck(c, email, name)
                \/ SignupCreate(c) \/ CallbackFind(c) \/ CallbackName(c) \/ CallbackCreate(c)

LEMMA Ways ==
  ASSUME TypeOK, NEW c \in Clients, Request(c) \/ Step(c) \/ Crash(c)
  PROVE  /\ UNCHANGED req \/ Verifying(c) \/ Renewing(c) \/ Creating(c) \/ Crash(c)
            \/ /\ req[c].at \in {"idle", "google", "rows", "save", "link", "login"}
               /\ req'[c].at \in {"idle", "google", "find", "link", "login"}
         /\ Verifying(c) => /\ req[c].at \in {"idle", "consume", "mark"}
                            /\ req'[c].at \in {"idle", "consume", "mark"}
         /\ Renewing(c) => /\ req[c].at \in {"idle", "reset", "spend"}
                           /\ req'[c].at \in {"idle", "reset", "spend"}
         /\ Creating(c) => /\ req[c].at \in {"idle", "find", "create", "name", "insert"}
                           /\ req'[c].at \in {"idle", "rows", "link", "create", "name", "insert", "save"}
<1>0. req \in [Clients -> Requests] /\ Idle.at = "idle"
  BY DEF TypeOK, Requests, Steps, Idle
<1>1. ASSUME NEW step, Go(c, step) PROVE req'[c].at = step
  BY <1>0, <1>1 DEF Go, Requests
<1>2. ASSUME Answer(c) PROVE req'[c].at = "idle"
  BY <1>0, <1>2 DEF Answer
<1>3. ASSUME NEW u, NEW step, Hold(c, u, step) PROVE req'[c].at = step
  BY <1>0, <1>3 DEF Hold, Idle
<1>4. Verifying(c) => /\ req[c].at \in {"idle", "consume", "mark"}
                      /\ req'[c].at \in {"idle", "consume", "mark"}
  <2>1. ASSUME NEW t \in Tokens, VerifyRead(c, t)
        PROVE  req[c].at = "idle" /\ req'[c].at = "consume"
    BY <1>0, <2>1 DEF VerifyRead, At, Requests
  <2>2. VerifyConsume(c) => req[c].at = "consume" /\ req'[c].at = "mark"
    BY <1>1, Zenon DEF VerifyConsume, At
  <2>3. VerifyMark(c) => req[c].at = "mark" /\ req'[c].at = "idle"
    BY <1>2, Zenon DEF VerifyMark, At
  <2> QED
    BY <2>1, <2>2, <2>3 DEF Verifying
<1>5. Renewing(c) => /\ req[c].at \in {"idle", "reset", "spend"}
                     /\ req'[c].at \in {"idle", "reset", "spend"}
  <2>1. ASSUME NEW t \in Tokens, ResetRead(c, t)
        PROVE  req[c].at = "idle" /\ req'[c].at = "reset"
    BY <1>0, <2>1 DEF ResetRead, At, Requests
  <2>2. ResetSave(c) => req[c].at = "reset" /\ req'[c].at = "spend"
    BY <1>1, Zenon DEF ResetSave, At
  <2>3. ResetSpend(c) => req[c].at = "spend" /\ req'[c].at = "idle"
    BY <1>2, Zenon DEF ResetSpend, At
  <2> QED
    BY <2>1, <2>2, <2>3 DEF Renewing
<1>6. Creating(c) => /\ req[c].at \in {"idle", "find", "create", "name", "insert"}
                     /\ req'[c].at \in {"idle", "rows", "link", "create", "name", "insert", "save"}
  <2>1. ASSUME NEW email, NEW name, SignupCheck(c, email, name)
        PROVE  req[c].at = "idle" /\ req'[c].at = "create"
    BY <1>0, <2>1 DEF SignupCheck, At, Requests
  <2>2. ASSUME SignupCreate(c) PROVE req[c].at = "create" /\ req'[c].at \in {"rows", "idle"}
    <3>1. ASSUME NEW u, req' = [req EXCEPT ![c] = [Idle EXCEPT !.at = "rows", !.user = u,
                                                                 !.pw = <<"signup", 0>>, !.since = uses]]
          PROVE  req'[c].at = "rows"
      BY <1>0, <3>1 DEF Idle
    <3>2. At(c, "create")
      BY <2>2, Zenon DEF SignupCreate
    <3>3. \/ Answer(c)
          \/ \E u : req' = [req EXCEPT ![c] = [Idle EXCEPT !.at = "rows", !.user = u,
                                                            !.pw = <<"signup", 0>>, !.since = uses]]
      BY <2>2, Zenon DEF SignupCreate
    <3>4. req'[c].at = "idle" \/ req'[c].at = "rows"
      BY <1>2, <3>1, <3>3, Zenon
    <3> QED
      BY <3>2, <3>4 DEF At
  <2>3. CallbackFind(c) => req[c].at = "find" /\ req'[c].at \in {"link", "name"}
    BY <1>1, <1>3, Zenon DEF CallbackFind, At
  <2>4. CallbackName(c) => req[c].at = "name" /\ req'[c].at = "insert"
    BY <1>0 DEF CallbackName, At, Requests
  <2>5. ASSUME CallbackCreate(c) PROVE req[c].at = "insert" /\ req'[c].at \in {"save", "idle"}
    <3>1. ASSUME NEW u, req' = [req EXCEPT ![c].at = "save", ![c].user = u, ![c].since = uses]
          PROVE  req'[c].at = "save"
      BY <1>0, <3>1 DEF Requests
    <3>2. At(c, "insert")
      BY <2>5, Zenon DEF CallbackCreate
    <3>3. Answer(c) \/ \E u : req' = [req EXCEPT ![c].at = "save", ![c].user = u, ![c].since = uses]
      BY <2>5, Zenon DEF CallbackCreate
    <3>4. req'[c].at = "idle" \/ req'[c].at = "save"
      BY <1>2, <3>1, <3>3, Zenon
    <3> QED
      BY <3>2, <3>4 DEF At
  <2> QED
    BY <2>1, <2>2, <2>3, <2>4, <2>5 DEF Creating
<1>7. \/ UNCHANGED req \/ Verifying(c) \/ Renewing(c) \/ Creating(c) \/ Crash(c)
      \/ /\ req[c].at \in {"idle", "google", "rows", "save", "link", "login"}
         /\ req'[c].at \in {"idle", "google", "find", "link", "login"}
  <2>1. ASSUME NEW u \in Users, LoginRead(c, u)
        PROVE  req[c].at = "idle" /\ req'[c].at = "login"
    BY <1>3, <2>1, Zenon DEF LoginRead, At
  <2>2. ASSUME NEW s \in Subs, OauthCallback(c, s)
        PROVE  req[c].at = "google" /\ req'[c].at \in {"find", "login"}
    BY <1>0, <2>2 DEF OauthCallback, At, Idle
  <2>3. OauthStart(c) => req[c].at = "idle" /\ req'[c].at = "google"
    BY <1>1, Zenon DEF OauthStart, At
  <2>4. OauthRefused(c) => req[c].at = "google" /\ req'[c].at = "idle"
    BY <1>2, Zenon DEF OauthRefused, At
  <2>5. SignupRows(c) => req[c].at = "rows" /\ req'[c].at \in {"login", "idle"}
    BY <1>1, <1>2, Zenon DEF SignupRows, At
  <2>6. CallbackSave(c) => req[c].at = "save" /\ req'[c].at = "link"
    BY <1>0 DEF CallbackSave, At, Requests
  <2>7. CallbackLink(c) => req[c].at = "link" /\ req'[c].at \in {"login", "idle"}
    BY <1>1, <1>2, Zenon DEF CallbackLink, At
  <2>8. Login(c) => req[c].at = "login" /\ req'[c].at = "idle"
    BY <1>2, Zenon DEF Login, At
  <2>9. CASE Request(c)
    <3>1. (Logout(c) \/ Me(c) \/ \E email \in Emails : ForgotPassword(c, email)) => UNCHANGED req
      BY DEF Logout, Me, ForgotPassword
    <3> QED
      BY <2>1, <2>2, <2>3, <2>4, <2>9, <3>1 DEF Request, Verifying, Renewing, Creating
  <2>10. CASE Step(c)
    BY <2>5, <2>6, <2>7, <2>8, <2>10 DEF Step, Verifying, Renewing, Creating
  <2> QED
    BY <2>9, <2>10
<1> QED
  BY <1>4, <1>5, <1>6, <1>7

-----------------------------------------------------------------------------
\* Requests that are at one step are no more than the clients.
LEMMA Counted ==
  ASSUME TypeOK, NEW t \in Tokens
  PROVE  /\ IsFiniteSet(Resetting(t)) /\ IsFiniteSet(Spending(t))
         /\ Cardinality(Resetting(t)) \in Nat /\ Cardinality(Spending(t)) \in Nat
         /\ Cardinality(Clients) \in Nat /\ uses[t] \in Nat /\ crashes \in Nat
<1>1. Resetting(t) \subseteq Clients /\ Spending(t) \subseteq Clients
  BY DEF Resetting, Spending
<1>2. IsFiniteSet(Resetting(t)) /\ IsFiniteSet(Spending(t))
  BY <1>1, BoundAssumption, FS_Subset
<1> QED
  BY <1>2, BoundAssumption, FS_CardinalityType DEF TypeOK

\* The bounds of a token follow the step of the one request that moves.
LEMMA ResetsStep ==
  ASSUME Inv, NEW c \in Clients, Request(c) \/ Step(c) \/ Crash(c)
  PROVE  Resets'
<1>0. /\ TypeOK /\ Resets /\ Holds(c) /\ req[c] \in Requests /\ req \in [Clients -> Requests]
      /\ uses \in [Tokens -> Nat]
      /\ \A t \in Tokens : token[t] # None /\ token[t].consumed => token'[t] # None /\ token'[t].consumed
      /\ \A d \in Clients \ {c} : req'[d] = req[d]
  BY GrownStep, HoldsStep DEF Inv, TypeOK, Requests, Steps, Grown, Moves
<1> SUFFICES ASSUME NEW t \in Tokens
             PROVE  /\ uses'[t] + Cardinality(Resetting(t)') <= Cardinality(Clients) + crashes'
                    /\ (token'[t] = None \/ ~token'[t].consumed) =>
                         uses'[t] <= Cardinality(Spending(t)') + crashes'
  BY DEF Resets
<1> DEFINE R == Resetting(t)
           S == Spending(t)
           n == Cardinality(Clients)
           Due == token[t] = None \/ ~token[t].consumed
<1>1. /\ IsFiniteSet(R) /\ IsFiniteSet(S) /\ Cardinality(R) \in Nat /\ Cardinality(S) \in Nat
      /\ n \in Nat /\ uses[t] \in Nat /\ crashes \in Nat
  BY <1>0, Counted
<1>2. uses[t] + Cardinality(R) <= n + crashes /\ (Due => uses[t] <= Cardinality(S) + crashes)
  BY <1>0 DEF Resets
<1>3. Due' => Due
  BY <1>0
<1>4. ~Crash(c) => crashes' = crashes
  BY CrashStep
<1>5. CASE UNCHANGED req \/ (/\ req[c].at \notin {"reset", "spend"} /\ req'[c].at \notin {"reset", "spend"}
                             /\ ~Crash(c))
  <2>1. R' = R /\ S' = S
    BY <1>0, <1>5 DEF Resetting, Spending, At
  <2>2. uses' = uses
    <3>1. ~ResetSave(c)
      <4>1. ASSUME ResetSave(c) PROVE FALSE
        <5>1. req[c].at = "reset" /\ req' = [req EXCEPT ![c].at = "spend"]
          BY <4>1 DEF ResetSave, At, Go
        <5>2. req'[c].at = "spend"
          BY <1>0, <5>1 DEF Requests
        <5> QED
          BY <1>5, <5>1, <5>2
      <4> QED
        BY <4>1
    <3> QED
      BY <3>1, Touched
  <2>3. crashes' = crashes \/ crashes' = crashes + 1
    BY CrashStep
  <2> HIDE DEF R, S, n, Due
  <2>4. uses'[t] + Cardinality(R') <= n + crashes'
    BY <1>1, <1>2, <2>1, <2>2, <2>3
  <2>5. Due' => uses'[t] <= Cardinality(S') + crashes'
    BY <1>1, <1>2, <1>3, <2>1, <2>2, <2>3
  <2> QED
    BY <2>4, <2>5 DEF R, S, n, Due
<1>6. ASSUME NEW x \in Tokens, ResetRead(c, x)
      PROVE  /\ uses'[t] + Cardinality(Resetting(t)') <= Cardinality(Clients) + crashes'
             /\ (token'[t] = None \/ ~token'[t].consumed) =>
                  uses'[t] <= Cardinality(Spending(t)') + crashes'
  <2>1. /\ req[c].at = "idle" /\ req'[c].at = "reset" /\ req'[c].token = x
        /\ token[x] # None /\ ~token[x].consumed /\ token' = token /\ uses' = uses /\ crashes' = crashes
    BY <1>0, <1>6 DEF ResetRead, At, Requests, accounts, get_valid_one_time_token
  <2>2. S' = S /\ c \notin S /\ c \notin R
    BY <1>0, <2>1 DEF Spending, Resetting, At
  <2>3. CASE x # t
    <3>1. R' = R
      BY <1>0, <2>1, <2>3 DEF Resetting, At
    <3> QED
      BY <1>2, <2>1, <2>2, <3>1
  <2>4. CASE x = t
    <3>1. R' = R \cup {c} /\ R \cap S = {} /\ R \cup S \cup {c} \subseteq Clients
      BY <1>0, <2>1, <2>4 DEF Resetting, Spending, At
    <3>2. Due
      BY <2>1, <2>4
    <3> HIDE DEF R, S, Due
    <3>3. Cardinality(R') = Cardinality(R) + 1
      BY <1>1, <2>2, <3>1, FS_AddElement
    <3>4. IsFiniteSet(R \cup S) /\ Cardinality(R \cup S) = Cardinality(R) + Cardinality(S)
      BY <1>1, <3>1, FS_Union, FS_EmptySet
    <3>5. IsFiniteSet(R \cup S \cup {c}) /\ Cardinality(R \cup S \cup {c}) = Cardinality(R \cup S) + 1
      BY <2>2, <3>4, FS_AddElement
    <3>6. Cardinality(R \cup S \cup {c}) <= Cardinality(Clients)
      BY <3>1, BoundAssumption, FS_Subset
    <3>7. uses[t] <= Cardinality(S) + crashes
      BY <1>2, <3>2
    <3>8. uses'[t] + Cardinality(R') <= n + crashes'
      BY <1>1, <2>1, <3>3, <3>4, <3>5, <3>6, <3>7
    <3>9. uses'[t] <= Cardinality(S') + crashes'
      BY <2>1, <2>2, <3>7
    <3> QED
      BY <3>8, <3>9 DEF R, S
  <2> QED
    BY <2>3, <2>4
<1>7. CASE ResetSave(c)
  <2> DEFINE x == req[c].token
  <2>1. /\ req[c].at = "reset" /\ x \in Tokens /\ uses' = [uses EXCEPT ![x] = @ + 1]
        /\ token' = token /\ crashes' = crashes
        /\ req' = [req EXCEPT ![c].at = "spend"]
    BY <1>0, <1>7 DEF ResetSave, At, Holds, Presents, Go
  <2>2. req'[c].at = "spend" /\ req'[c].token = x
    BY <1>0, <2>1 DEF Requests
  <2>3. CASE x # t
    <3>1. R' = R /\ S' = S
      BY <1>0, <2>1, <2>2, <2>3 DEF Resetting, Spending, At
    <3>2. uses'[t] = uses[t]
      BY <1>0, <2>1, <2>3
    <3> QED
      BY <1>2, <2>1, <3>1, <3>2
  <2>4. CASE x = t
    <3>1. c \in R /\ R' = R \ {c} /\ c \notin S /\ S' = S \cup {c}
      BY <1>0, <2>1, <2>2, <2>4 DEF Resetting, Spending, At
    <3>2. uses'[t] = uses[t] + 1
      BY <1>0, <2>1, <2>4
    <3> HIDE DEF R, S
    <3>3. Cardinality(R') = Cardinality(R) - 1
      BY <1>1, <3>1, FS_RemoveElement
    <3>4. Cardinality(S') = Cardinality(S) + 1
      BY <1>1, <3>1, FS_AddElement
    <3>5. uses'[t] + Cardinality(R') <= n + crashes'
      BY <1>1, <1>2, <2>1, <3>2, <3>3
    <3>6. Due' => uses'[t] <= Cardinality(S') + crashes'
      BY <1>1, <1>2, <1>3, <2>1, <3>2, <3>4
    <3> QED
      BY <3>5, <3>6 DEF R, S
  <2> QED
    BY <2>3, <2>4
<1>8. CASE ResetSpend(c) \/ Crash(c)
  <2>0. Answer(c)
    BY <1>8, Zenon DEF ResetSpend, Crash
  <2>1. req'[c].at = "idle"
    BY <1>0, <2>0, AnswerHolds DEF Idle
  <2>2. R' = R \ {c} /\ S' = S \ {c}
    BY <1>0, <2>1 DEF Resetting, Spending, At
  <2>3. uses' = uses
    BY <1>8 DEF ResetSpend, Crash, accounts
  <2>4. Cardinality(R') <= Cardinality(R) /\ Cardinality(R') \in Nat
    <3> HIDE DEF R
    <3> QED
      BY <1>1, <2>2, FS_Subset, FS_CardinalityType
  <2>5. Cardinality(S') \in Nat /\ (Cardinality(S') = Cardinality(S)
                                    \/ (c \in S /\ Cardinality(S') = Cardinality(S) - 1))
    <3> HIDE DEF S
    <3>1. CASE c \in S
      BY <1>1, <2>2, <3>1, FS_RemoveElement, FS_CardinalityType
    <3>2. CASE c \notin S
      <4>1. S' = S
        BY <2>2, <3>2
      <4> QED
        BY <1>1, <4>1
    <3> QED
      BY <3>1, <3>2
  <2>6. crashes' = crashes \/ crashes' = crashes + 1
    BY CrashStep
  <2>7. uses'[t] + Cardinality(R') <= n + crashes'
    <3> HIDE DEF R, n
    <3> QED
      BY <1>1, <1>2, <2>3, <2>4, <2>6
  <2>8. CASE Crash(c)
    <3>1. crashes' = crashes + 1
      BY <2>8, CrashStep
    <3>2. Due' => uses'[t] <= Cardinality(S') + crashes'
      <4> HIDE DEF S, Due
      <4> QED
        BY <1>1, <1>2, <1>3, <2>3, <2>5, <3>1
    <3> QED
      BY <2>7, <3>2
  <2>9. CASE ResetSpend(c)
    <3>1. c \in S => token'[t] # None /\ token'[t].consumed
      <4>1. c \in S => req[c].token = t /\ token[t] # None
        BY <1>0, <2>9 DEF ResetSpend, Spending, At, Holds, Presents
      <4>2. token \in [Tokens -> Minted \cup {None}] /\ token' = [token EXCEPT ![req[c].token].consumed = TRUE]
        BY <1>0, <2>9 DEF ResetSpend, TypeOK
      <4>3. ASSUME c \in S PROVE token'[t] # None /\ token'[t].consumed
        <5> DEFINE m == [token[t] EXCEPT !.consumed = TRUE]
        <5>1. token[t] \in Minted
          BY <4>1, <4>2, <4>3
        <5>2. m \in Minted /\ m.consumed
          BY <5>1 DEF Minted
        <5>3. token' = [token EXCEPT ![t] = m]
          BY <4>1, <4>2, <4>3
        <5> HIDE DEF m
        <5> QED
          BY <1>0, <4>2, <5>2, <5>3, Rowed
      <4> QED
        BY <4>3
    <3>2. Due' => uses'[t] <= Cardinality(S') + crashes'
      <4>1. Due' => c \notin S
        BY <3>1
      <4> HIDE DEF S, Due
      <4> QED
        BY <1>1, <1>2, <1>3, <2>3, <2>5, <2>6, <4>1
    <3> QED
      BY <2>7, <3>2
  <2> QED
    BY <1>8, <2>8, <2>9
<1> QED
  <2>1. CASE Crash(c)
    BY <1>8, <2>1
  <2>2. CASE Renewing(c)
    BY <1>6, <1>7, <1>8, <2>2 DEF Renewing
  <2>3. CASE ~Crash(c) /\ ~Renewing(c)
    <3>1. UNCHANGED req \/ (req[c].at \notin {"reset", "spend"} /\ req'[c].at \notin {"reset", "spend"})
      BY <1>0, <2>3, Ways
    <3> QED
      BY <1>5, <2>3, <3>1
  <2> QED
    BY <2>1, <2>2, <2>3

\* Nothing is requested, stored or counted at first.
LEMMA InitInv ==
  ASSUME Init
  PROVE  Inv
<1>1. Idle \in Requests /\ Idle.at = "idle" /\ Idle.sub = None /\ Anonymous \in Sessions
  BY DEF Idle, Requests, Steps, Anonymous, Sessions
<1>2. TypeOK
  <2>1. req \in [Clients -> Requests] /\ sess \in [Clients -> Sessions]
    BY <1>1 DEF Init
  <2>2. /\ user \in [Users -> Accounts \cup {None}]
        /\ address \in [Users -> {"none", "unverified", "verified"}]
        /\ token \in [Tokens -> Minted \cup {None}] /\ link \in [Subs -> Users \cup {None}]
        /\ uses \in [Tokens -> Nat] /\ crashes \in 0 .. MaxCrashes
    BY BoundAssumption DEF Init
  <2> QED
    BY <2>1, <2>2 DEF TypeOK, Requests, Steps, Sessions
<1>3. \A c \in Clients : Holds(c)
  BY <1>1 DEF Init, Holds
<1>4. Referred
  BY DEF Init, Referred
<1>5. Resets
  <2> SUFFICES ASSUME NEW t \in Tokens
               PROVE  /\ uses[t] + Cardinality(Resetting(t)) <= Cardinality(Clients) + crashes
                      /\ (token[t] = None \/ ~token[t].consumed) =>
                           uses[t] <= Cardinality(Spending(t)) + crashes
    BY DEF Resets
  <2>1. Resetting(t) = {} /\ uses[t] = 0 /\ crashes = 0
    BY <1>1 DEF Init, Resetting, At
  <2>2. Cardinality(Resetting(t)) = 0
    BY <2>1, FS_EmptySet
  <2> QED
    BY <1>2, <2>1, <2>2, Counted
<1> QED
  BY <1>2, <1>3, <1>4, <1>5 DEF Inv

\* The requests, the rows and the counts fit together in every state.
THEOREM InvHolds == Spec => []Inv
<1>1. Inv /\ [Next]_vars => Inv'
  <2> SUFFICES ASSUME Inv, [Next]_vars PROVE Inv'
    OBVIOUS
  <2>1. ASSUME NEW c \in Clients, Request(c) \/ Step(c) \/ Crash(c) PROVE Inv'
    <3>1. Grown
      BY <2>1, GrownStep
    <3>2. \A d \in Clients : Holds(d)'
      BY <2>1, <3>1, HoldsStep
    <3>3. TypeOK' /\ Referred' /\ Resets'
      BY <2>1, TypeStep, ReferredStep, ResetsStep
    <3> QED
      BY <3>2, <3>3 DEF Inv
  <2>2. CASE UNCHANGED vars
    <3>1. TypeOK'
      BY <2>2 DEF Inv, TypeOK, vars
    <3>2. (\A c \in Clients : Holds(c))' /\ Referred'
      BY <2>2 DEF Inv, Holds, Presents, Referred, Rows, Unused, vars
    <3>3. Resets'
      BY <2>2 DEF Inv, Resets, Resetting, Spending, At, vars
    <3> QED
      BY <3>1, <3>2, <3>3 DEF Inv
  <2> QED
    BY <2>1, <2>2 DEF Next
<1> QED
  BY InitInv, <1>1, PTL DEF Spec

\* Every variable keeps its type; a password set with a token is numbered within the
\* bound, and a name is left for every Google sign-in.
THEOREM TypeCorrect == Spec => []TypeOK
<1>1. Inv => TypeOK
  BY DEF Inv
<1> QED
  BY InvHolds, <1>1, PTL

\* reset_password reads the token, saves the password and consumes the token in three
\* statements: whatever interleaves or dies, a token sets no more passwords than there
\* are clients and crashes.
THEOREM ResetsLimited == Spec => []ResetsBounded
<1>1. Inv => ResetsBounded
  <2> SUFFICES ASSUME Inv, NEW t \in Tokens PROVE uses[t] <= Cardinality(Clients) + crashes
    BY DEF ResetsBounded
  <2>1. uses[t] + Cardinality(Resetting(t)) <= Cardinality(Clients) + crashes
    BY DEF Inv, Resets
  <2>2. /\ Cardinality(Resetting(t)) \in Nat /\ Cardinality(Clients) \in Nat
        /\ uses[t] \in Nat /\ crashes \in Nat
    BY Counted DEF Inv
  <2> QED
    BY <2>1, <2>2
<1> QED
  BY InvHolds, <1>1, PTL

-----------------------------------------------------------------------------
\* A session that a Google identity opened is of the user it is linked to.
Opened == \A c \in Clients :
  sess[c].via # None => /\ sess[c].via \in Subs /\ sess[c].user # None
                        /\ link[sess[c].via] = sess[c].user

\* Only login() opens a session, and a link is final.
LEMMA OpenedStep ==
  ASSUME Inv, Opened, NEW c \in Clients, Request(c) \/ Step(c) \/ Crash(c)
  PROVE  Opened'
<1>0. /\ TypeOK /\ Holds(c) /\ req[c] \in Requests /\ sess \in [Clients -> Sessions]
      /\ \A s \in Subs : link[s] # None => link'[s] = link[s]
  BY LinkStep DEF Inv, TypeOK, Requests, Steps, Sessions
<1> SUFFICES ASSUME NEW d \in Clients
             PROVE  sess'[d].via # None => /\ sess'[d].via \in Subs /\ sess'[d].user # None
                                           /\ link'[sess'[d].via] = sess'[d].user
  BY DEF Opened
<1>1. CASE sess'[d] = sess[d]
  BY <1>0, <1>1 DEF Opened
<1>2. CASE sess'[d] = Anonymous
  BY <1>2 DEF Anonymous
<1>3. CASE Login(c) /\ d = c
  <2> DEFINE x == [user |-> req[c].user, pw |-> req[c].pw, via |-> req[c].sub,
              since |-> req[c].since]
  <2>1. sess'[c] = x
    <3>1. sess' = [sess EXCEPT ![c] = x]
      BY <1>3 DEF Login
    <3> HIDE DEF x
    <3> QED
      BY <1>0, <3>1
  <2>2. /\ req[c].user \in Rows /\ link' = link
        /\ req[c].sub # None => req[c].sub \in Subs /\ link[req[c].sub] = req[c].user
    BY <1>0, <1>3 DEF Login, Holds, At, Requests, accounts
  <2>3. req[c].user # None
    BY <1>0, <2>2, Rowed
  <2> QED
    BY <1>3, <2>1, <2>2, <2>3
<1> QED
  <2>1. CASE UNCHANGED sess
    BY <1>1, <2>1
  <2>2. CASE Logout(c) \/ Me(c)
    <3>1. sess' = [sess EXCEPT ![c] = Anonymous]
      BY <2>2 DEF Logout, Me
    <3>2. sess'[d] = Anonymous \/ sess'[d] = sess[d]
      BY <1>0, <3>1
    <3> QED
      BY <1>1, <1>2, <3>2
  <2>3. CASE Login(c)
    <3>1. d # c => sess'[d] = sess[d]
      BY <1>0, <2>3 DEF Login
    <3> QED
      BY <1>1, <1>3, <2>3, <3>1
  <2> QED
    BY <2>1, <2>2, <2>3, Touched

\* So it is in every state.
LEMMA OpenedHolds == Spec => []Opened
<1>1. Init => Opened
  BY DEF Init, Opened, Anonymous
<1>2. Inv /\ Opened /\ [Next]_vars => Opened'
  <2> SUFFICES ASSUME Inv, Opened, [Next]_vars PROVE Opened'
    OBVIOUS
  <2>1. CASE UNCHANGED vars
    BY <2>1 DEF Opened, vars
  <2> QED
    BY <2>1, OpenedStep DEF Next
<1> QED
  BY InvHolds, <1>1, <1>2, PTL DEF Spec

\* (provider, provider_user_id) is UNIQUE, and oauth_google_callback logs in the user it
\* linked: whoever signed in with a Google identity is in the account of its link,
\* whatever requests raced or died.
THEOREM IdentitiesAlone == Spec => []OneAccountPerIdentity
<1>1. Opened => OneAccountPerIdentity
  BY DEF Opened, OneAccountPerIdentity
<1> QED
  BY OpenedHolds, <1>1, PTL

-----------------------------------------------------------------------------
\* uses as it was in this state or an earlier one.
Earlier(since) == since \in [Tokens -> Nat] /\ \A t \in Tokens : since[t] <= uses[t]

\* A password that a token set has the number of one of its uses.
Numbered(pw) == pw[1] \in Tokens => pw[2] <= uses[pw[1]]

\* Whoever read user u with password pw when uses was since: unless that password has
\* been replaced, no token of the user has set one since then.
Seen(u, pw, since) ==
  /\ u \in Rows /\ pw \in Passwords /\ Numbered(pw) /\ Earlier(since)
  /\ pw = user[u].pw /\ ~Overwritten(u) =>
       \A t \in Tokens : token[t] # None /\ token[t].user = u => since[t] = uses[t]

Told(c) ==
  /\ req[c].at \in {"rows", "link", "login"} => Seen(req[c].user, req[c].pw, req[c].since)
  /\ req[c].at = "save" => Earlier(req[c].since)
  /\ sess[c].user # None => Seen(sess[c].user, sess[c].pw, sess[c].since)

Past ==
  /\ \A t \in Tokens : token[t] = None => uses[t] = 0
  /\ \A u \in Rows : Numbered(user[u].pw)

Informed == Past /\ \A c \in Clients : Told(c)

\* Passwords are set by inserts, by ResetSave, and by CallbackSave.
LEMMA SavedStep ==
  ASSUME Inv, NEW c \in Clients, Request(c) \/ Step(c) \/ Crash(c)
  PROVE  \/ /\ uses' = uses /\ \A u \in Rows : user'[u] = user[u]
            /\ \A u \in Rows' \ Rows : user'[u].pw[1] \in {"signup", "google"}
         \/ /\ ResetSave(c)
            /\ req[c].token \in Tokens /\ token[req[c].token] # None
            /\ token[req[c].token].user = req[c].user /\ req[c].user \in Rows
            /\ token' = token /\ Rows' = Rows
            /\ uses' = [uses EXCEPT ![req[c].token] = uses[req[c].token] + 1]
            /\ user'[req[c].user].pw = <<req[c].token, uses[req[c].token] + 1>>
            /\ \A u \in Rows : u # req[c].user => user'[u] = user[u]
         \/ /\ CallbackSave(c)
            /\ req[c].user \in Rows /\ token' = token /\ uses' = uses /\ Rows' = Rows
            /\ user'[req[c].user].pw = <<"google", 1>>
            /\ \A u \in Rows : u # req[c].user => user'[u] = user[u]
<1>0. /\ TypeOK /\ Holds(c) /\ Referred /\ Rows \subseteq Users
      /\ user \in [Users -> Accounts \cup {None}]
  BY Rowed DEF Inv, TypeOK
<1> DEFINE Kept == /\ uses' = uses /\ \A u \in Rows : user'[u] = user[u]
                   /\ \A u \in Rows' \ Rows : user'[u].pw[1] \in {"signup", "google"}
<1>1. UNCHANGED <<user, uses>> => Kept
  BY DEF Rows, Unused
<1>2. ASSUME NEW u \in Users, NEW name \in Names, NEW email \in Emails, NEW pw \in Passwords,
             pw[1] \in {"signup", "google"}, Insert(u, name, email, pw), uses' = uses
      PROVE  Kept
  BY <1>0, <1>2, Inserted
<1>3. CASE SignupCreate(c)
  <2>1. At(c, "create") /\ uses' = uses
    BY <1>3, Zenon DEF SignupCreate
  <2>2. req[c].email \in Emails /\ req[c].name \in Names
    BY <1>0, <2>1 DEF Holds, At
  <2>3. <<"signup", 0>> \in Passwords /\ <<"signup", 0>>[1] \in {"signup", "google"}
    BY DEF Passwords
  <2>4. \/ UNCHANGED user
        \/ \E u \in Users : Insert(u, req[c].name, req[c].email, <<"signup", 0>>)
    BY <1>3, Zenon DEF SignupCreate
  <2> HIDE DEF Kept
  <2> QED
    BY <1>1, <1>2, <2>1, <2>2, <2>3, <2>4 DEF Kept
<1>4. CASE CallbackCreate(c)
  <2>1. At(c, "insert") /\ uses' = uses
    BY <1>4, Zenon DEF CallbackCreate
  <2>2. req[c].email \in Emails /\ req[c].name \in Names
    BY <1>0, <2>1 DEF Holds, At
  <2>3. <<"google", 0>> \in Passwords /\ <<"google", 0>>[1] \in {"signup", "google"}
    BY DEF Passwords
  <2>4. \/ UNCHANGED user
        \/ \E u \in Users : Insert(u, req[c].name, req[c].email, <<"google", 0>>)
    BY <1>4, Zenon DEF CallbackCreate
  <2> HIDE DEF Kept
  <2> QED
    BY <1>1, <1>2, <2>1, <2>2, <2>3, <2>4 DEF Kept
<1>5. ASSUME NEW w \in Rows, NEW pw \in Passwords, user' = [user EXCEPT ![w].pw = pw]
      PROVE  /\ Rows' = Rows /\ user'[w].pw = pw
             /\ \A u \in Rows : u # w => user'[u] = user[u]
  <2> DEFINE a == [user[w] EXCEPT !.pw = pw]
  <2>1. user[w] \in Accounts
    BY <1>0, Rowed
  <2>2. a \in Accounts /\ a.pw = pw
    BY <2>1 DEF Accounts
  <2>3. user' = [user EXCEPT ![w] = a] /\ a # None /\ user[w] # None
    BY <1>0, <1>5, <2>1, <2>2, Rowed
  <2> HIDE DEF a
  <2> QED
    BY <1>0, <2>2, <2>3 DEF Rows, Unused
<1>6. CASE ResetSave(c)
  <2> DEFINE t == req[c].token
  <2>1. /\ At(c, "reset") /\ t \in Tokens /\ token[t] # None
        /\ token[t].user = req[c].user /\ req[c].user \in Rows
    BY <1>0, <1>6 DEF ResetSave, Holds, Presents, At, Referred
  <2>2. uses[t] + 1 \in 1 .. Cardinality(Clients) + MaxCrashes
    BY <1>0, <2>1, RoomLeft DEF Inv
  <2>3. <<t, uses[t] + 1>> \in Passwords
    BY <2>1, <2>2 DEF Passwords
  <2>4. /\ user' = [user EXCEPT ![req[c].user].pw = <<t, uses[t] + 1>>]
        /\ uses' = [uses EXCEPT ![t] = uses[t] + 1] /\ token' = token
    BY <1>6 DEF ResetSave
  <2>5. /\ Rows' = Rows /\ user'[req[c].user].pw = <<t, uses[t] + 1>>
        /\ \A u \in Rows : u # req[c].user => user'[u] = user[u]
    <3>1. user' = [user EXCEPT ![req[c].user].pw = <<t, uses[t] + 1>>]
      BY <2>4
    <3> HIDE DEF t
    <3> QED
      BY <1>5, <2>1, <2>3, <3>1
  <2> QED
    BY <1>6, <2>1, <2>4, <2>5
<1>7. CASE CallbackSave(c)
  <2>1. req[c].user \in Rows /\ <<"google", 1>> \in Passwords
    BY <1>0, <1>7 DEF CallbackSave, Holds, At, Passwords
  <2>2. /\ user' = [user EXCEPT ![req[c].user].pw = <<"google", 1>>]
        /\ token' = token /\ uses' = uses
    BY <1>7 DEF CallbackSave
  <2> QED
    BY <1>5, <1>7, <2>1, <2>2
<1> QED
  BY <1>1, <1>3, <1>4, <1>6, <1>7, Touched

\* A token is used only once it is minted, and its uses number the passwords it sets.
LEMMA PastStep ==
  ASSUME Inv, Past, NEW c \in Clients, Request(c) \/ Step(c) \/ Crash(c)
  PROVE  Past'
<1>0. /\ \A t \in Tokens : token[t] # None => token'[t] # None
      /\ uses \in [Tokens -> Nat] /\ Rows \subseteq Rows'
  BY GrownStep DEF Inv, TypeOK, Grown
<1>1. CASE /\ uses' = uses /\ \A u \in Rows : user'[u] = user[u]
           /\ \A u \in Rows' \ Rows : user'[u].pw[1] \in {"signup", "google"}
  BY <1>0, <1>1, TokenAssumption DEF Past, Numbered
<1>2. CASE /\ req[c].token \in Tokens /\ token[req[c].token] # None
           /\ token' = token /\ Rows' = Rows /\ req[c].user \in Rows
           /\ uses' = [uses EXCEPT ![req[c].token] = uses[req[c].token] + 1]
           /\ user'[req[c].user].pw = <<req[c].token, uses[req[c].token] + 1>>
           /\ \A u \in Rows : u # req[c].user => user'[u] = user[u]
  <2> DEFINE x == req[c].token
  <2>1. uses'[x] = uses[x] + 1 /\ \A t \in Tokens : t # x => uses'[t] = uses[t]
    BY <1>0, <1>2
  <2>2. \A t \in Tokens : token'[t] = None => uses'[t] = 0
    BY <1>2, <2>1 DEF Past
  <2>3. ASSUME NEW u \in Rows PROVE Numbered(user[u].pw)'
    <3>1. CASE u = req[c].user
      <4>1. user'[u].pw[1] = x /\ user'[u].pw[2] = uses'[x]
        BY <1>2, <2>1, <3>1
      <4>2. uses'[x] \in Nat
        BY <1>0, <1>2, <2>1
      <4> QED
        BY <4>1, <4>2 DEF Numbered
    <3>2. CASE u # req[c].user
      <4> DEFINE pw == user[u].pw
      <4>1. user'[u].pw = pw /\ pw \in Passwords /\ (pw[1] \in Tokens => pw[2] <= uses[pw[1]])
        BY <1>2, <3>2, Rowed DEF Past, Numbered, Inv, Accounts
      <4>2. pw[2] \in Nat
        BY <4>1, BoundAssumption, FS_CardinalityType DEF Passwords
      <4> HIDE DEF pw
      <4>3. pw[1] \in Tokens => pw[2] <= uses'[pw[1]]
        BY <1>0, <2>1, <4>1, <4>2
      <4> QED
        BY <4>1, <4>3 DEF Numbered
    <3> QED
      BY <3>1, <3>2
  <2> QED
    BY <1>2, <2>2, <2>3 DEF Past
<1>3. CASE /\ req[c].user \in Rows /\ token' = token /\ uses' = uses /\ Rows' = Rows
           /\ user'[req[c].user].pw = <<"google", 1>>
           /\ \A u \in Rows : u # req[c].user => user'[u] = user[u]
  BY <1>3, TokenAssumption DEF Past, Numbered
<1> QED
  BY <1>1, <1>2, <1>3, SavedStep, Zenon

\* What was seen of a user stays true: a reset sets a password nobody has seen.
LEMMA SeenStep ==
  ASSUME Inv, Past, NEW c \in Clients, Request(c) \/ Step(c) \/ Crash(c),
         NEW u, NEW pw, NEW since, Seen(u, pw, since)
  PROVE  /\ u \in Rows' /\ pw \in Passwords
         /\ pw[1] \in Tokens => pw[2] <= uses'[pw[1]]
         /\ since \in [Tokens -> Nat] /\ \A t \in Tokens : since[t] <= uses'[t]
         /\ pw = user'[u].pw /\ ~Overwritten(u)' =>
              \A t \in Tokens : token'[t] # None /\ token'[t].user = u => since[t] = uses'[t]
<1>0. /\ uses \in [Tokens -> Nat] /\ u \in Rows /\ u \in Rows' /\ pw \in Passwords
      /\ pw[1] \in Tokens => pw[2] <= uses[pw[1]]
      /\ since \in [Tokens -> Nat] /\ \A t \in Tokens : since[t] <= uses[t]
      /\ pw = user[u].pw /\ ~Overwritten(u) =>
           \A t \in Tokens : token[t] # None /\ token[t].user = u => since[t] = uses[t]
      /\ \A t \in Tokens : token[t] # None => token'[t] # None /\ token'[t].user = token[t].user
      /\ \A t \in Tokens : token[t] = None => uses[t] = 0
  BY GrownStep DEF Inv, TypeOK, Grown, Seen, Numbered, Earlier, Past
<1>1. pw[2] \in Nat
  BY <1>0, BoundAssumption, FS_CardinalityType DEF Passwords
<1>2. CASE uses' = uses /\ user'[u] = user[u]
  <2>1. Overwritten(u) => Overwritten(u)'
    BY <1>0, <1>2 DEF Overwritten
  <2>2. ASSUME pw = user'[u].pw, ~Overwritten(u)', NEW t \in Tokens, token'[t] # None,
               token'[t].user = u
        PROVE  since[t] = uses'[t]
    <3>1. CASE token[t] # None
      BY <1>0, <1>2, <2>1, <2>2, <3>1
    <3>2. CASE token[t] = None
      <4>1. uses[t] = 0 /\ since[t] \in Nat /\ since[t] <= uses[t]
        BY <1>0, <3>2
      <4> QED
        BY <1>2, <4>1
    <3> QED
      BY <3>1, <3>2
  <2> QED
    BY <1>0, <1>2, <2>2
<1>3. CASE /\ req[c].token \in Tokens /\ token[req[c].token] # None
           /\ token[req[c].token].user = req[c].user
           /\ token' = token
           /\ uses' = [uses EXCEPT ![req[c].token] = uses[req[c].token] + 1]
           /\ user'[req[c].user].pw = <<req[c].token, uses[req[c].token] + 1>>
           /\ \A v \in Rows : v # req[c].user => user'[v] = user[v]
  <2> DEFINE x == req[c].token
  <2>1. uses'[x] = uses[x] + 1 /\ \A t \in Tokens : t # x => uses'[t] = uses[t]
    BY <1>0, <1>3
  <2>2. \A t \in Tokens : uses[t] <= uses'[t] /\ uses[t] \in Nat /\ uses'[t] \in Nat
    BY <1>0, <2>1
  <2>3. /\ pw[1] \in Tokens => pw[2] <= uses'[pw[1]]
        /\ \A t \in Tokens : since[t] <= uses'[t]
    BY <1>0, <1>1, <2>2
  <2>4. u = req[c].user => pw # user'[u].pw
    <3>1. ASSUME pw = <<x, uses[x] + 1>> PROVE FALSE
      <4>1. pw[1] = x /\ pw[2] = uses[x] + 1
        BY <3>1
      <4>2. uses[x] + 1 <= uses[x] /\ uses[x] \in Nat
        BY <1>0, <1>3, <4>1
      <4> QED
        BY <4>2
    <3> QED
      BY <1>3, <3>1
  <2>5. ASSUME u # req[c].user, pw = user'[u].pw, ~Overwritten(u)', NEW t \in Tokens,
               token'[t] # None, token'[t].user = u
        PROVE  since[t] = uses'[t]
    <3>1. user'[u] = user[u]
      BY <1>0, <1>3, <2>5
    <3>2. Overwritten(u) => Overwritten(u)'
      <4>1. \A s \in Tokens : token[s].user = u => s # x
        BY <1>3, <2>5
      <4>2. \A s \in Tokens : token[s].user = u => uses'[s] = uses[s]
        BY <2>1, <4>1
      <4> QED
        BY <1>3, <3>1, <4>2 DEF Overwritten
    <3>3. t # x /\ uses'[t] = uses[t]
      BY <1>3, <2>1, <2>5
    <3> QED
      BY <1>0, <1>3, <2>5, <3>1, <3>2, <3>3
  <2> QED
    BY <1>0, <2>3, <2>4, <2>5
<1>4. CASE /\ token' = token /\ uses' = uses
           /\ user'[req[c].user].pw = <<"google", 1>>
           /\ \A v \in Rows : v # req[c].user => user'[v] = user[v]
  <2>1. CASE u # req[c].user
    BY <1>0, <1>2, <1>4, <2>1
  <2>2. CASE u = req[c].user
    <3>1. ASSUME ~Overwritten(u)', NEW t \in Tokens, token'[t] # None, token'[t].user = u
          PROVE  since[t] = uses'[t]
      <4>1. ~(uses'[t] > 0)
        BY <1>4, <2>2, <3>1 DEF Overwritten
      <4>2. since[t] \in Nat /\ uses[t] \in Nat /\ since[t] <= uses[t] /\ uses'[t] = uses[t]
        BY <1>0, <1>4
      <4> QED
        BY <4>1, <4>2
    <3> QED
      BY <1>0, <1>4, <3>1
  <2> QED
    BY <2>1, <2>2
<1> QED
  <2>1. CASE uses' = uses /\ \A v \in Rows : user'[v] = user[v]
    BY <1>0, <1>2, <2>1
  <2> QED
    BY <1>3, <1>4, <2>1, SavedStep, Zenon

\* What the request of c and every session know of their users stays true.
LEMMA ToldStep ==
  ASSUME Inv, Past, \A d \in Clients : Told(d),
         NEW c \in Clients, Request(c) \/ Step(c) \/ Crash(c)
  PROVE  \A d \in Clients : Told(d)'
<1> DEFINE Gone(u) == /\ user'[u].pw = <<"google", 1>>
                      /\ \E t \in Tokens :
                           token'[t] # None /\ token'[t].user = u /\ uses'[t] > 0
           Sees(u, pw, since) ==
             /\ u \in Rows' /\ pw \in Passwords
             /\ pw[1] \in Tokens => pw[2] <= uses'[pw[1]]
             /\ since \in [Tokens -> Nat] /\ \A t \in Tokens : since[t] <= uses'[t]
             /\ pw = user'[u].pw /\ ~Gone(u) =>
                  \A t \in Tokens : token'[t] # None /\ token'[t].user = u => since[t] = uses'[t]
           Since(since) == since \in [Tokens -> Nat] /\ \A t \in Tokens : since[t] <= uses'[t]
           Shows(d) == req'[d].at \in {"rows", "link", "login"} =>
                         Sees(req'[d].user, req'[d].pw, req'[d].since)
           Saved(d) == req'[d].at = "save" => Since(req'[d].since)
           Logged(d) == sess'[d].user # None => Sees(sess'[d].user, sess'[d].pw, sess'[d].since)
<1>0. /\ TypeOK /\ Holds(c) /\ Referred /\ Rows \subseteq Users /\ Rows \subseteq Rows'
      /\ req \in [Clients -> Requests] /\ sess \in [Clients -> Sessions]
      /\ uses \in [Tokens -> Nat] /\ uses' \in [Tokens -> Nat]
      /\ \A d \in Clients \ {c} : req'[d] = req[d]
  BY GrownStep, HoldsStep, UserStep, Rowed
     DEF Inv, TypeOK, Requests, Steps, Sessions, Grown, Moves
<1>1. ASSUME NEW u, NEW pw, NEW since, Seen(u, pw, since) PROVE Sees(u, pw, since)
  BY <1>1, SeenStep DEF Overwritten
<1>2. ASSUME uses' = uses, NEW u \in Rows PROVE Sees(u, user[u].pw, uses)
  <2> DEFINE pw == user[u].pw
  <2>1. pw \in Passwords /\ (pw[1] \in Tokens => pw[2] <= uses[pw[1]])
    BY <1>0, Rowed DEF Past, Numbered, Accounts
  <2> HIDE DEF pw
  <2>2. Sees(u, pw, uses)
    BY <1>0, <1>2, <2>1
  <2> QED
    BY <2>2 DEF pw
<1>3. ASSUME uses' = uses, NEW u \in Rows' PROVE Sees(u, <<"signup", 0>>, uses)
  <2> DEFINE pw == <<"signup", 0>>
  <2>1. pw \in Passwords /\ pw[1] \notin Tokens
    BY TokenAssumption DEF Passwords
  <2> HIDE DEF pw
  <2>2. Sees(u, pw, uses)
    BY <1>0, <1>3, <2>1
  <2> QED
    BY <2>2 DEF pw
<1>4. ASSUME NEW since, Earlier(since) PROVE Since(since)
  <2>1. \A t \in Tokens : uses[t] <= uses'[t] /\ uses[t] \in Nat /\ uses'[t] \in Nat
    <3>1. CASE uses' = uses
      BY <1>0, <3>1
    <3>2. CASE ResetSave(c)
      BY <1>0, <3>2 DEF ResetSave
    <3> QED
      BY <3>1, <3>2, Touched
  <2> QED
    BY <1>4, <2>1 DEF Earlier
<1>5. ASSUME NEW d \in Clients, Shows(d), Saved(d), Logged(d) PROVE Told(d)'
  BY <1>5 DEF Told, Seen, Numbered, Earlier, Overwritten
<1>6. ASSUME NEW d \in Clients PROVE Logged(d)
  <2>1. Told(d)
    OBVIOUS
  <2> HIDE DEF Sees
  <2>2. CASE sess'[d] = sess[d]
    BY <1>1, <2>1, <2>2 DEF Told
  <2>3. CASE sess'[d] = Anonymous
    BY <2>3 DEF Anonymous
  <2>4. CASE Login(c) /\ d = c
    <3> DEFINE x == [user |-> req[c].user, pw |-> req[c].pw, via |-> req[c].sub,
                     since |-> req[c].since]
    <3>1. sess'[c] = x
      <4>1. sess' = [sess EXCEPT ![c] = x]
        BY <2>4 DEF Login
      <4> HIDE DEF x
      <4> QED
        BY <1>0, <4>1
    <3>2. Seen(req[c].user, req[c].pw, req[c].since)
      BY <2>1, <2>4 DEF Told, Login, At
    <3> QED
      BY <1>1, <2>4, <3>1, <3>2
  <2>5. CASE Login(c)
    <3>1. d # c => sess'[d] = sess[d]
      BY <1>0, <2>5 DEF Login
    <3> QED
      BY <2>2, <2>4, <2>5, <3>1
  <2>6. CASE Logout(c) \/ Me(c)
    <3>1. sess' = [sess EXCEPT ![c] = Anonymous]
      BY <2>6 DEF Logout, Me
    <3>2. sess'[d] = Anonymous \/ sess'[d] = sess[d]
      BY <1>0, <3>1
    <3> QED
      BY <2>2, <2>3, <3>2
  <2>7. CASE UNCHANGED sess
    BY <2>2, <2>7
  <2> HIDE DEF Logged
  <2> QED
    BY <2>5, <2>6, <2>7, Touched
<1>7. ASSUME NEW d \in Clients, req'[d] = req[d] PROVE Shows(d) /\ Saved(d)
  <2>1. Told(d)
    OBVIOUS
  <2> HIDE DEF Sees, Since
  <2> QED
    BY <1>1, <1>4, <1>7, <2>1 DEF Told
<1>8. Shows(c) /\ Saved(c)
  <2> HIDE DEF Sees, Since
  <2>0. Told(c)
    OBVIOUS
  <2>1. ASSUME NEW r, req' = [req EXCEPT ![c] = r] PROVE req'[c] = r
    BY <1>0, <2>1
  <2>2. ASSUME NEW u \in Rows, NEW step \in {"link", "login"}, Hold(c, u, step), uses' = uses
        PROVE  Shows(c) /\ Saved(c)
    <3> DEFINE r == [Idle EXCEPT !.at = step, !.user = u, !.pw = user[u].pw, !.since = uses,
                                 !.sub = req[c].sub]
    <3>1. req' = [req EXCEPT ![c] = r]
      BY <2>2, Zenon DEF Hold
    <3>2. r.at = step /\ r.user = u /\ r.pw = user[u].pw /\ r.since = uses
      BY DEF Idle
    <3> HIDE DEF r
    <3>3. req'[c] = r
      BY <2>1, <3>1
    <3> QED
      BY <1>2, <2>2, <3>2, <3>3
  <2>3. ASSUME NEW u \in Users, LoginRead(c, u) PROVE Shows(c) /\ Saved(c)
    <3>1. u \in Rows /\ Hold(c, u, "login") /\ uses' = uses
      BY <2>3 DEF LoginRead, accounts
    <3> QED
      BY <2>2, <3>1
  <2>4. ASSUME NEW s \in Subs, OauthCallback(c, s) PROVE Shows(c) /\ Saved(c)
    <3>1. CASE link[s] # None
      <4> DEFINE u == link[s]
                 r == [Idle EXCEPT !.at = "login", !.sub = s, !.user = u, !.pw = user[u].pw,
                                   !.since = uses]
      <4>1. req' = [req EXCEPT ![c] = r] /\ uses' = uses
        BY <2>4, <3>1 DEF OauthCallback, accounts
      <4>2. r.at = "login" /\ r.user = u /\ r.pw = user[u].pw /\ r.since = uses
        BY DEF Idle
      <4>3. u \in Rows
        BY <1>0, <3>1 DEF Referred
      <4> HIDE DEF r, u
      <4>4. req'[c] = r
        BY <2>1, <4>1
      <4> QED
        BY <1>2, <4>1, <4>2, <4>3, <4>4
    <3>2. CASE link[s] = None
      <4>1. req'[c].at = "find"
        BY <1>0, <2>4, <3>2 DEF OauthCallback, Idle
      <4> QED
        BY <4>1
    <3> QED
      BY <3>1, <3>2
  <2>5. CASE SignupCreate(c)
    <3>1. ASSUME NEW u \in Users, Insert(u, req[c].name, req[c].email, <<"signup", 0>>),
                 req' = [req EXCEPT ![c] = [Idle EXCEPT !.at = "rows", !.user = u,
                                              !.pw = <<"signup", 0>>, !.since = uses]]
          PROVE  Shows(c) /\ Saved(c)
      <4> DEFINE r == [Idle EXCEPT !.at = "rows", !.user = u, !.pw = <<"signup", 0>>,
                                   !.since = uses]
      <4>1. req'[c] = r
        BY <2>1, <3>1
      <4>2. r.at = "rows" /\ r.user = u /\ r.pw = <<"signup", 0>> /\ r.since = uses
        BY DEF Idle
      <4>3. uses' = uses /\ At(c, "create")
        BY <2>5, Zenon DEF SignupCreate
      <4>4. u \in Rows'
        <5>1. req[c].email \in Emails /\ req[c].name \in Names /\ <<"signup", 0>> \in Passwords
          BY <1>0, <4>3 DEF Holds, At, Passwords
        <5> QED
          BY <1>0, <3>1, <5>1, Inserted
      <4> HIDE DEF r
      <4> QED
        BY <1>3, <4>1, <4>2, <4>3, <4>4
    <3>2. Answer(c) => req'[c].at = "idle"
      BY <1>0 DEF Answer, Idle
    <3>3. \/ Answer(c)
          \/ \E u \in Users :
               /\ Insert(u, req[c].name, req[c].email, <<"signup", 0>>)
               /\ req' = [req EXCEPT ![c] = [Idle EXCEPT !.at = "rows", !.user = u,
                                               !.pw = <<"signup", 0>>, !.since = uses]]
      BY <2>5, Zenon DEF SignupCreate
    <3>4. req'[c].at = "idle" => Shows(c) /\ Saved(c)
      OBVIOUS
    <3> HIDE DEF Shows, Saved
    <3> QED
      BY <3>1, <3>2, <3>3, <3>4, Zenon
  <2>6. CASE SignupRows(c) \/ CallbackLink(c)
    <3>1. ASSUME Go(c, "login") PROVE Shows(c) /\ Saved(c)
      <4>1. /\ req'[c].at = "login" /\ req'[c].user = req[c].user
            /\ req'[c].pw = req[c].pw /\ req'[c].since = req[c].since
        BY <1>0, <3>1 DEF Go, Requests
      <4>2. req[c].at \in {"rows", "link"}
        BY <2>6 DEF SignupRows, CallbackLink, At
      <4> QED
        BY <1>1, <2>0, <4>1, <4>2 DEF Told
    <3>2. Answer(c) => req'[c].at = "idle"
      BY <1>0 DEF Answer, Idle
    <3>3. Answer(c) \/ Go(c, "login")
      BY <2>6, Zenon DEF SignupRows, CallbackLink
    <3> QED
      BY <3>1, <3>2, <3>3
  <2>7. CASE CallbackFind(c)
    <3>1. ASSUME Having(req[c].email) # {}, Hold(c, Least(Having(req[c].email)), "link")
          PROVE  Shows(c) /\ Saved(c)
      <4>1. Having(req[c].email) \subseteq Nat /\ Having(req[c].email) \subseteq Rows
        BY BoundAssumption DEF Having, Rows, Users
      <4>2. Least(Having(req[c].email)) \in Rows /\ uses' = uses
        BY <2>7, <3>1, <4>1, LeastIn DEF CallbackFind, accounts
      <4> QED
        BY <2>2, <3>1, <4>2
    <3>2. Go(c, "name") => req'[c].at = "name"
      BY <1>0 DEF Go, Requests
    <3>3. \/ Having(req[c].email) # {} /\ Hold(c, Least(Having(req[c].email)), "link")
          \/ Go(c, "name")
      BY <2>7, Zenon DEF CallbackFind
    <3> QED
      BY <3>1, <3>2, <3>3
  <2>8. CASE CallbackCreate(c)
    <3>1. ASSUME NEW u, req' = [req EXCEPT ![c].at = "save", ![c].user = u, ![c].since = uses]
          PROVE  Shows(c) /\ Saved(c)
      <4>1. req'[c].at = "save" /\ req'[c].since = uses
        BY <1>0, <3>1 DEF Requests
      <4>2. Earlier(uses)
        BY <1>0 DEF Earlier
      <4> QED
        BY <1>4, <4>1, <4>2
    <3>2. Answer(c) => req'[c].at = "idle"
      BY <1>0 DEF Answer, Idle
    <3>3. \/ Answer(c)
          \/ \E u : req' = [req EXCEPT ![c].at = "save", ![c].user = u, ![c].since = uses]
      BY <2>8, Zenon DEF CallbackCreate
    <3>4. req'[c].at = "idle" => Shows(c) /\ Saved(c)
      OBVIOUS
    <3> HIDE DEF Shows, Saved
    <3> QED
      BY <3>1, <3>2, <3>3, <3>4, Zenon
  <2>9. CASE CallbackSave(c)
    <3> DEFINE w == req[c].user
               pw == <<"google", 1>>
    <3>1. /\ req'[c].at = "link" /\ req'[c].user = w /\ req'[c].pw = pw
          /\ req'[c].since = req[c].since /\ uses' = uses
      BY <1>0, <2>9 DEF CallbackSave, Requests
    <3>2. w \in Rows /\ w \in Rows' /\ Earlier(req[c].since)
      BY <1>0, <2>0, <2>9 DEF CallbackSave, At, Holds, Told
    <3>3. pw \in Passwords /\ pw[1] \notin Tokens
      BY TokenAssumption DEF Passwords
    <3>4. ASSUME user'[w].pw = pw, ~Gone(w), NEW t \in Tokens, token'[t] # None,
                 token'[t].user = w
          PROVE  req[c].since[t] = uses'[t]
      <4>1. ~(uses'[t] > 0)
        BY <3>4
      <4>2. /\ req[c].since[t] \in Nat /\ uses'[t] \in Nat
            /\ req[c].since[t] <= uses'[t]
        BY <1>0, <3>1, <3>2 DEF Earlier
      <4> QED
        BY <4>1, <4>2
    <3> HIDE DEF w, pw, Gone
    <3>5. Sees(w, pw, req[c].since)
      <4>1. Since(req[c].since)
        BY <1>4, <3>2
      <4> QED
        BY <3>2, <3>3, <3>4, <4>1 DEF Sees, Since
    <3> QED
      BY <3>1, <3>5
  <2>10. CASE UNCHANGED req
    BY <1>7, <2>10
  <2>11. CASE req'[c].at \in {"idle", "consume", "mark", "reset", "spend", "google", "find",
                              "create", "name", "insert"}
    BY <2>11
  <2>12. ASSUME Request(c) \/ Step(c) \/ Crash(c)
         PROVE  \/ UNCHANGED req
                \/ req'[c].at \in {"idle", "consume", "mark", "reset", "spend", "google", "find",
                                   "create", "name", "insert"}
                \/ \E u \in Users : LoginRead(c, u)
                \/ \E s \in Subs : OauthCallback(c, s)
                \/ SignupCreate(c) \/ SignupRows(c) \/ CallbackLink(c) \/ CallbackFind(c)
                \/ CallbackCreate(c) \/ CallbackSave(c)
    <3>1. Crash(c) \/ Login(c) => req'[c].at = "idle"
      BY <1>0 DEF Crash, Login, Answer, Idle
    <3>2. ASSUME NEW email \in Emails, NEW name \in {email, 0}, SignupCheck(c, email, name)
          PROVE  req'[c].at = "create"
      BY <1>0, <3>2 DEF SignupCheck, Requests
    <3>3. CallbackName(c) => req'[c].at = "insert"
      BY <1>0 DEF CallbackName, Requests
    <3>4. OauthStart(c) \/ OauthRefused(c) => req'[c].at \in {"google", "idle"}
      BY <1>0 DEF OauthStart, OauthRefused, Go, Answer, Idle, Requests
    <3>5. Verifying(c) \/ Renewing(c) =>
            req'[c].at \in {"idle", "consume", "mark", "reset", "spend"}
      BY <1>0, Ways
    <3>6. (Logout(c) \/ Me(c) \/ \E email \in Emails : ForgotPassword(c, email)) => UNCHANGED req
      BY DEF Logout, Me, ForgotPassword
    <3> QED
      BY <2>12, <3>1, <3>2, <3>3, <3>4, <3>5, <3>6 DEF Request, Step, Verifying, Renewing
  <2> HIDE DEF Shows, Saved
  <2> QED
    BY <2>3, <2>4, <2>5, <2>6, <2>7, <2>8, <2>9, <2>10, <2>11, <2>12, Zenon
<1> HIDE DEF Shows, Saved, Logged
<1> QED
  BY <1>0, <1>5, <1>6, <1>7, <1>8

\* So it is in every state.
LEMMA ToldHolds == Spec => []Informed
<1>1. Init => Informed
  BY DEF Init, Informed, Past, Told, Idle, Anonymous, Rows, Unused
<1>2. Inv /\ Informed /\ [Next]_vars => Informed'
  <2> SUFFICES ASSUME Inv, Past, \A c \in Clients : Told(c), [Next]_vars
               PROVE  Past' /\ \A c \in Clients : Told(c)'
    BY DEF Informed
  <2>1. CASE UNCHANGED vars
    <3>1. /\ user' = user /\ token' = token /\ sess' = sess /\ req' = req /\ uses' = uses
          /\ Rows' = Rows
      BY <2>1 DEF Rows, Unused, vars
    <3>2. Past'
      BY <3>1 DEF Past, Numbered
    <3>3. ASSUME NEW c \in Clients PROVE Told(c)'
      <4>1. Told(c)
        OBVIOUS
      <4> QED
        BY <3>1, <4>1 DEF Told, Seen, Earlier, Numbered, Overwritten
    <3> QED
      BY <3>2, <3>3
  <2>2. ASSUME NEW c \in Clients, Request(c) \/ Step(c) \/ Crash(c)
        PROVE  Past' /\ \A d \in Clients : Told(d)'
    BY <2>2, PastStep, ToldStep
  <2> QED
    BY <2>1, <2>2 DEF Next
<1> QED
  BY InvHolds, <1>1, <1>2, PTL DEF Spec

\* get_user compares the password a session was opened with, which is that of the user
\* object read before login(), with the row as it is: a reset ends every session of the
\* account, and every sign-in that had passed its check before the reset saved, unless a
\* Google sign-in that had just created the account overwrote the reset.
THEOREM ResetsEndSessions == Spec => []ResetEndsSessions
<1>1. Informed /\ TypeOK => ResetEndsSessions
  BY DEF Informed, ResetEndsSessions, Told, Seen, Live
<1>2. Inv => TypeOK
  BY DEF Inv
<1> QED
  BY InvHolds, ToldHolds, <1>1, <1>2, PTL

-----------------------------------------------------------------------------
\* The requests that found no account with an address and have not inserted one.
Creators(e) == {c \in Clients : req[c].at \in {"create", "name", "insert"} /\ req[c].email = e}

\* Each account of an address was inserted by a client whose check preceded the first.
Populated == \A e \in Emails :
  Having(e) # {} => /\ IsFiniteSet(Having(e))
                    /\ Cardinality(Having(e)) + Cardinality(Creators(e)) <= Cardinality(Clients)

\* A step leaves the accounts of an address alone, or inserts one for the request that
\* is to create it, and moves that on.
LEMMA HavingStep ==
  ASSUME Inv, NEW c \in Clients, Request(c) \/ Step(c) \/ Crash(c)
  PROVE  \/ \A e \in Emails : Having(e)' = Having(e)
         \/ /\ req[c].at \in {"create", "insert"} /\ req'[c].at \in {"rows", "save"}
            /\ \E u \in Users \ Rows : \A e \in Emails :
                 Having(e)' = Having(e) \cup (IF e = req[c].email THEN {u} ELSE {})
<1>0. /\ TypeOK /\ Holds(c) /\ req[c] \in Requests /\ req \in [Clients -> Requests]
      /\ user \in [Users -> Accounts \cup {None}]
  BY DEF Inv, TypeOK, Requests, Steps
<1>1. ASSUME Rows' = Rows PROVE \A e \in Emails : Having(e)' = Having(e)
  BY <1>1, UserStep DEF Having
<1>2. ASSUME UNCHANGED user PROVE \A e \in Emails : Having(e)' = Having(e)
  BY <1>2 DEF Having, Rows, Unused
<1>3. ASSUME NEW u \in Users, NEW name \in Names, NEW email \in Emails, NEW pw \in Passwords,
             Insert(u, name, email, pw)
      PROVE  /\ u \in Users \ Rows
             /\ \A e \in Emails : Having(e)' = Having(e) \cup (IF e = email THEN {u} ELSE {})
  <2>1. /\ u \notin Rows /\ Rows' = Rows \cup {u} /\ user'[u].email = email
        /\ \A v \in Rows : user'[v] = user[v]
    BY <1>0, <1>3, Inserted
  <2> QED
    BY <2>1 DEF Having
<1>4. CASE SignupCreate(c)
  <2>1. At(c, "create")
    BY <1>4, Zenon DEF SignupCreate
  <2>2. req[c].email \in Emails /\ req[c].name \in Names
    BY <1>0, <2>1 DEF Holds, At
  <2>3. <<"signup", 0>> \in Passwords
    BY DEF Passwords
  <2>4. ASSUME NEW u \in Users, Insert(u, req[c].name, req[c].email, <<"signup", 0>>),
               req' = [req EXCEPT ![c] = [Idle EXCEPT !.at = "rows", !.user = u,
                                                      !.pw = <<"signup", 0>>, !.since = uses]]
        PROVE  /\ req[c].at \in {"create", "insert"} /\ req'[c].at \in {"rows", "save"}
               /\ \E x \in Users \ Rows : \A e \in Emails :
                    Having(e)' = Having(e) \cup (IF e = req[c].email THEN {x} ELSE {})
    <3>1. req'[c].at = "rows"
      BY <1>0, <2>4 DEF Idle
    <3>2. /\ u \in Users \ Rows
          /\ \A e \in Emails : Having(e)' = Having(e) \cup (IF e = req[c].email THEN {u} ELSE {})
      BY <1>3, <2>2, <2>3, <2>4
    <3> QED
      BY <2>1, <3>1, <3>2 DEF At
  <2>5. \/ UNCHANGED user
        \/ \E u \in Users :
             /\ Insert(u, req[c].name, req[c].email, <<"signup", 0>>)
             /\ req' = [req EXCEPT ![c] = [Idle EXCEPT !.at = "rows", !.user = u,
                                                        !.pw = <<"signup", 0>>, !.since = uses]]
    BY <1>4, Zenon DEF SignupCreate
  <2> QED
    BY <1>2, <2>4, <2>5, Zenon
<1>5. CASE CallbackCreate(c)
  <2>1. At(c, "insert")
    BY <1>5, Zenon DEF CallbackCreate
  <2>2. req[c].email \in Emails /\ req[c].name \in Names
    BY <1>0, <2>1 DEF Holds, At
  <2>3. <<"google", 0>> \in Passwords
    BY DEF Passwords
  <2>4. ASSUME NEW u \in Users, Insert(u, req[c].name, req[c].email, <<"google", 0>>),
               req' = [req EXCEPT ![c].at = "save", ![c].user = u, ![c].since = uses]
        PROVE  /\ req[c].at \in {"create", "insert"} /\ req'[c].at \in {"rows", "save"}
               /\ \E x \in Users \ Rows : \A e \in Emails :
                    Having(e)' = Having(e) \cup (IF e = req[c].email THEN {x} ELSE {})
    <3>1. req'[c].at = "save"
      BY <1>0, <2>4 DEF Requests
    <3>2. /\ u \in Users \ Rows
          /\ \A e \in Emails : Having(e)' = Having(e) \cup (IF e = req[c].email THEN {u} ELSE {})
      BY <1>3, <2>2, <2>3, <2>4
    <3> QED
      BY <2>1, <3>1, <3>2 DEF At
  <2>5. \/ UNCHANGED user
        \/ \E u \in Users :
             /\ Insert(u, req[c].name, req[c].email, <<"google", 0>>)
             /\ req' = [req EXCEPT ![c].at = "save", ![c].user = u, ![c].since = uses]
    BY <1>5, Zenon DEF CallbackCreate
  <2> QED
    BY <1>2, <2>4, <2>5, Zenon
<1>6. CASE ResetSave(c) \/ CallbackSave(c)
  <2>1. \E u \in Rows : \E pw : user' = [user EXCEPT ![u].pw = pw]
    <3>1. req[c].user \in Rows
      BY <1>0, <1>6 DEF ResetSave, CallbackSave, Holds, Presents, At, Inv, Referred
    <3>2. \E pw : user' = [user EXCEPT ![req[c].user].pw = pw]
      BY <1>6 DEF ResetSave, CallbackSave
    <3> QED
      BY <3>1, <3>2
  <2>2. PICK u \in Rows : \E pw : user' = [user EXCEPT ![u].pw = pw]
    BY <2>1
  <2>3. PICK pw : user' = [user EXCEPT ![u].pw = pw]
    BY <2>2
  <2> DEFINE x == [user[u] EXCEPT !.pw = pw]
  <2>4. x # None
    <3>1. user'[u] = x /\ u \in Rows'
      <4>1. u \in Users /\ user' = [user EXCEPT ![u] = x]
        BY <1>0, <2>3, Rowed
      <4> HIDE DEF x
      <4> QED
        BY <1>0, <4>1, UserStep
    <3> QED
      BY <3>1 DEF Rows, Unused
  <2>5. user' = [user EXCEPT ![u] = x]
    BY <2>3
  <2> HIDE DEF x
  <2>6. Rows' = Rows
    BY <1>0, <2>4, <2>5 DEF Rows, Unused
  <2> QED
    BY <1>1, <2>6
<1> QED
  BY <1>2, <1>4, <1>5, <1>6, Touched

\* Once an address has an account, no request comes to create another.
LEMMA CreatorsStep ==
  ASSUME Inv, NEW c \in Clients, Request(c) \/ Step(c) \/ Crash(c), NEW e \in Emails,
         Having(e) # {}
  PROVE  Creators(e)' \subseteq Creators(e)
<1>0. /\ TypeOK /\ req[c] \in Requests /\ req \in [Clients -> Requests]
      /\ \A d \in Clients \ {c} : req'[d] = req[d]
  BY GrownStep, HoldsStep DEF Inv, TypeOK, Requests, Steps, Moves
<1>1. ASSUME req'[c].at \in {"create", "name", "insert"}, req'[c].email = e
      PROVE  c \in Creators(e)
  <2>1. CASE UNCHANGED req
    BY <1>1, <2>1 DEF Creators
  <2>2. CASE Creating(c)
    <3>1. ASSUME NEW email \in Emails, NEW name \in {email, 0}, SignupCheck(c, email, name)
          PROVE  FALSE
      <4>1. Having(email) = {} /\ req'[c].email = email
        BY <1>0, <3>1 DEF SignupCheck, Requests
      <4> QED
        BY <1>1, <4>1
    <3>2. CASE SignupCreate(c)
      <4>1. Answer(c) \/ \E u : req' = [req EXCEPT ![c] = [Idle EXCEPT !.at = "rows", !.user = u,
                                                            !.pw = <<"signup", 0>>, !.since = uses]]
        BY <3>2, Zenon DEF SignupCreate
      <4>2. ASSUME NEW u, req' = [req EXCEPT ![c] = [Idle EXCEPT !.at = "rows", !.user = u,
                                                                !.pw = <<"signup", 0>>, !.since = uses]]
            PROVE  req'[c].at = "rows"
        BY <1>0, <4>2 DEF Idle
      <4>3. Answer(c) => req'[c].at = "idle"
        BY <1>0 DEF Answer, Idle
      <4>4. req'[c].at = "idle" \/ req'[c].at = "rows"
        BY <4>1, <4>2, <4>3, Zenon
      <4> QED
        BY <1>1, <4>4
    <3>3. CASE CallbackFind(c)
      <4>1. ASSUME NEW u, NEW step, step = "link", Hold(c, u, step) PROVE req'[c].at = "link"
        BY <1>0, <4>1 DEF Hold, Idle
      <4>2. CASE Having(req[c].email) = {} /\ Go(c, "name")
        <5>1. req'[c].email = req[c].email
          BY <1>0, <4>2 DEF Go, Requests
        <5> QED
          BY <1>1, <4>2, <5>1
      <4>3. \/ \E u : Hold(c, u, "link")
            \/ Having(req[c].email) = {} /\ Go(c, "name")
        BY <3>3, Zenon DEF CallbackFind
      <4> QED
        BY <1>1, <4>1, <4>2, <4>3
    <3>4. CASE CallbackName(c)
      BY <1>0, <1>1, <3>4 DEF CallbackName, At, Requests, Creators
    <3>5. CASE CallbackCreate(c)
      <4>1. Answer(c) \/ \E u : req' = [req EXCEPT ![c].at = "save", ![c].user = u, ![c].since = uses]
        BY <3>5, Zenon DEF CallbackCreate
      <4>2. ASSUME NEW u, req' = [req EXCEPT ![c].at = "save", ![c].user = u, ![c].since = uses]
            PROVE  req'[c].at = "save"
        BY <1>0, <4>2 DEF Requests
      <4>3. Answer(c) => req'[c].at = "idle"
        BY <1>0 DEF Answer, Idle
      <4>4. req'[c].at = "idle" \/ req'[c].at = "save"
        BY <4>1, <4>2, <4>3, Zenon
      <4> QED
        BY <1>1, <4>4
    <3> QED
      BY <2>2, <3>1, <3>2, <3>3, <3>4, <3>5 DEF Creating
  <2>3. CASE ~UNCHANGED req /\ ~Creating(c)
    <3>1. Crash(c) => req'[c].at = "idle"
      BY <1>0 DEF Crash, Answer, Idle
    <3> QED
      BY <1>0, <1>1, <2>3, <3>1, Ways
  <2> QED
    BY <2>1, <2>2, <2>3
<1> QED
  BY <1>0, <1>1 DEF Creators

\* An insert moves its request from the creators to the accounts.
LEMMA PopulatedStep ==
  ASSUME Inv, Populated, NEW c \in Clients, Request(c) \/ Step(c) \/ Crash(c)
  PROVE  Populated'
<1> SUFFICES ASSUME NEW e \in Emails, Having(e)' # {}
             PROVE  /\ IsFiniteSet(Having(e)')
                    /\ Cardinality(Having(e)') + Cardinality(Creators(e)') <= Cardinality(Clients)
  BY DEF Populated
<1> DEFINE H == Having(e)
           C == Creators(e)
           n == Cardinality(Clients)
<1>0. /\ C \subseteq Clients /\ C' \subseteq Clients /\ n \in Nat
      /\ IsFiniteSet(C) /\ IsFiniteSet(C') /\ Cardinality(C) \in Nat /\ Cardinality(C') \in Nat
      /\ Cardinality(C) <= n /\ Cardinality(C') <= n
  <2>1. C \subseteq Clients /\ C' \subseteq Clients
    BY DEF Creators
  <2> HIDE DEF C
  <2> QED
    BY <2>1, BoundAssumption, FS_Subset, FS_CardinalityType
<1>1. H # {} => /\ IsFiniteSet(H) /\ Cardinality(H) \in Nat
                /\ Cardinality(H) + Cardinality(C) <= n
                /\ C' \subseteq C
  <2>1. H # {} => IsFiniteSet(H) /\ Cardinality(H) + Cardinality(C) <= n
    BY DEF Populated
  <2>2. H # {} => C' \subseteq C
    BY CreatorsStep
  <2> QED
    BY <2>1, <2>2, FS_CardinalityType
<1>2. CASE H' = H
  <2>1. H # {}
    BY <1>2
  <2> HIDE DEF H, C, n
  <2>2. Cardinality(C') <= Cardinality(C)
    BY <1>0, <1>1, <2>1, FS_Subset
  <2>3. IsFiniteSet(H') /\ Cardinality(H') + Cardinality(C') <= n
    BY <1>0, <1>1, <1>2, <2>1, <2>2
  <2> QED
    BY <2>3 DEF H, C, n
<1>3. ASSUME NEW u, u \notin H, H' = H \cup {u}, req[c].at \in {"create", "insert"},
             req[c].email = e, req'[c].at \in {"rows", "save"}
      PROVE  /\ IsFiniteSet(Having(e)')
             /\ Cardinality(Having(e)') + Cardinality(Creators(e)') <= Cardinality(Clients)
  <2>1. c \in C /\ c \notin C'
    BY <1>3 DEF Creators
  <2>2. C' \subseteq C
    <3>1. \A d \in Clients \ {c} : req'[d] = req[d]
      BY GrownStep, HoldsStep DEF Moves
    <3> QED
      BY <2>1, <3>1 DEF Creators
  <2> HIDE DEF H, C, n
  <2>3. Cardinality(C') + 1 <= Cardinality(C)
    <3>1. C' \subseteq C \ {c}
      BY <2>1, <2>2
    <3>2. IsFiniteSet(C \ {c}) /\ Cardinality(C \ {c}) = Cardinality(C) - 1
      BY <1>0, <2>1, FS_RemoveElement
    <3>3. Cardinality(C') <= Cardinality(C \ {c})
      BY <3>1, <3>2, FS_Subset
    <3> QED
      BY <1>0, <3>2, <3>3
  <2>4. CASE H = {}
    <3>1. H' = {u}
      BY <1>3, <2>4
    <3>2. IsFiniteSet(H') /\ Cardinality(H') = 1
      BY <3>1, FS_Singleton
    <3>3. Cardinality(H') + Cardinality(C') <= n
      BY <1>0, <2>3, <3>2
    <3> QED
      BY <3>2, <3>3 DEF H, C, n
  <2>5. CASE H # {}
    <3>1. IsFiniteSet(H') /\ Cardinality(H') = Cardinality(H) + 1
      BY <1>1, <1>3, <2>5, FS_AddElement
    <3>2. Cardinality(H') + Cardinality(C') <= n
      BY <1>0, <1>1, <2>3, <2>5, <3>1
    <3> QED
      BY <3>1, <3>2 DEF H, C, n
  <2> QED
    BY <2>4, <2>5
<1> QED
  <2>1. CASE \A x \in Emails : Having(x)' = Having(x)
    BY <1>2, <2>1
  <2>2. ASSUME NEW u \in Users \ Rows, req[c].at \in {"create", "insert"},
               req'[c].at \in {"rows", "save"},
               \A x \in Emails : Having(x)' = Having(x) \cup (IF x = req[c].email THEN {u} ELSE {})
        PROVE  /\ IsFiniteSet(Having(e)')
               /\ Cardinality(Having(e)') + Cardinality(Creators(e)') <= Cardinality(Clients)
    <3>1. u \notin H
      BY DEF Having
    <3>2. CASE e = req[c].email
      <4>1. H' = H \cup {u}
        BY <2>2, <3>2
      <4> QED
        BY <1>3, <2>2, <3>1, <3>2, <4>1
    <3>3. CASE e # req[c].email
      <4>1. H' = H
        BY <2>2, <3>3
      <4> QED
        BY <1>2, <4>1
    <3> QED
      BY <3>2, <3>3
  <2> QED
    BY <2>1, <2>2, HavingStep

\* signup and the Google sign-in look for the address and insert the user in two
\* statements, with no constraint between: an address has no more accounts than there
\* are clients, since only requests that looked before the first insert make one.
THEOREM AccountsLimited == Spec => []AccountsBounded
<1>1. Init => Populated
  <2> SUFFICES ASSUME Init, NEW e \in Emails PROVE Having(e) = {}
    BY DEF Populated
  <2> QED
    BY DEF Init, Having, Rows, Unused
<1>2. Inv /\ Populated /\ [Next]_vars => Populated'
  <2> SUFFICES ASSUME Inv, Populated, [Next]_vars PROVE Populated'
    OBVIOUS
  <2>1. CASE UNCHANGED vars
    BY <2>1 DEF Populated, Having, Rows, Unused, Creators, vars
  <2> QED
    BY <2>1, PopulatedStep DEF Next
<1>3. Populated => AccountsBounded
  <2> SUFFICES ASSUME Populated, NEW e \in Emails
               PROVE  Cardinality(Having(e)) <= Cardinality(Clients)
    BY DEF AccountsBounded
  <2>1. Creators(e) \subseteq Clients
    BY DEF Creators
  <2>2. Cardinality(Creators(e)) \in Nat /\ Cardinality(Clients) \in Nat
    BY <2>1, BoundAssumption, FS_Subset, FS_CardinalityType
  <2>3. CASE Having(e) = {}
    BY <2>2, <2>3, FS_EmptySet
  <2>4. CASE Having(e) # {}
    <3>1. /\ Cardinality(Having(e)) \in Nat
          /\ Cardinality(Having(e)) + Cardinality(Creators(e)) <= Cardinality(Clients)
      BY <2>4, FS_CardinalityType DEF Populated
    <3> QED
      BY <2>2, <3>1
  <2> QED
    BY <2>3, <2>4
<1> QED
  BY InvHolds, <1>1, <1>2, <1>3, PTL DEF Spec

-----------------------------------------------------------------------------
\* The verification tokens that are used up, with an address that is not verified and
\* no request on its way to verify it: VerificationsKept counts them.
Lost == {t \in Tokens :
  /\ token[t] # None /\ token[t].for = "verify" /\ token[t].consumed
  /\ address[token[t].user] # "verified"
  /\ \A c \in Clients : ~(At(c, "mark") /\ req[c].token = t)}

\* A token is lost only with the request that was to verify its address.
LEMMA LostStep ==
  ASSUME Inv, NEW c \in Clients, Request(c) \/ Step(c) \/ Crash(c)
  PROVE  IF Crash(c) THEN Lost' \subseteq Lost \cup {req[c].token} ELSE Lost' \subseteq Lost
<1>0. /\ TypeOK /\ Referred /\ Holds(c) /\ Grown
      /\ req[c] \in Requests /\ req \in [Clients -> Requests]
      /\ token \in [Tokens -> Minted \cup {None}]
      /\ address \in [Users -> {"none", "unverified", "verified"}]
      /\ \A d \in Clients \ {c} : req'[d] = req[d]
  BY GrownStep, HoldsStep DEF Inv, TypeOK, Requests, Steps, Moves
<1> SUFFICES ASSUME NEW t \in Lost', t \notin Lost PROVE Crash(c) /\ t = req[c].token
  OBVIOUS
<1>1. /\ t \in Tokens /\ token'[t] # None /\ token'[t].for = "verify" /\ token'[t].consumed
      /\ address'[token'[t].user] # "verified"
      /\ \A d \in Clients : ~(req'[d].at = "mark" /\ req'[d].token = t)
  BY DEF Lost, At
<1>2. token[t] # None /\ token[t].consumed
  <2>1. CASE UNCHANGED token
    BY <1>1, <2>1
  <2>2. ASSUME NEW u \in Rows, NEW purpose \in {"verify", "reset"}, mint_one_time_token(u, purpose)
        PROVE  token[t] # None /\ token[t].consumed
    <3>1. ASSUME NEW x \in Tokens,
                 token' = [token EXCEPT ![x] = [user |-> u, for |-> purpose, consumed |-> FALSE]]
          PROVE  token[t] # None /\ token[t].consumed
      <4>1. ~token'[x].consumed
        BY <1>0, <3>1
      <4>2. t # x
        BY <1>1, <4>1
      <4> QED
        BY <1>0, <1>1, <3>1, <4>2
    <3>2. \/ token' = token
          \/ \E x \in Tokens :
               token' = [token EXCEPT ![x] = [user |-> u, for |-> purpose, consumed |-> FALSE]]
      BY <1>0, <2>2, MintedToken
    <3> QED
      BY <2>1, <3>1, <3>2, Zenon
  <2>3. CASE SignupRows(c)
    <3>1. req[c].user \in Rows
      BY <1>0, <2>3 DEF SignupRows, Holds, At
    <3>2. UNCHANGED token \/ mint_one_time_token(req[c].user, "verify")
      BY <2>3 DEF SignupRows
    <3> QED
      BY <2>1, <2>2, <3>1, <3>2
  <2>4. ASSUME NEW email \in Emails, ForgotPassword(c, email)
        PROVE  token[t] # None /\ token[t].consumed
    <3>1. Having(email) # {} /\ Having(email) \subseteq Nat /\ Having(email) \subseteq Rows
      BY <2>4, BoundAssumption DEF ForgotPassword, Having, Rows, Users
    <3>2. Least(Having(email)) \in Rows
      BY <3>1, LeastIn
    <3> QED
      BY <2>2, <2>4, <3>2 DEF ForgotPassword
  <2>5. CASE VerifyConsume(c)
    <3>1. req[c].at = "consume" /\ req' = [req EXCEPT ![c].at = "mark"]
      BY <2>5 DEF VerifyConsume, At, Go
    <3>2. req'[c].at = "mark" /\ req'[c].token = req[c].token
      BY <1>0, <3>1 DEF Requests
    <3>3. t # req[c].token
      BY <1>1, <3>2
    <3>4. token'[t] = token[t]
      BY <1>0, <2>5, <3>3 DEF VerifyConsume
    <3> QED
      BY <1>1, <3>4
  <2>6. CASE ResetSpend(c)
    <3>1. /\ req[c].token \in Tokens /\ token[req[c].token] # None
          /\ token[req[c].token].for = "reset"
      BY <1>0, <2>6 DEF ResetSpend, Holds, Presents, At
    <3>2. t # req[c].token
      BY <1>0, <1>1, <3>1 DEF Grown
    <3>3. token'[t] = token[t]
      BY <1>0, <2>6, <3>2 DEF ResetSpend
    <3> QED
      BY <1>1, <3>3
  <2> QED
    BY <2>1, <2>3, <2>4, <2>5, <2>6, Touched
<1>3. token[t].for = "verify" /\ token[t].user = token'[t].user /\ token[t].user \in Users
  BY <1>0, <1>1, <1>2, Rowed DEF Grown, Referred
<1>4. address[token[t].user] # "verified"
  BY <1>1, <1>3, AddressStep
<1>5. PICK d \in Clients : req[d].at = "mark" /\ req[d].token = t
  BY <1>1, <1>2, <1>3, <1>4 DEF Lost, At
<1>6. d = c /\ req' # req
  BY <1>0, <1>1, <1>5
<1>7. Verifying(c) \/ Crash(c)
  BY <1>0, <1>5, <1>6, Ways
<1>8. ~Verifying(c)
  <2>1. ASSUME VerifyMark(c) PROVE FALSE
    <3> DEFINE u == token[t].user
    <3>1. req[c].user = u /\ u \in Users /\ address[u] # "none"
      BY <1>0, <1>2, <1>3, <1>5, <1>6 DEF Holds, Presents, Referred
    <3>2. address' = [address EXCEPT ![u] = IF @ = "none" THEN @ ELSE "verified"]
      BY <2>1, <3>1 DEF VerifyMark
    <3> HIDE DEF u
    <3>3. address'[u] = "verified"
      BY <1>0, <3>1, <3>2
    <3> QED
      BY <1>1, <1>3, <3>3 DEF u
  <2>2. ASSUME NEW x \in Tokens, VerifyRead(c, x) PROVE FALSE
    BY <1>5, <1>6, <2>2 DEF VerifyRead, At
  <2>3. ASSUME VerifyConsume(c) PROVE FALSE
    BY <1>5, <1>6, <2>3 DEF VerifyConsume, At
  <2> QED
    BY <2>1, <2>2, <2>3 DEF Verifying
<1> QED
  BY <1>5, <1>6, <1>7, <1>8

\* One element more.
LEMMA OneMore ==
  ASSUME NEW S, IsFiniteSet(S), NEW x
  PROVE  /\ IsFiniteSet(S \cup {x}) /\ Cardinality(S \cup {x}) \in Nat
         /\ Cardinality(S \cup {x}) <= Cardinality(S) + 1
<1> DEFINE T == S \cup {x}
<1>1. IsFiniteSet(T) /\ (Cardinality(T) = Cardinality(S) \/ Cardinality(T) = Cardinality(S) + 1)
  BY FS_AddElement
<1>2. Cardinality(S) \in Nat
  BY FS_CardinalityType
<1> HIDE DEF T
<1>3. Cardinality(T) \in Nat /\ Cardinality(T) <= Cardinality(S) + 1
  BY <1>1, <1>2
<1> QED
  BY <1>1, <1>3 DEF T

\* Those lost are no more than the crashes.
LEMMA LostCounted == Spec => [](IsFiniteSet(Lost) /\ Cardinality(Lost) <= crashes)
<1> DEFINE Few == IsFiniteSet(Lost) /\ Cardinality(Lost) <= crashes
<1>1. Init => Few
  <2> SUFFICES ASSUME Init PROVE Lost = {} /\ crashes = 0
    BY FS_EmptySet
  <2> QED
    BY DEF Init, Lost
<1>2. Inv /\ Few /\ [Next]_vars => Few'
  <2> SUFFICES ASSUME Inv, Few, [Next]_vars PROVE Few'
    OBVIOUS
  <2>1. CASE UNCHANGED vars
    <3>1. Lost' = Lost /\ crashes' = crashes
      BY <2>1 DEF Lost, At, vars
    <3> QED
      BY <3>1
  <2>2. ASSUME NEW c \in Clients, Request(c) \/ Step(c) \/ Crash(c) PROVE Few'
    <3>1. Cardinality(Lost) \in Nat
      BY FS_CardinalityType
    <3>2. CASE Crash(c)
      <4>1. Lost' \subseteq Lost \cup {req[c].token}
        BY <2>2, <3>2, LostStep
      <4>2. /\ IsFiniteSet(Lost \cup {req[c].token})
            /\ Cardinality(Lost \cup {req[c].token}) <= Cardinality(Lost) + 1
            /\ Cardinality(Lost \cup {req[c].token}) \in Nat
        BY <3>1, OneMore
      <4>3. IsFiniteSet(Lost') /\ Cardinality(Lost') <= Cardinality(Lost \cup {req[c].token})
        BY <4>1, <4>2, FS_Subset
      <4>4. Cardinality(Lost') \in Nat
        BY <4>3, FS_CardinalityType
      <4>5. crashes' = crashes + 1 /\ crashes \in Nat
        BY <2>2, <3>2, CrashStep
      <4> QED
        BY <3>1, <4>2, <4>3, <4>4, <4>5
    <3>3. CASE ~Crash(c)
      <4>1. Lost' \subseteq Lost
        BY <2>2, <3>3, LostStep
      <4>2. IsFiniteSet(Lost') /\ Cardinality(Lost') <= Cardinality(Lost)
        BY <4>1, FS_Subset
      <4>3. Cardinality(Lost') \in Nat
        BY <4>2, FS_CardinalityType
      <4>4. crashes' = crashes /\ crashes \in Nat
        BY <2>2, <3>3, CrashStep
      <4> QED
        BY <3>1, <4>2, <4>3, <4>4
    <3> QED
      BY <3>2, <3>3
  <2> QED
    BY <2>1, <2>2 DEF Next
<1> QED
  BY InvHolds, <1>1, <1>2, PTL DEF Spec

\* verify_email consumes the token and then marks the address: each verification token
\* used up for nothing is the work of a crash in between.
THEOREM VerificationsLost == Spec => []VerificationsKept
<1>1. IsFiniteSet(Lost) /\ Cardinality(Lost) <= crashes => VerificationsKept
  BY DEF VerificationsKept, Lost
<1> QED
  BY LostCounted, <1>1, PTL

===============================================================================
