------------------------ MODULE AuthSessionsProofs ------------------------
(***************************************************************************)
(* Proofs about AuthSessions, for any sets of users, tokens and workers.   *)
(*                                                                         *)
(* Safety of rotations rests on what each worker knows about the rows its  *)
(* local variables name (LocalOK).  That knowledge is about rows only ever *)
(* extended (Grows), so it survives the statements of the other workers;   *)
(* what other workers can change, such as revoked_at being unset, is not   *)
(* part of it.                                                             *)
(***************************************************************************)
EXTENDS AuthSessions, FiniteSetTheorems, TLAPS

\* Rows name existing rows: a session belongs to a user, a token exchanged for
\* another has the same owner, a reset token belongs to a user.
RowsOK ==
  /\ \A t \in issued : owner[t] \in Users
  /\ \A t \in RefreshTokens :
       parent[t] # None => /\ t \in issued
                           /\ parent[t] \in issued
                           /\ owner[parent[t]] = owner[t]
  /\ \A t \in RefreshTokens : replacedBy[t] # None => t \in issued
  /\ \A k \in minted : resetOwner[k] \in Users

\* What the handler of worker w relies on at its next statement.
LocalOK(w) ==
  /\ pc[w] \in {"login_user", "login_lock", "login_fail", "login_create",
                "login_clear", "refresh_create", "refresh_revoke",
                "others_find", "others_revoke", "forgot_find", "forgot_mint",
                "reset_hash", "reset_consume", "reset_revoke"} =>
       arg[w].user \in Users
  /\ pc[w] \in {"login_lock", "login_create"} => arg[w].seen \in Passwords
  /\ pc[w] \in {"reset_find", "reset_hash", "reset_consume", "reset_revoke"} =>
       arg[w].key \in minted /\ arg[w].pw \in Passwords
  /\ pc[w] \in {"refresh_find", "refresh_create", "refresh_revoke",
                "logout_find", "logout_revoke", "others_find",
                "others_revoke"} =>
       arg[w].tok \in held
  /\ pc[w] \in {"refresh_create", "refresh_revoke"} =>
       owner[arg[w].tok] = arg[w].user
  /\ pc[w] = "refresh_revoke" =>
       arg[w].new \in issued /\ parent[arg[w].new] = arg[w].tok
  /\ pc[w] \in {"login_user", "login_lock", "login_create", "login_clear"} =>
       arg[w].tok = None
  /\ pc[w] \in {"login_clear", "respond"} =>
       arg[w].new \in issued /\ parent[arg[w].new] = arg[w].tok
  /\ pc[w] = "respond" /\ arg[w].tok # None => arg[w].tok \in revoked

LocalsOK == \A w \in Workers : LocalOK(w)

Inv == TypeOK /\ RowsOK /\ LocalsOK /\ RotationLinked /\ RotatedBeforeAnswered

\* Rows are never deleted, a revoked token is never accepted again, and the
\* columns that say whose a row is and where it comes from never change.
Grows ==
  /\ issued \subseteq issued'
  /\ revoked \subseteq revoked'
  /\ held \subseteq held'
  /\ minted \subseteq minted'
  /\ \A t \in issued : owner'[t] = owner[t] /\ parent'[t] = parent[t]
  /\ \A k \in minted : resetOwner'[k] = resetOwner[k]

-----------------------------------------------------------------------------
\* The first statements of the handlers.
Opening == {"login_user", "refresh_find", "logout_find", "others_find",
            "forgot_find", "reset_find"}

\* A request begins a handler.
LEMMA RequestOpens ==
  ASSUME NEW w, Request(w)
  PROVE  \E s \in Opening : \E a : Begin(w, s, a)
<1>1. ASSUME NEW u \in Users, NEW p \in Passwords, LoginRequest(w, u, p)
      PROVE  \E a : Begin(w, "login_user", a)
  BY <1>1 DEF LoginRequest
<1>2. ASSUME NEW t \in held, RefreshRequest(w, t)
      PROVE  \E a : Begin(w, "refresh_find", a)
  BY <1>2 DEF RefreshRequest
<1>3. ASSUME NEW t \in held, LogoutRequest(w, t)
      PROVE  \E a : Begin(w, "logout_find", a)
  BY <1>3 DEF LogoutRequest
<1>4. ASSUME NEW u \in Users, NEW t \in held, OthersRequest(w, u, t)
      PROVE  \E a : Begin(w, "others_find", a)
  BY <1>4 DEF OthersRequest
<1>5. ASSUME NEW u \in Users, ForgotRequest(w, u)
      PROVE  \E a : Begin(w, "forgot_find", a)
  BY <1>5 DEF ForgotRequest
<1>6. ASSUME NEW k \in minted, NEW p \in Passwords, ResetRequest(w, k, p)
      PROVE  \E a : Begin(w, "reset_find", a)
  BY <1>6 DEF ResetRequest
<1> QED
  BY <1>1, <1>2, <1>3, <1>4, <1>5, <1>6 DEF Request, Opening

\* It writes no row.
LEMMA RequestMoves ==
  ASSUME NEW w, Request(w)
  PROVE  UNCHANGED <<userVars, refreshVars, resetVars, tokenHist, endHist, heldHist,
                     guessHist>>
  BY RequestOpens DEF Begin

\* No statement takes back what Grows names.
LEMMA RowsGrow ==
  ASSUME TypeOK, LocalsOK, [Next]_vars
  PROVE  Grows
<1> USE DEF Grows, TypeOK, userVars, refreshVars, resetVars, tokenHist,
            endHist, heldHist
<1>1. CASE UNCHANGED vars
  BY <1>1 DEF vars
<1>2. ASSUME NEW w \in Workers, Request(w)
      PROVE  Grows
  <2>1. UNCHANGED <<refreshVars, resetVars, tokenHist, heldHist>>
    BY <1>2, RequestMoves
  <2> QED
    BY <2>1
<1>3. CASE Surroundings
  BY <1>3 DEF Surroundings, RefreshTokenExpires, ResetTokenLapses, LockExpires,
              SetActive, Drop, Reject, NoRows
<1>4. ASSUME NEW w \in Workers, Step(w)
      PROVE  Grows
  <2>1. CASE LoginCreate(w) \/ RefreshCreate(w)
    BY <2>1 DEF LoginCreate, RefreshCreate, create_refresh_token
  <2>2. CASE RefreshRevoke(w) \/ LogoutRevoke(w) \/ OthersRevoke(w)
               \/ ResetRevoke(w)
    BY <2>2 DEF RefreshRevoke, LogoutRevoke, OthersRevoke, ResetRevoke,
                revoke_refresh_token, revoke_all_refresh_tokens,
                revoke_all_refresh_tokens_except
  <2>3. CASE Respond(w)
    BY <2>3 DEF Respond, NoRows
  <2>4. CASE ForgotMint(w)
    BY <2>4 DEF ForgotMint, create_one_time_token
  <2>5. CASE ResetConsume(w)
    BY <2>5 DEF ResetConsume, consume_one_time_token
  <2>6. CASE \/ LoginUser(w) \/ LoginLock(w) \/ LoginFail(w) \/ LoginClear(w)
             \/ RefreshFind(w) \/ RefreshReuse(w) \/ RefreshExpired(w)
             \/ LogoutFind(w) \/ OthersFind(w) \/ ForgotFind(w)
             \/ ResetFind(w) \/ ResetHash(w)
    BY <2>6 DEF LoginUser, LoginLock, LoginFail, LoginClear, RefreshFind,
                RefreshReuse, RefreshExpired, LogoutFind, OthersFind,
                ForgotFind, ResetFind, find_one_time_token, ResetHash, NoRows
  <2> QED
    BY <1>4, <2>1, <2>2, <2>3, <2>4, <2>5, <2>6 DEF Step
<1> QED
  BY <1>1, <1>2, <1>3, <1>4 DEF Next

\* What a worker knows, it still knows after a statement of another worker.
LEMMA KnowledgeStable ==
  ASSUME TypeOK, Grows, NEW v \in Workers, LocalOK(v),
         pc'[v] = pc[v], arg'[v] = arg[v]
  PROVE  LocalOK(v)'
  BY NoneAssumption DEF LocalOK, Grows, TypeOK, Args

\* A request has rows of its arguments to work on.
LEMMA RequestStep ==
  ASSUME Inv, NEW w \in Workers, Request(w)
  PROVE  /\ TypeOK'
         /\ LocalOK(w)'
         /\ \A v \in Workers \ {w} : pc'[v] = pc[v] /\ arg'[v] = arg[v]
         /\ pc'[w] \notin {"refresh_create", "refresh_revoke", "respond"}
         /\ UNCHANGED <<refreshVars, resetVars, tokenHist, endHist, heldHist>>
<1> USE DEF TypeOK, Blank, Args, Statements, Begin
<1>1. UNCHANGED <<userVars, refreshVars, resetVars, tokenHist, endHist,
                  heldHist, guessHist>>
  BY RequestMoves
<1>2. PICK s \in Statements, a \in Args :
        /\ pc' = [pc EXCEPT ![w] = s]
        /\ arg' = [arg EXCEPT ![w] = a]
        /\ s \in {"login_user", "others_find", "forgot_find"} =>
             a.user \in Users
        /\ s = "login_user" => a.tok = None
        /\ s = "reset_find" => a.key \in minted /\ a.pw \in Passwords
        /\ s \in {"refresh_find", "logout_find", "others_find"} =>
             a.tok \in held
        /\ s \in {"login_user", "refresh_find", "logout_find", "others_find",
                  "forgot_find", "reset_find"}
  <2> USE DEF Inv
  <2>1. CASE \E u \in Users, p \in Passwords : LoginRequest(w, u, p)
    <3>1. PICK u \in Users, p \in Passwords : LoginRequest(w, u, p)
      BY <2>1
    <3> DEFINE a0 == [Blank EXCEPT !.user = u, !.pw = p]
    <3>2. a0 \in Args /\ a0.user \in Users /\ a0.tok = None
      OBVIOUS
    <3>3. /\ pc' = [pc EXCEPT ![w] = "login_user"]
          /\ arg' = [arg EXCEPT ![w] = a0]
      BY <3>1 DEF LoginRequest
    <3> HIDE DEF a0
    <3> QED
      BY <3>2, <3>3
  <2>2. CASE \E t \in held : RefreshRequest(w, t)
    <3>1. PICK t \in held : RefreshRequest(w, t)
      BY <2>2
    <3> DEFINE a0 == [Blank EXCEPT !.tok = t]
    <3>2. a0 \in Args /\ a0.tok \in held
      OBVIOUS
    <3>3. /\ pc' = [pc EXCEPT ![w] = "refresh_find"]
          /\ arg' = [arg EXCEPT ![w] = a0]
      BY <3>1 DEF RefreshRequest
    <3> HIDE DEF a0
    <3> QED
      BY <3>2, <3>3
  <2>3. CASE \E t \in held : LogoutRequest(w, t)
    <3>1. PICK t \in held : LogoutRequest(w, t)
      BY <2>3
    <3> DEFINE a0 == [Blank EXCEPT !.tok = t]
    <3>2. a0 \in Args /\ a0.tok \in held
      OBVIOUS
    <3>3. /\ pc' = [pc EXCEPT ![w] = "logout_find"]
          /\ arg' = [arg EXCEPT ![w] = a0]
      BY <3>1 DEF LogoutRequest
    <3> HIDE DEF a0
    <3> QED
      BY <3>2, <3>3
  <2>4. CASE \E u \in Users, t \in held : OthersRequest(w, u, t)
    <3>1. PICK u \in Users, t \in held : OthersRequest(w, u, t)
      BY <2>4
    <3> DEFINE a0 == [Blank EXCEPT !.user = u, !.tok = t]
    <3>2. a0 \in Args /\ a0.user \in Users /\ a0.tok \in held
      OBVIOUS
    <3>3. /\ pc' = [pc EXCEPT ![w] = "others_find"]
          /\ arg' = [arg EXCEPT ![w] = a0]
      BY <3>1 DEF OthersRequest
    <3> HIDE DEF a0
    <3> QED
      BY <3>2, <3>3
  <2>5. CASE \E u \in Users : ForgotRequest(w, u)
    <3>1. PICK u \in Users : ForgotRequest(w, u)
      BY <2>5
    <3> DEFINE a0 == [Blank EXCEPT !.user = u]
    <3>2. a0 \in Args /\ a0.user \in Users
      OBVIOUS
    <3>3. /\ pc' = [pc EXCEPT ![w] = "forgot_find"]
          /\ arg' = [arg EXCEPT ![w] = a0]
      BY <3>1 DEF ForgotRequest
    <3> HIDE DEF a0
    <3> QED
      BY <3>2, <3>3
  <2>6. CASE \E k \in minted, p \in Passwords : ResetRequest(w, k, p)
    <3>1. PICK k \in minted, p \in Passwords : ResetRequest(w, k, p)
      BY <2>6
    <3> DEFINE a0 == [Blank EXCEPT !.key = k, !.pw = p]
    <3>2. a0 \in Args /\ a0.key \in minted /\ a0.pw \in Passwords
      OBVIOUS
    <3>3. /\ pc' = [pc EXCEPT ![w] = "reset_find"]
          /\ arg' = [arg EXCEPT ![w] = a0]
      BY <3>1 DEF ResetRequest
    <3> HIDE DEF a0
    <3> QED
      BY <3>2, <3>3
  <2> QED
    BY <2>1, <2>2, <2>3, <2>4, <2>5, <2>6 DEF Request
<1>3. TypeOK'
  BY <1>1, <1>2 DEF Inv, userVars, refreshVars, resetVars, tokenHist, endHist,
                    heldHist, guessHist
<1>4. LocalOK(w)'
  BY <1>1, <1>2 DEF Inv, LocalOK, resetVars, heldHist
<1> QED
  BY <1>1, <1>2, <1>3, <1>4 DEF Inv

\* Locals stay in their type when a statement stores what it has read or made.
LEMMA ArgsUpdated ==
  ASSUME NEW a \in Args
  PROVE  /\ Blank \in Args
         /\ \A t \in RefreshTokens : [a EXCEPT !.new = t] \in Args
         /\ \A p \in Passwords : [a EXCEPT !.seen = p] \in Args
         /\ \A u \in Users \cup {None} : [a EXCEPT !.user = u] \in Args
<1>1. Blank \in Args
  BY DEF Args, Blank
<1>2. ASSUME NEW t \in RefreshTokens
      PROVE  [a EXCEPT !.new = t] \in Args
  BY DEF Args
<1>3. ASSUME NEW p \in Passwords
      PROVE  [a EXCEPT !.seen = p] \in Args
  BY DEF Args
<1>4. ASSUME NEW u \in Users \cup {None}
      PROVE  [a EXCEPT !.user = u] \in Args
  BY DEF Args
<1> QED
  BY <1>1, <1>2, <1>3, <1>4

\* A statement takes its worker to a statement, with locals of the right type.
LEMMA StepMoves ==
  ASSUME Inv, NEW w \in Workers, Step(w)
  PROVE  \E s \in Statements \cup {"idle"}, a \in Args : Goto(w, s, a)
<1>0. /\ arg[w] \in Args
      /\ Blank \in Args
      /\ Finish(w) => Goto(w, "idle", Blank)
  BY ArgsUpdated DEF Inv, TypeOK, Finish, Goto
<1> USE <1>0 DEF Proceed, Reject, Statements
<1>1. CASE LoginUser(w)
  <2>1. hash[arg[w].user] \in Passwords
    BY <1>1 DEF LoginUser, Inv, TypeOK, LocalsOK, LocalOK
  <2>2. [arg[w] EXCEPT !.seen = hash[arg[w].user]] \in Args
    BY <2>1, ArgsUpdated
  <2> QED
    BY <1>1, <2>2 DEF LoginUser
<1>2. CASE LoginLock(w)
  BY <1>2 DEF LoginLock
<1>3. CASE LoginFail(w)
  BY <1>3 DEF LoginFail
<1>4. CASE LoginCreate(w)
  <2>1. PICK t \in RefreshTokens :
          Goto(w, "login_clear", [arg[w] EXCEPT !.new = t])
    BY <1>4 DEF LoginCreate
  <2>2. [arg[w] EXCEPT !.new = t] \in Args
    BY ArgsUpdated
  <2> QED
    BY <2>1, <2>2
<1>5. CASE LoginClear(w)
  BY <1>5 DEF LoginClear
<1>6. CASE Respond(w)
  BY <1>6 DEF Respond
<1>7. CASE RefreshFind(w)
  <2>1. owner[arg[w].tok] \in Users \cup {None}
    BY <1>7 DEF RefreshFind, Live, Inv, TypeOK, LocalsOK, LocalOK
  <2>2. [arg[w] EXCEPT !.user = owner[arg[w].tok]] \in Args
    BY <2>1, ArgsUpdated
  <2> QED
    BY <1>7, <2>2 DEF RefreshFind
<1>8. CASE RefreshReuse(w)
  BY <1>8 DEF RefreshReuse
<1>9. CASE RefreshExpired(w)
  BY <1>9 DEF RefreshExpired
<1>10. CASE RefreshCreate(w)
  <2>1. PICK t \in RefreshTokens :
          Goto(w, "refresh_revoke", [arg[w] EXCEPT !.new = t])
    BY <1>10 DEF RefreshCreate
  <2>2. [arg[w] EXCEPT !.new = t] \in Args
    BY ArgsUpdated
  <2> QED
    BY <2>1, <2>2
<1>11. CASE RefreshRevoke(w)
  BY <1>11 DEF RefreshRevoke
<1>12. CASE LogoutFind(w)
  BY <1>12 DEF LogoutFind
<1>13. CASE LogoutRevoke(w)
  BY <1>13 DEF LogoutRevoke
<1>14. CASE OthersFind(w)
  BY <1>14 DEF OthersFind
<1>15. CASE OthersRevoke(w)
  BY <1>15 DEF OthersRevoke
<1>16. CASE ForgotFind(w)
  BY <1>16 DEF ForgotFind
<1>17. CASE ForgotMint(w)
  BY <1>17 DEF ForgotMint
<1>18. CASE ResetFind(w)
  <2>1. resetOwner[arg[w].key] \in Users \cup {None}
    BY <1>18 DEF ResetFind, find_one_time_token, Inv, TypeOK, LocalsOK, LocalOK
  <2>2. [arg[w] EXCEPT !.user = resetOwner[arg[w].key]] \in Args
    BY <2>1, ArgsUpdated
  <2> QED
    BY <1>18, <2>2 DEF ResetFind, find_one_time_token
<1>19. CASE ResetHash(w)
  BY <1>19 DEF ResetHash
<1>20. CASE ResetConsume(w)
  BY <1>20 DEF ResetConsume
<1>21. CASE ResetRevoke(w)
  BY <1>21 DEF ResetRevoke
<1> QED
  BY <1>1, <1>2, <1>3, <1>4, <1>5, <1>6, <1>7, <1>8, <1>9, <1>10, <1>11, <1>12, <1>13, <1>14, <1>15, <1>16, <1>17, <1>18, <1>19, <1>20, <1>21 DEF Step

LEMMA StepLocalsTyped ==
  ASSUME Inv, NEW w \in Workers, Step(w)
  PROVE  /\ pc' \in [Workers -> Statements \cup {"idle"}]
         /\ arg' \in [Workers -> Args]
<1>1. PICK s \in Statements \cup {"idle"}, a \in Args : Goto(w, s, a)
  BY StepMoves
<1> QED
  BY <1>1 DEF Inv, TypeOK, Goto

\* A statement keeps the columns and the locals in their types.
LEMMA StepType ==
  ASSUME Inv, NEW w \in Workers, Step(w)
  PROVE  TypeOK'
<1> USE StepLocalsTyped
    DEF Inv, TypeOK, LocalsOK, LocalOK, Reject, Proceed, NoRows, userVars,
        refreshVars, resetVars, tokenHist, endHist, heldHist, guessHist
<1>1. CASE LoginLock(w)
  BY <1>1 DEF LoginLock, Counted
<1>2. CASE LoginFail(w)
  BY <1>2, MaxFailuresAssumption DEF LoginFail, register_login_failure
<1>3. CASE LoginClear(w)
  BY <1>3, MaxFailuresAssumption, MaxUnlocksAssumption
     DEF LoginClear, reset_login_failures
<1>4. CASE LoginCreate(w)
  BY <1>4 DEF LoginCreate, create_refresh_token, Args
<1>5. CASE RefreshCreate(w)
  BY <1>5 DEF RefreshCreate, create_refresh_token, Args
<1>6. CASE Respond(w)
  BY <1>6 DEF Respond
<1>7. CASE RefreshRevoke(w)
  BY <1>7 DEF RefreshRevoke, revoke_refresh_token, Args
<1>8. CASE LogoutRevoke(w)
  BY <1>8 DEF LogoutRevoke, revoke_refresh_token, End
<1>9. CASE OthersRevoke(w)
  BY <1>9 DEF OthersRevoke, revoke_all_refresh_tokens_except, SessionsOf, TokensOf, End
<1>10. CASE ResetRevoke(w)
  BY <1>10 DEF ResetRevoke, revoke_all_refresh_tokens, SessionsOf, TokensOf, End
<1>11. CASE ForgotMint(w)
  BY <1>11 DEF ForgotMint, create_one_time_token
<1>12. CASE ResetConsume(w)
  BY <1>12 DEF ResetConsume, consume_one_time_token
<1>13. CASE ResetHash(w)
  BY <1>13 DEF ResetHash, set_user_password_hash, Used
<1>14. CASE \/ LoginUser(w)
            \/ RefreshFind(w)
            \/ RefreshReuse(w)
            \/ RefreshExpired(w)
            \/ LogoutFind(w)
            \/ OthersFind(w)
            \/ ForgotFind(w)
            \/ ResetFind(w)
  BY <1>14
     DEF LoginUser, RefreshFind, RefreshReuse, RefreshExpired, LogoutFind, OthersFind, ForgotFind, ResetFind,
         find_one_time_token
<1> QED
  BY <1>1, <1>2, <1>3, <1>4, <1>5, <1>6, <1>7, <1>8, <1>9, <1>10, <1>11, <1>12, <1>13, <1>14 DEF Step

\* A statement leaves its own worker with what the next one relies on.
LEMMA StepLocal ==
  ASSUME Inv, NEW w \in Workers, Step(w)
  PROVE  LocalOK(w)'
<1> USE DEF Inv, TypeOK, LocalsOK, LocalOK, Goto, Proceed, Finish, Reject, NoRows,
            userVars, refreshVars, resetVars, tokenHist, endHist, heldHist, guessHist, Args, Blank, RowsOK
<1>1. CASE LoginUser(w)
  BY <1>1, NoneAssumption DEF LoginUser
<1>2. CASE LoginLock(w)
  BY <1>2, NoneAssumption DEF LoginLock, Counted
<1>3. CASE LoginFail(w)
  BY <1>3, NoneAssumption DEF LoginFail, register_login_failure
<1>4. CASE LoginCreate(w)
  BY <1>4, NoneAssumption DEF LoginCreate, create_refresh_token
<1>5. CASE LoginClear(w)
  BY <1>5, NoneAssumption DEF LoginClear, reset_login_failures
<1>6. CASE Respond(w)
  BY <1>6, NoneAssumption DEF Respond
<1>7. CASE RefreshFind(w)
  BY <1>7, NoneAssumption DEF RefreshFind, Live
<1>8. CASE RefreshReuse(w)
  BY <1>8, NoneAssumption DEF RefreshReuse
<1>9. CASE RefreshExpired(w)
  BY <1>9, NoneAssumption DEF RefreshExpired
<1>10. CASE RefreshCreate(w)
  BY <1>10, NoneAssumption DEF RefreshCreate, create_refresh_token
<1>11. CASE RefreshRevoke(w)
  BY <1>11, NoneAssumption DEF RefreshRevoke, revoke_refresh_token
<1>12. CASE LogoutFind(w)
  BY <1>12, NoneAssumption DEF LogoutFind
<1>13. CASE LogoutRevoke(w)
  BY <1>13, NoneAssumption DEF LogoutRevoke, revoke_refresh_token, End
<1>14. CASE OthersFind(w)
  BY <1>14, NoneAssumption DEF OthersFind
<1>15. CASE OthersRevoke(w)
  BY <1>15, NoneAssumption DEF OthersRevoke, revoke_all_refresh_tokens_except, SessionsOf, TokensOf, End
<1>16. CASE ForgotFind(w)
  BY <1>16, NoneAssumption DEF ForgotFind
<1>17. CASE ForgotMint(w)
  BY <1>17, NoneAssumption DEF ForgotMint, create_one_time_token
<1>18. CASE ResetFind(w)
  <2>1. /\ pc[w] = "reset_find" /\ NoRows
        /\ \/ pc'[w] = "idle" /\ arg'[w] = Blank
           \/ /\ pc'[w] = "reset_hash"
              /\ arg'[w] = [arg[w] EXCEPT !.user = resetOwner[arg[w].key]]
    BY <1>18 DEF ResetFind, find_one_time_token
  <2>2. UNCHANGED <<issued, revoked, minted, held, parent>>
    BY <1>18 DEF ResetFind
  <2> QED
    BY <2>1, <2>2, NoneAssumption
<1>19. CASE ResetHash(w)
  BY <1>19, NoneAssumption DEF ResetHash, set_user_password_hash
<1>20. CASE ResetConsume(w)
  BY <1>20, NoneAssumption DEF ResetConsume, consume_one_time_token
<1>21. CASE ResetRevoke(w)
  BY <1>21, NoneAssumption DEF ResetRevoke, revoke_all_refresh_tokens, SessionsOf, TokensOf, End
<1> QED
  BY <1>1, <1>2, <1>3, <1>4, <1>5, <1>6, <1>7, <1>8, <1>9, <1>10, <1>11, <1>12, <1>13, <1>14, <1>15, <1>16, <1>17, <1>18, <1>19, <1>20, <1>21 DEF Step

\* A statement moves no other worker.
LEMMA StepOthers ==
  ASSUME Inv, NEW w \in Workers, Step(w)
  PROVE  \A v \in Workers \ {w} : pc'[v] = pc[v] /\ arg'[v] = arg[v]
<1>1. PICK s \in Statements \cup {"idle"}, a \in Args : Goto(w, s, a)
  BY StepMoves
<1> QED
  BY <1>1 DEF Inv, TypeOK, Goto

\* The clock, the operator and lost requests leave the links alone.
LEMMA SurroundingsStep ==
  ASSUME Inv, Surroundings
  PROVE  /\ TypeOK'
         /\ \A v \in Workers : \/ pc'[v] = pc[v] /\ arg'[v] = arg[v]
                               \/ pc'[v] = "idle"
         /\ UNCHANGED <<issued, revoked, owner, replacedBy, minted, resetOwner,
                        held, parent>>
<1> USE DEF Inv, TypeOK, userVars, refreshVars, resetVars, tokenHist, endHist,
            heldHist, guessHist
<1>1. CASE \E t \in RefreshTokens : RefreshTokenExpires(t)
  BY <1>1 DEF RefreshTokenExpires
<1>2. CASE \E k \in ResetTokens : ResetTokenLapses(k)
  BY <1>2 DEF ResetTokenLapses
<1>3. CASE \E u \in Users : LockExpires(u)
  BY <1>3, MaxUnlocksAssumption DEF LockExpires
<1>4. CASE \E u \in Users : SetActive(u)
  BY <1>4 DEF SetActive
<1>5. CASE \E w \in Workers : Drop(w)
  <2> PICK w \in Workers : Drop(w)
    BY <1>5
  <2>1. arg' \in [Workers -> Args]
    BY DEF Drop, Reject, Finish, Blank, Args
  <2> QED
    BY <2>1 DEF Drop, Reject, Finish, NoRows
<1> QED
  BY <1>1, <1>2, <1>3, <1>4, <1>5 DEF Surroundings

\* A statement keeps the columns consistent with each other and with the hands
\* of the clients.  Only five statements write them.
LEMMA StepLinks ==
  ASSUME Inv, NEW w \in Workers, Step(w)
  PROVE  RowsOK' /\ RotationLinked' /\ RotatedBeforeAnswered'
<1> USE NoneAssumption
    DEF Inv, TypeOK, RowsOK, LocalsOK, LocalOK, RotationLinked,
        RotatedBeforeAnswered, userVars, refreshVars, resetVars, tokenHist,
        endHist, heldHist
<1>1. CASE LoginCreate(w)
  <2>1. PICK t \in RefreshTokens \ issued :
          /\ issued' = issued \cup {t}
          /\ owner' = [owner EXCEPT ![t] = arg[w].user]
          /\ parent' = parent
    BY <1>1 DEF LoginCreate, create_refresh_token
  <2>2. UNCHANGED <<revoked, replacedBy, minted, resetOwner, held>>
    BY <1>1 DEF LoginCreate, create_refresh_token
  <2>3. arg[w].user \in Users /\ (pc[w] = "refresh_create" => arg[w].tok \in held)
    BY <1>1 DEF LoginCreate
  <2>4. RowsOK'
    BY <1>1, <2>1, <2>2, <2>3 DEF LoginCreate
  <2>5. RotationLinked'
    BY <2>1, <2>2
  <2>6. RotatedBeforeAnswered'
    BY <2>1, <2>2
  <2> QED
    BY <2>4, <2>5, <2>6
<1>2. CASE RefreshCreate(w)
  <2>1. PICK t \in RefreshTokens \ issued :
          /\ issued' = issued \cup {t}
          /\ owner' = [owner EXCEPT ![t] = arg[w].user]
          /\ parent' = [parent EXCEPT ![t] = arg[w].tok]
    BY <1>2 DEF RefreshCreate, create_refresh_token
  <2>2. UNCHANGED <<revoked, replacedBy, minted, resetOwner, held>>
    BY <1>2 DEF RefreshCreate, create_refresh_token
  <2>3. arg[w].user \in Users /\ (pc[w] = "refresh_create" => arg[w].tok \in held)
    BY <1>2 DEF RefreshCreate
  <2>4. RowsOK'
    BY <1>2, <2>1, <2>2, <2>3 DEF RefreshCreate
  <2>5. RotationLinked'
    BY <2>1, <2>2
  <2>6. RotatedBeforeAnswered'
    BY <2>1, <2>2
  <2> QED
    BY <2>4, <2>5, <2>6
<1>3. CASE RefreshRevoke(w)
  BY <1>3 DEF RefreshRevoke, revoke_refresh_token
<1>4. CASE LogoutRevoke(w)
  BY <1>4 DEF LogoutRevoke, revoke_refresh_token
<1>5. CASE OthersRevoke(w) \/ ResetRevoke(w)
  BY <1>5 DEF OthersRevoke, ResetRevoke, revoke_all_refresh_tokens,
              revoke_all_refresh_tokens_except
<1>6. CASE Respond(w)
  BY <1>6 DEF Respond, NoRows
<1>7. CASE ForgotMint(w)
  BY <1>7 DEF ForgotMint, create_one_time_token
<1>8. CASE ResetConsume(w)
  BY <1>8 DEF ResetConsume, consume_one_time_token
<1>9. CASE \/ LoginUser(w) \/ LoginLock(w) \/ LoginFail(w) \/ LoginClear(w)
           \/ RefreshFind(w) \/ RefreshReuse(w) \/ RefreshExpired(w)
           \/ LogoutFind(w) \/ OthersFind(w) \/ ForgotFind(w)
           \/ ResetFind(w) \/ ResetHash(w)
  BY <1>9 DEF LoginUser, LoginLock, LoginFail, LoginClear, RefreshFind,
              RefreshReuse, RefreshExpired, LogoutFind, OthersFind,
              ForgotFind, ResetFind, find_one_time_token, ResetHash, NoRows
<1> QED
  BY <1>1, <1>2, <1>3, <1>4, <1>5, <1>6, <1>7, <1>8, <1>9 DEF Step

-----------------------------------------------------------------------------
LEMMA InvInit == Init => Inv
  BY MaxFailuresAssumption, MaxUnlocksAssumption
     DEF Init, Inv, TypeOK, RowsOK, LocalsOK, LocalOK, RotationLinked,
         RotatedBeforeAnswered, Blank, Args

LEMMA InvNext ==
  ASSUME Inv, [Next]_vars
  PROVE  Inv'
<1>1. Grows
  BY RowsGrow DEF Inv
<1>2. CASE UNCHANGED vars
  BY <1>2 DEF vars, Inv, TypeOK, RowsOK, LocalsOK, LocalOK, RotationLinked,
              RotatedBeforeAnswered, userVars, refreshVars, resetVars,
              tokenHist, endHist, heldHist, guessHist
<1>3. CASE Surroundings
  <2>1. \A v \in Workers : LocalOK(v)'
    BY <1>1, <1>3, SurroundingsStep, KnowledgeStable
       DEF Inv, LocalsOK, LocalOK
  <2>2. RowsOK' /\ RotationLinked' /\ RotatedBeforeAnswered'
    BY <1>3, SurroundingsStep
       DEF Inv, RowsOK, RotationLinked, RotatedBeforeAnswered
  <2> QED
    BY <1>3, <2>1, <2>2, SurroundingsStep DEF Inv, LocalsOK
<1>4. ASSUME NEW w \in Workers, Request(w)
      PROVE  Inv'
  <2>1. \A v \in Workers : LocalOK(v)'
    BY <1>1, <1>4, RequestStep, KnowledgeStable DEF Inv, LocalsOK
  <2>2. RowsOK' /\ RotationLinked' /\ RotatedBeforeAnswered'
    BY <1>4, RequestStep
       DEF Inv, RowsOK, RotationLinked, RotatedBeforeAnswered, refreshVars,
           resetVars, tokenHist, heldHist
  <2> QED
    BY <1>4, <2>1, <2>2, RequestStep DEF Inv, LocalsOK
<1>5. ASSUME NEW w \in Workers, Step(w)
      PROVE  Inv'
  <2>1. \A v \in Workers : LocalOK(v)'
    BY <1>1, <1>5, StepLocal, StepOthers, KnowledgeStable DEF Inv, LocalsOK
  <2> QED
    BY <1>5, <2>1, StepType, StepLinks DEF Inv, LocalsOK
<1> QED
  BY <1>2, <1>3, <1>4, <1>5 DEF Next

\* The invariant on which the theorems of this module rest.
THEOREM Invariance == Spec => []Inv
  BY InvInit, InvNext, PTL DEF Spec

\* Every column and local variable keeps its type; a revoked, expired or held
\* token is a row, an ended one is revoked.
THEOREM TypeCorrect == Spec => []TypeOK
<1>1. Inv => TypeOK
  BY DEF Inv
<1> QED
  BY <1>1, Invariance, PTL

\* replaced_by_token_id always names the token of the same user that was
\* created in exchange, whatever other workers do to the two rows meanwhile.
THEOREM LinksCorrect == Spec => []RotationLinked
<1>1. Inv => RotationLinked
  BY DEF Inv
<1> QED
  BY <1>1, Invariance, PTL

\* No client receives a new token while the old one is accepted, for any number
\* of workers, and wherever a worker may die.
THEOREM RotationSafe == Spec => []RotatedBeforeAnswered
<1>1. Inv => RotatedBeforeAnswered
  BY DEF Inv
<1> QED
  BY <1>1, Invariance, PTL

-----------------------------------------------------------------------------
(* Ended sessions.  An exchange of an ended token was under way when the   *)
(* token was ended, since the check of a later one would have failed.      *)

Overtaken ==
  \A w \in Workers :
    /\ pc[w] \in {"refresh_create", "refresh_revoke", "respond"}
    /\ arg[w].tok \in ended
    => w \in raced

EndInv == Inv /\ Overtaken /\ EndedStaysEnded

LEMMA EndInvStep ==
  ASSUME EndInv, NEW w \in Workers, Step(w)
  PROVE  Overtaken' /\ EndedStaysEnded'
<1> USE NoneAssumption
    DEF EndInv, Inv, TypeOK, LocalsOK, LocalOK, RotatedBeforeAnswered,
        Overtaken, EndedStaysEnded, Goto, Proceed, Finish, Reject, NoRows,
        userVars, refreshVars, resetVars, tokenHist, endHist, heldHist
<1>0. \A v \in Workers \ {w} : pc'[v] = pc[v] /\ arg'[v] = arg[v]
  BY StepOthers
<1>1. ASSUME NEW S, S \subseteq RefreshTokens, End(S),
             UNCHANGED <<held, outlived, parent>>, revoked \subseteq revoked',
             pc'[w] = "idle"
      PROVE  Overtaken' /\ EndedStaysEnded'
  <2>1. \A v \in Workers :
          /\ pc'[v] \in {"refresh_create", "refresh_revoke", "respond"}
          /\ arg'[v].tok \in ended' 
          => v \in raced'
    <3> SUFFICES ASSUME NEW v \in Workers,
                 pc'[v] \in {"refresh_create", "refresh_revoke", "respond"},
                 arg'[v].tok \in ended'
          PROVE  v \in raced'
      OBVIOUS
    <3>1. pc[v] = pc'[v] /\ arg[v] = arg'[v]
      BY <1>0, <1>1
    <3>2. CASE arg[v].tok \in ended
      BY <1>1, <3>1, <3>2 DEF End
    <3>3. CASE arg[v].tok \in S \ revoked
      BY <1>1, <3>1, <3>3 DEF End, Exchanging
    <3> QED
      BY <1>1, <3>1, <3>2, <3>3 DEF End
  <2>2. EndedStaysEnded'
    BY <1>1 DEF End
  <2> QED
    BY <2>1, <2>2
<1>2. CASE LogoutRevoke(w)
  BY <1>1, <1>2 DEF LogoutRevoke, revoke_refresh_token
<1>3. CASE OthersRevoke(w)
  BY <1>1, <1>3 DEF OthersRevoke, revoke_all_refresh_tokens_except, TokensOf
<1>4. CASE ResetRevoke(w)
  BY <1>1, <1>4 DEF ResetRevoke, revoke_all_refresh_tokens, TokensOf
<1>5. CASE Respond(w)
  BY <1>0, <1>5 DEF Respond
<1>6. CASE RefreshFind(w)
  BY <1>0, <1>6 DEF RefreshFind, Live
<1>7. CASE LoginCreate(w)
  BY <1>0, <1>7 DEF LoginCreate, create_refresh_token
<1>11. CASE LoginClear(w)
  BY <1>0, <1>11 DEF LoginClear
<1>8. CASE RefreshCreate(w)
  BY <1>0, <1>8 DEF RefreshCreate, create_refresh_token
<1>9. CASE RefreshRevoke(w)
  BY <1>0, <1>9 DEF RefreshRevoke, revoke_refresh_token
<1>10. CASE \/ LoginUser(w) \/ LoginLock(w) \/ LoginFail(w)
            \/ RefreshReuse(w) \/ RefreshExpired(w)
            \/ LogoutFind(w) \/ OthersFind(w) \/ ForgotFind(w) \/ ForgotMint(w)
            \/ ResetFind(w) \/ ResetHash(w) \/ ResetConsume(w)
  BY <1>0, <1>10
     DEF LoginUser, LoginLock, LoginFail, RefreshReuse, RefreshExpired,
         LogoutFind, OthersFind, ForgotFind, ForgotMint, ResetFind,
         find_one_time_token, ResetHash,
         ResetConsume
<1> QED
  BY <1>2, <1>3, <1>4, <1>5, <1>6, <1>7, <1>8, <1>9, <1>10,
     <1>11 DEF Step

\* A session ended by a logout, by "revoke others" or by a reset stays ended,
\* for any number of workers; the only successors of an ended token that are
\* accepted come from exchanges that the ending overtook.
THEOREM EndedSessions == Spec => []EndedStaysEnded
<1>1. Init => EndInv
  BY InvInit DEF EndInv, Init, Overtaken, EndedStaysEnded
<1>2. ASSUME EndInv, [Next]_vars
      PROVE  EndInv'
  <2>1. Inv'
    BY <1>2, InvNext DEF EndInv
  <2>2. CASE UNCHANGED vars
    BY <1>2, <2>1, <2>2
       DEF vars, EndInv, Overtaken, EndedStaysEnded, refreshVars, tokenHist,
           endHist, heldHist
  <2>3. CASE Surroundings
    BY <1>2, <2>1, <2>3
       DEF Surroundings, RefreshTokenExpires, ResetTokenLapses, LockExpires,
           SetActive, Drop, Reject, Finish, NoRows, EndInv, Inv, TypeOK,
           Overtaken, EndedStaysEnded, refreshVars, tokenHist, endHist,
           heldHist
  <2>4. ASSUME NEW w \in Workers, Request(w)
        PROVE  EndInv'
    BY <1>2, <2>1, <2>4, RequestStep
       DEF EndInv, Overtaken, EndedStaysEnded, refreshVars, tokenHist, endHist,
           heldHist
  <2>5. ASSUME NEW w \in Workers, Step(w)
        PROVE  EndInv'
    BY <1>2, <2>1, <2>5, EndInvStep DEF EndInv
  <2> QED
    BY <1>2, <2>2, <2>3, <2>4, <2>5 DEF Next
<1>3. EndInv => EndedStaysEnded
  BY DEF EndInv
<1> QED
  BY <1>1, <1>2, <1>3, PTL DEF Spec

\* For any number of users, a session is revoked by a request of its own user or
\* with its own token: the statements that revoke keep to the user they are given.
THEOREM OwnSessions == Spec => OnlyOwnSessionsRevoked
<1> DEFINE Acts(t, w) == pc'[w] # pc[w] /\ (arg[w].tok = t \/ arg[w].user = owner[t])
<1>1. ASSUME Inv, [Next]_vars, NEW t \in revoked' \ revoked
      PROVE  \E w \in Workers : Acts(t, w)
  <2> USE DEF Inv, TypeOK
  <2>1. ASSUME NEW w \in Workers, RefreshRevoke(w) \/ LogoutRevoke(w)
        PROVE  Acts(t, w)
    BY <1>1, <2>1 DEF RefreshRevoke, LogoutRevoke, revoke_refresh_token, Proceed,
                      Goto, Finish
  <2>2. ASSUME NEW w \in Workers, OthersRevoke(w) \/ ResetRevoke(w)
        PROVE  Acts(t, w)
    BY <1>1, <2>2 DEF OthersRevoke, ResetRevoke, revoke_all_refresh_tokens,
                      revoke_all_refresh_tokens_except, SessionsOf, TokensOf, Finish
  <2>3. ASSUME NEW w \in Workers, Step(w)
        PROVE  \E v \in Workers : Acts(t, v)
    <3>1. CASE \/ LoginUser(w) \/ LoginLock(w) \/ LoginFail(w) \/ LoginCreate(w)
               \/ LoginClear(w) \/ Respond(w)
               \/ RefreshFind(w) \/ RefreshReuse(w) \/ RefreshExpired(w)
               \/ RefreshCreate(w)
               \/ LogoutFind(w) \/ OthersFind(w) \/ ForgotFind(w) \/ ForgotMint(w)
               \/ ResetFind(w) \/ ResetHash(w) \/ ResetConsume(w)
      <4>1. revoked' = revoked
        BY <3>1 DEF LoginUser, LoginLock, LoginFail, LoginCreate, LoginClear, Respond,
                    RefreshFind, RefreshReuse, RefreshExpired, RefreshCreate,
                    LogoutFind, OthersFind, ForgotFind, ForgotMint, ResetFind,
                    find_one_time_token,
                    ResetHash, ResetConsume, NoRows, refreshVars,
                    create_refresh_token
      <4> QED
        BY <1>1, <4>1
    <3> QED
      BY <2>1, <2>2, <2>3, <3>1 DEF Step
  <2>4. CASE \/ UNCHANGED vars \/ Surroundings
             \/ \E w \in Workers : Request(w)
    <3>1. revoked' = revoked
      <4>1. CASE UNCHANGED vars
        BY <4>1 DEF vars, refreshVars
      <4>2. CASE Surroundings
        BY <1>1, <4>2, SurroundingsStep
      <4>3. ASSUME NEW w \in Workers, Request(w)
            PROVE  revoked' = revoked
        BY <1>1, <4>3, RequestStep DEF refreshVars
      <4> QED
        BY <2>4, <4>1, <4>2, <4>3
    <3> QED
      BY <1>1, <3>1
  <2> QED
    BY <1>1, <2>3, <2>4 DEF Next
<1>2. Inv /\ [Next]_vars => [\A t \in revoked' \ revoked : \E w \in Workers : Acts(t, w)]_vars
  BY <1>1
<1> QED
  BY <1>2, Invariance, PTL DEF Spec, OnlyOwnSessionsRevoked

-----------------------------------------------------------------------------
(* Passwords.  A session in the hands of a client, one being exchanged and *)
(* one being answered was begun with the password its account has, or a    *)
(* reset is yet to revoke it (Settled); or the request was overtaken by a  *)
(* reset that is over, and says so (Late).                                 *)

Settled(t) == Current(t) \/ ResetUnderWay(owner[t])

Late(w) == w \in raced \/ arg[w].tok \in outlived

HeldSettled == \A t \in held \ revoked : Settled(t) \/ t \in outlived

ProvedNow(w) ==
  pc[w] \in {"login_lock", "login_create"} =>
    arg[w].seen = hash[arg[w].user] \/ w \in raced

ExchangedSettled(w) ==
  pc[w] \in {"refresh_create", "refresh_revoke"} =>
    Settled(arg[w].tok) \/ Late(w)

AnsweredSettled(w) ==
  pc[w] \in {"login_clear", "refresh_revoke", "respond"} =>
    arg[w].new \in revoked \/ Settled(arg[w].new) \/ Late(w)

RequestSettled(w) == ProvedNow(w) /\ ExchangedSettled(w) /\ AnsweredSettled(w)

AllSettled == HeldSettled /\ \A w \in Workers : RequestSettled(w)

\* What a statement does to passwords and to the sessions there are: only a reset
\* writes a hash, and no statement rewrites what a session was begun with.
LEMMA PasswordsKept ==
  ASSUME Inv, NEW w \in Workers, Step(w)
  PROVE  /\ hash' = hash \/ ResetHash(w)
         /\ \A t \in issued : owner'[t] = owner[t] /\ secret'[t] = secret[t]
<1> USE DEF Inv, TypeOK, userVars, refreshVars, tokenHist, NoRows
<1>1. CASE LoginCreate(w) \/ RefreshCreate(w)
  BY <1>1 DEF LoginCreate, RefreshCreate, create_refresh_token
<1>2. CASE LoginFail(w) \/ LoginClear(w)
  BY <1>2 DEF LoginFail, LoginClear, register_login_failure, reset_login_failures
<1>3. CASE \/ RefreshRevoke(w) \/ LogoutRevoke(w) \/ OthersRevoke(w)
           \/ ResetRevoke(w)
  BY <1>3 DEF RefreshRevoke, LogoutRevoke, OthersRevoke, ResetRevoke,
              revoke_refresh_token, revoke_all_refresh_tokens,
              revoke_all_refresh_tokens_except
<1>4. CASE ResetHash(w)
  BY <1>4 DEF ResetHash
<1>5. CASE \/ LoginUser(w) \/ LoginLock(w) \/ Respond(w) \/ RefreshFind(w)
           \/ RefreshReuse(w) \/ RefreshExpired(w) \/ LogoutFind(w)
           \/ OthersFind(w) \/ ForgotFind(w) \/ ForgotMint(w) \/ ResetFind(w)
           \/ ResetConsume(w)
  BY <1>5 DEF LoginUser, LoginLock, Respond, RefreshFind, RefreshReuse,
              RefreshExpired, LogoutFind, OthersFind, ForgotFind, ForgotMint,
              ResetFind, find_one_time_token, ResetConsume
<1> QED
  BY <1>1, <1>2, <1>3, <1>4, <1>5 DEF Step

\* A settled session stays settled, unless the reset that was to revoke it now does.
LEMMA SettledKept ==
  ASSUME Inv, NEW w \in Workers, Step(w), NEW t \in issued, Settled(t)
  PROVE  Settled(t)' \/ (ResetRevoke(w) /\ owner[t] = arg[w].user)
<1>1. owner'[t] = owner[t] /\ secret'[t] = secret[t] /\ owner[t] \in Users
  BY PasswordsKept DEF Inv, RowsOK
<1>2. CASE ResetUnderWay(owner[t])
  <2>1. PICK v \in Workers : /\ pc[v] \in {"reset_consume", "reset_revoke"}
                             /\ arg[v].user = owner[t]
    BY <1>2 DEF ResetUnderWay
  <2>2. CASE v # w
    <3>1. pc'[v] = pc[v] /\ arg'[v] = arg[v]
      BY <2>2, StepOthers
    <3> QED
      BY <1>1, <2>1, <3>1 DEF Settled, ResetUnderWay
  <2>3. CASE v = w
    <3>1. ResetConsume(w) \/ ResetRevoke(w)
      BY <2>1, <2>3 DEF Step, LoginUser, LoginLock, LoginFail, LoginCreate,
         LoginClear, Respond, RefreshFind, RefreshReuse, RefreshExpired,
         RefreshCreate, RefreshRevoke, LogoutFind, LogoutRevoke, OthersFind,
         OthersRevoke, ForgotFind, ForgotMint, ResetFind,
         find_one_time_token, ResetHash
    <3>2. ASSUME ResetConsume(w)
          PROVE  pc'[w] = "reset_revoke" /\ arg'[w] = arg[w]
      BY <3>2 DEF ResetConsume, Proceed, Goto, Inv, TypeOK
    <3> QED
      BY <1>1, <2>1, <2>3, <3>1, <3>2 DEF Settled, ResetUnderWay
  <2> QED
    BY <2>2, <2>3
<1>3. CASE Current(t)
  <2>1. CASE hash' = hash
    BY <1>1, <1>3, <2>1 DEF Settled, Current
  <2>2. CASE ResetHash(w) /\ arg[w].user = owner[t]
    <3>1. pc'[w] = "reset_consume" /\ arg'[w] = arg[w]
      BY <2>2 DEF ResetHash, Goto, Inv, TypeOK
    <3> QED
      BY <1>1, <2>2, <3>1 DEF Settled, ResetUnderWay
  <2>3. CASE ResetHash(w) /\ arg[w].user # owner[t]
    <3>1. hash'[owner[t]] = hash[owner[t]]
      BY <1>1, <2>3 DEF ResetHash, set_user_password_hash, Inv, TypeOK
    <3> QED
      BY <1>1, <1>3, <3>1 DEF Settled, Current
  <2> QED
    BY <2>1, <2>2, <2>3, PasswordsKept
<1> QED
  BY <1>2, <1>3 DEF Settled

\* What a statement leaves as it is, whoever runs it.
LEMMA LateKept ==
  ASSUME Inv, NEW w \in Workers, Step(w)
  PROVE  /\ outlived \subseteq outlived'
         /\ raced \ {w} \subseteq raced'
         /\ \A v \in Workers \ {w} : Late(v) => Late(v)'
<1>1. outlived \subseteq outlived' /\ raced \ {w} \subseteq raced'
  <2> USE DEF endHist, heldHist, Proceed, Reject, End
  <2>1. CASE Respond(w)
    BY <2>1 DEF Respond
  <2>2. CASE LogoutRevoke(w) \/ OthersRevoke(w) \/ ResetRevoke(w) \/ ResetHash(w)
    BY <2>2 DEF LogoutRevoke, OthersRevoke, ResetRevoke, ResetHash
  <2>3. CASE \/ LoginUser(w) \/ LoginLock(w) \/ LoginFail(w) \/ LoginCreate(w)
             \/ LoginClear(w) \/ RefreshFind(w) \/ RefreshReuse(w)
             \/ RefreshExpired(w) \/ RefreshCreate(w) \/ RefreshRevoke(w)
             \/ LogoutFind(w) \/ OthersFind(w) \/ ForgotFind(w)
             \/ ForgotMint(w) \/ ResetFind(w) \/ ResetConsume(w)
    BY <2>3 DEF LoginUser, LoginLock, LoginFail, LoginCreate, LoginClear,
                RefreshFind, RefreshReuse, RefreshExpired, RefreshCreate,
                RefreshRevoke, LogoutFind, OthersFind, ForgotFind, ForgotMint,
                ResetFind, find_one_time_token, ResetConsume
  <2> QED
    BY <2>1, <2>2, <2>3 DEF Step
<1> QED
  BY <1>1, StepOthers DEF Late

\* The requests that other workers serve stay settled or know that they are late.
LEMMA OthersSettled ==
  ASSUME Inv, NEW w \in Workers, Step(w), NEW v \in Workers \ {w},
         RequestSettled(v)
  PROVE  RequestSettled(v)'
<1>0. /\ pc'[v] = pc[v] /\ arg'[v] = arg[v]
      /\ v \in raced => v \in raced'
      /\ Late(v) => Late(v)'
      /\ revoked \subseteq revoked'
  BY StepOthers, LateKept, RowsGrow DEF Inv, Grows, Next
<1>1. ProvedNow(v)'
  <2>1. CASE hash' = hash
    BY <1>0, <2>1 DEF RequestSettled, ProvedNow
  <2>2. CASE ResetHash(w)
    <3> SUFFICES ASSUME pc[v] \in {"login_lock", "login_create"},
                        arg[v].seen = hash[arg[v].user]
                 PROVE  v \in raced' \/ arg[v].seen = hash'[arg[v].user]
      BY <1>0 DEF RequestSettled, ProvedNow
    <3>1. CASE arg[v].user = arg[w].user
      BY <2>2, <3>1 DEF ResetHash, Proving
    <3>2. CASE arg[v].user # arg[w].user
      BY <2>2, <3>2 DEF ResetHash, set_user_password_hash, Inv, TypeOK,
                        LocalsOK, LocalOK
    <3> QED
      BY <3>1, <3>2
  <2> QED
    BY <2>1, <2>2, PasswordsKept
<1>2. ExchangedSettled(v)'
  <2> SUFFICES ASSUME pc[v] \in {"refresh_create", "refresh_revoke"},
                      Settled(arg[v].tok)
               PROVE  Settled(arg[v].tok)' \/ v \in raced'
    BY <1>0 DEF RequestSettled, ExchangedSettled, Late
  <2>1. arg[v].tok \in issued
    BY DEF Inv, LocalsOK, LocalOK, TypeOK
  <2>2. ASSUME ResetRevoke(w), owner[arg[v].tok] = arg[w].user
        PROVE  v \in raced'
    BY <2>1, <2>2 DEF ResetRevoke, End, TokensOf, Exchanging
  <2> QED
    BY <1>0, <2>1, <2>2, SettledKept
<1>3. AnsweredSettled(v)'
  <2> SUFFICES ASSUME pc[v] \in {"login_clear", "refresh_revoke", "respond"},
                      Settled(arg[v].new), arg[v].new \notin revoked
               PROVE  Settled(arg[v].new)' \/ arg[v].new \in revoked'
    BY <1>0 DEF RequestSettled, AnsweredSettled
  <2>1. arg[v].new \in issued
    BY DEF Inv, LocalsOK, LocalOK
  <2>2. ASSUME ResetRevoke(w), owner[arg[v].new] = arg[w].user
        PROVE  arg[v].new \in revoked'
    BY <2>1, <2>2 DEF ResetRevoke, revoke_all_refresh_tokens, SessionsOf,
                      TokensOf
  <2> QED
    BY <1>0, <2>1, <2>2, SettledKept
<1> QED
  BY <1>1, <1>2, <1>3 DEF RequestSettled

\* So does the request of the worker that moves.
LEMMA OwnSettled ==
  ASSUME Inv, AllSettled, NEW w \in Workers, Step(w)
  PROVE  RequestSettled(w)'
<1> USE NoneAssumption DEF RequestSettled, ProvedNow, ExchangedSettled, AnsweredSettled
<1>0. /\ arg[w] \in Args /\ RequestSettled(w) /\ LocalOK(w)
      /\ pc \in [Workers -> Statements \cup {"idle"}] /\ arg \in [Workers -> Args]
  BY DEF AllSettled, Inv, TypeOK, LocalsOK
<1>1. CASE LoginUser(w)
  <2>1. CASE pc'[w] = "idle"
    BY <2>1
  <2>2. CASE Proceed(w, "login_lock", [arg[w] EXCEPT !.seen = hash[arg[w].user]])
    <3>1. hash' = hash /\ arg'[w].seen = hash[arg[w].user] /\ arg'[w].user = arg[w].user
      BY <1>0, <1>1, <2>2 DEF LoginUser, NoRows, userVars, Proceed, Goto, Args
    <3>2. pc'[w] = "login_lock"
      BY <1>0, <2>2 DEF Proceed, Goto
    <3> QED
      BY <3>1, <3>2
  <2> QED
    BY <1>0, <1>1, <2>1, <2>2 DEF LoginUser, Reject, Finish
<1>2. CASE LoginLock(w)
  <2>1. hash' = hash
    BY <1>2 DEF LoginLock, NoRows, userVars
  <2>2. \/ pc'[w] \in {"idle", "login_fail"}
        \/ pc'[w] = "login_create" /\ arg'[w] = arg[w] /\ raced' = raced
    BY <1>0, <1>2 DEF LoginLock, Reject, Finish, Proceed, Goto, endHist
  <2> QED
    BY <1>0, <1>2, <2>1, <2>2 DEF LoginLock
<1>3. CASE LoginCreate(w)
  <2>1. PICK t \in RefreshTokens :
          /\ create_refresh_token(t, arg[w].user)
          /\ secret' = [secret EXCEPT ![t] = arg[w].seen]
          /\ Proceed(w, "login_clear", [arg[w] EXCEPT !.new = t])
    BY <1>3 DEF LoginCreate
  <2>2. pc'[w] = "login_clear" /\ arg'[w].new = t /\ raced' = raced
    BY <1>0, <2>1 DEF Proceed, Goto, endHist, Args
  <2>3. owner'[t] = arg[w].user /\ secret'[t] = arg[w].seen /\ hash' = hash
    BY <1>3, <2>1 DEF LoginCreate, create_refresh_token, userVars, Inv, TypeOK
  <2>4. arg[w].user \in Users /\ (arg[w].seen = hash[arg[w].user] \/ w \in raced)
    BY <1>0, <1>3 DEF LoginCreate, LocalOK
  <2>5. Settled(t)' \/ w \in raced'
    BY <2>2, <2>3, <2>4 DEF Settled, Current
  <2> QED
    BY <2>2, <2>5 DEF Late
<1>4. CASE LoginClear(w)
  <2>1. pc'[w] = "respond" /\ arg'[w] = arg[w]
    BY <1>0, <1>4 DEF LoginClear, Goto
  <2>2. raced' = raced /\ outlived' = outlived /\ revoked' = revoked
    BY <1>4 DEF LoginClear, endHist, heldHist, refreshVars
  <2>3. arg[w].new \in issued /\ ~ResetRevoke(w)
    BY <1>0, <1>4 DEF LoginClear, LocalOK, ResetRevoke
  <2>4. \A t \in issued : Settled(t) => Settled(t)'
    BY <2>3, SettledKept
  <2> QED
    BY <1>0, <1>4, <2>1, <2>2, <2>3, <2>4 DEF LoginClear, Late
<1>5. CASE RefreshFind(w)
  <2>1. /\ pc'[w] = "refresh_create" /\ arg'[w].tok = arg[w].tok
        /\ raced' = raced /\ outlived' = outlived
    BY <1>0, <1>5 DEF RefreshFind, Proceed, Goto, endHist, heldHist, Args
  <2>2. arg[w].tok \in held \ revoked /\ arg[w].tok \in issued /\ ~ResetRevoke(w)
    BY <1>0, <1>5 DEF RefreshFind, Live, LocalOK, ResetRevoke
  <2>3. Settled(arg[w].tok) \/ arg[w].tok \in outlived
    BY <2>2 DEF AllSettled, HeldSettled
  <2>4. \A t \in issued : Settled(t) => Settled(t)'
    BY <2>2, SettledKept
  <2> QED
    BY <2>1, <2>2, <2>3, <2>4 DEF Late
<1>6. CASE RefreshCreate(w)
  <2>1. PICK t \in RefreshTokens :
          /\ create_refresh_token(t, arg[w].user)
          /\ secret' = [secret EXCEPT ![t] = secret[arg[w].tok]]
          /\ Proceed(w, "refresh_revoke", [arg[w] EXCEPT !.new = t])
    BY <1>6 DEF RefreshCreate
  <2>2. /\ pc'[w] = "refresh_revoke" /\ arg'[w].new = t /\ arg'[w].tok = arg[w].tok
        /\ raced' = raced /\ outlived' = outlived
    BY <1>0, <1>6, <2>1 DEF RefreshCreate, Proceed, Goto, endHist, heldHist, Args
  <2>3. PICK k \in issued : k = arg[w].tok /\ owner[k] = arg[w].user
    BY <1>0, <1>6 DEF RefreshCreate, LocalOK, Inv, TypeOK
  <2>4. owner'[k] = owner[k] /\ secret'[k] = secret[k]
    BY PasswordsKept
  <2>5. owner'[t] = owner'[k] /\ secret'[t] = secret'[k]
    BY <2>1, <2>3, <2>4 DEF create_refresh_token, Inv, TypeOK
  <2>6. Settled(k) => Settled(k)'
    BY <1>6, SettledKept DEF RefreshCreate, ResetRevoke
  <2>7. Settled(k)' => Settled(t)'
    BY <2>5 DEF Settled, Current
  <2>8. Settled(k) \/ Late(w)
    BY <1>0, <1>6, <2>3 DEF RefreshCreate
  <2> QED
    BY <2>2, <2>3, <2>6, <2>7, <2>8 DEF Late
<1>7. CASE RefreshRevoke(w)
  <2>1. /\ pc'[w] = "respond" /\ arg'[w] = arg[w]
        /\ raced' = raced /\ outlived' = outlived /\ revoked \subseteq revoked'
    BY <1>0, <1>7 DEF RefreshRevoke, revoke_refresh_token, Proceed, Goto, endHist,
                      heldHist
  <2>2. arg[w].new \in issued /\ ~ResetRevoke(w)
    BY <1>0, <1>7 DEF RefreshRevoke, LocalOK, ResetRevoke
  <2>3. \A t \in issued : Settled(t) => Settled(t)'
    BY <2>2, SettledKept
  <2> QED
    BY <1>0, <1>7, <2>1, <2>2, <2>3 DEF RefreshRevoke, Late
<1>8. CASE \/ LoginFail(w) \/ Respond(w) \/ RefreshReuse(w) \/ RefreshExpired(w)
           \/ LogoutFind(w) \/ LogoutRevoke(w) \/ OthersFind(w) \/ OthersRevoke(w)
           \/ ForgotFind(w) \/ ForgotMint(w) \/ ResetFind(w) \/ ResetHash(w)
           \/ ResetConsume(w) \/ ResetRevoke(w)
  <2>1. pc'[w] \in {"idle", "logout_revoke", "others_revoke", "forgot_mint",
                    "reset_hash", "reset_consume", "reset_revoke"}
    BY <1>0, <1>8
       DEF LoginFail, Respond, RefreshReuse, RefreshExpired, LogoutFind,
           LogoutRevoke, OthersFind, OthersRevoke, ForgotFind, ForgotMint,
           ResetFind,
           find_one_time_token, ResetHash, ResetConsume, ResetRevoke, Reject, Finish,
           Proceed, Goto
  <2> QED
    BY <2>1
<1> QED
  BY <1>1, <1>2, <1>3, <1>4, <1>5, <1>6, <1>7, <1>8 DEF Step

\* A token that reaches its client is settled, or known to have outlived a reset.
LEMMA HandsSettled ==
  ASSUME Inv, AllSettled, NEW w \in Workers, Step(w)
  PROVE  HeldSettled'
<1> SUFFICES ASSUME NEW t \in held' \ revoked'
             PROVE  Settled(t)' \/ t \in outlived'
  BY DEF HeldSettled
<1>1. revoked \subseteq revoked' /\ outlived \subseteq outlived'
  BY LateKept, RowsGrow DEF Inv, Grows, Next
<1>2. ASSUME t \in issued, Settled(t)
      PROVE  Settled(t)'
  <2>1. ASSUME ResetRevoke(w), owner[t] = arg[w].user
        PROVE  t \in revoked'
    BY <1>2, <2>1 DEF ResetRevoke, revoke_all_refresh_tokens, SessionsOf, TokensOf
  <2> QED
    BY <1>2, <2>1, SettledKept
<1>3. CASE t \in held
  BY <1>1, <1>2, <1>3 DEF AllSettled, HeldSettled, Inv, TypeOK
<1>4. CASE t \notin held
  <2>1. Respond(w)
    BY <1>4 DEF Step, LoginUser, LoginLock, LoginFail, LoginCreate, LoginClear,
       RefreshFind, RefreshReuse, RefreshExpired, RefreshCreate, RefreshRevoke,
       LogoutFind, LogoutRevoke, OthersFind, OthersRevoke, ForgotFind, ForgotMint,
       ResetFind,
       find_one_time_token, ResetHash, ResetConsume, ResetRevoke, heldHist
  <2>2. t = arg[w].new /\ t \in issued /\ (Late(w) => t \in outlived')
    BY <1>4, <2>1 DEF Respond, Late, Inv, LocalsOK, LocalOK
  <2>3. Settled(t) \/ Late(w)
    BY <1>1, <2>1, <2>2 DEF Respond, AllSettled, RequestSettled, AnsweredSettled
  <2> QED
    BY <1>2, <2>2, <2>3
<1> QED
  BY <1>3, <1>4

\* A request takes an idle worker to the first statement of a handler, and no more.
LEMMA RequestBegins ==
  ASSUME Inv, NEW w \in Workers, Request(w)
  PROVE  /\ pc[w] = "idle" /\ pc'[w] \in Opening
         /\ UNCHANGED <<hash, failures, locked, owner, revoked, secret, held, raced,
                        outlived, guessHist>>
<1>1. PICK s \in Opening : \E a : Begin(w, s, a)
  BY RequestOpens
<1> QED
  BY <1>1 DEF Begin, Inv, TypeOK, userVars, refreshVars, tokenHist, endHist, heldHist

\* The clock, the operator and new requests change neither passwords nor sessions.
LEMMA RestSettled ==
  ASSUME Inv, AllSettled, "fault" \notin Kinds,
         Surroundings \/ UNCHANGED vars \/ \E w \in Workers : Request(w)
  PROVE  AllSettled'
<1> DEFINE Kept == UNCHANGED <<hash, owner, secret, held, revoked, raced, outlived>>
           Waits(v) == pc'[v] = pc[v] /\ arg'[v] = arg[v]
           Opens(v) == pc[v] = "idle" /\ pc'[v] \in Opening
<1>1. Kept /\ \A v \in Workers : Waits(v) \/ Opens(v)
  <2> USE DEF userVars, refreshVars, tokenHist, endHist, heldHist
  <2>1. CASE UNCHANGED vars
    BY <2>1 DEF vars
  <2>2. CASE Surroundings
    BY <2>2 DEF Surroundings, RefreshTokenExpires, ResetTokenLapses, LockExpires,
                SetActive, Drop
  <2>3. ASSUME NEW w \in Workers, Request(w)
        PROVE  Kept /\ Opens(w) /\ \A v \in Workers \ {w} : Waits(v)
    <3>1. Kept /\ Opens(w)
      BY <2>3, RequestBegins
    <3>2. \A v \in Workers \ {w} : Waits(v)
      BY <2>3, RequestStep
    <3> QED
      BY <3>1, <3>2
  <2> QED
    BY <2>1, <2>2, <2>3
<1>2. \A v \in Workers : Waits(v) \/ Opens(v)
  BY <1>1
<1>3. \A t : Settled(t) => Settled(t)'
  BY <1>1, <1>2 DEF Settled, Current, ResetUnderWay
<1>4. HeldSettled'
  BY <1>1, <1>3 DEF AllSettled, HeldSettled
<1>5. ASSUME NEW v \in Workers
      PROVE  RequestSettled(v)'
  <2>1. RequestSettled(v)
    BY DEF AllSettled
  <2>2. CASE Waits(v)
    BY <1>1, <1>3, <2>1, <2>2 DEF RequestSettled, ProvedNow, ExchangedSettled,
                                  AnsweredSettled, Late
  <2>3. CASE Opens(v)
    BY <2>3 DEF Opening, RequestSettled, ProvedNow, ExchangedSettled, AnsweredSettled
  <2> QED
    BY <1>2, <2>2, <2>3
<1> QED
  BY <1>4, <1>5 DEF AllSettled

\* For any number of users, tokens and workers: a session that a client can use began
\* with the password the account has, unless its login or refresh had passed its check
\* before a reset that is over, or a reset is still to end it.
THEOREM PasswordsCurrent == Spec => []PasswordCurrent
<1> DEFINE J == Inv /\ ("fault" \notin Kinds => AllSettled)
<1>1. Init => J
  BY InvInit DEF Init, AllSettled, HeldSettled, RequestSettled, ProvedNow,
                 ExchangedSettled, AnsweredSettled
<1>2. J /\ [Next]_vars => J'
  <2> SUFFICES ASSUME J, [Next]_vars, "fault" \notin Kinds
               PROVE  AllSettled'
    BY InvNext
  <2>1. ASSUME NEW w \in Workers, Step(w)
        PROVE  AllSettled'
    BY <2>1, OthersSettled, OwnSettled, HandsSettled DEF AllSettled
  <2> QED
    BY <2>1, RestSettled DEF Next
<1>3. J => PasswordCurrent
  BY DEF PasswordCurrent, AllSettled, HeldSettled, Settled
<1> QED
  BY <1>1, <1>2, <1>3, PTL DEF Spec

-----------------------------------------------------------------------------
(* Guesses.  A wrong password is counted or still to be counted by a worker  *)
(* (Guessing) as long as the account is not locked, but for those of earlier  *)
(* locks: one for each worker and lock that expired.  The failure that locks  *)
(* the account, the last of Tally, is not among those still to come.          *)

Guessing(u) == {w \in Workers : pc[w] = "login_fail" /\ arg[w].user = u}

Tally(u) == IF failures[u] < MaxFailures THEN failures[u] ELSE MaxFailures - 1

\* The share of the locks that expired.
Past(u) == unlocks[u] * Cardinality(Workers)

Guesses(u) ==
  /\ guesses[u] < Allowed(u)
  /\ u \in locked => failures[u] = MaxFailures
  /\ u \notin locked =>
       guesses[u] <= Cardinality(Guessing(u)) + Past(u) + Tally(u)

LEMMA GuessingFinite ==
  ASSUME NEW u
  PROVE  /\ IsFiniteSet(Guessing(u))
         /\ Cardinality(Guessing(u)) \in Nat
         /\ Cardinality(Workers) \in Nat
         /\ Cardinality(Guessing(u)) <= Cardinality(Workers)
<1>1. Guessing(u) \in SUBSET Workers
  BY DEF Guessing
<1> QED
  BY <1>1, WorkersAssumption, FS_Subset, FS_CardinalityType

LEMMA Successor ==
  ASSUME NEW n \in Nat, NEW k \in Nat
  PROVE  n * k \in Nat /\ (n + 1) * k = n * k + k
  OBVIOUS

\* What is allowed: the limit, the locks that expired and the present one.
LEMMA AllowedShare ==
  ASSUME NEW u, unlocks[u] \in Nat
  PROVE  /\ Past(u) \in Nat
         /\ Allowed(u) = MaxFailures + Past(u) + Cardinality(Workers)
<1>1. Cardinality(Workers) \in Nat
  BY GuessingFinite
<1> QED
  BY <1>1, Successor, MaxFailuresAssumption DEF Allowed, Past

\* An account that nobody guesses at in a step keeps its bound.
LEMMA GuessesKept ==
  ASSUME NEW u \in Users, Guesses(u),
         guesses'[u] = guesses[u], unlocks'[u] = unlocks[u],
         failures'[u] = failures[u], u \in locked <=> u \in locked',
         Guessing(u)' = Guessing(u)
  PROVE  Guesses(u)'
  BY DEF Guesses, Tally, Allowed, Past

\* A login that restarts the counter puts the account within its bound, whoever is
\* still guessing.
LEMMA GuessesRestart ==
  ASSUME NEW u \in Users, guesses'[u] = 0, unlocks'[u] = 0, failures'[u] = 0,
         u \notin locked'
  PROVE  Guesses(u)'
<1>1. Cardinality(Guessing(u)') \in Nat /\ Cardinality(Workers) \in Nat
  <2>1. Guessing(u)' \in SUBSET Workers
    BY DEF Guessing
  <2> QED
    BY <2>1, WorkersAssumption, FS_Subset, FS_CardinalityType
<1> QED
  BY <1>1, MaxFailuresAssumption DEF Guesses, Tally, Allowed, Past

\* A lock that expires leaves the counter at its limit, and allows one wrong password
\* more for each worker.
LEMMA GuessesUnlocked ==
  ASSUME Inv, NEW u \in Users, Guesses(u), LockExpires(u),
         Guessing(u)' = Guessing(u)
  PROVE  Guesses(u)'
<1>1. /\ u \in locked /\ u \notin locked' /\ unlocks'[u] = unlocks[u] + 1
      /\ guesses'[u] = guesses[u] /\ failures'[u] = failures[u]
      /\ unlocks[u] \in Nat /\ guesses[u] \in Nat
  BY MaxUnlocksAssumption DEF LockExpires, Inv, TypeOK
<1>2. /\ Past(u) \in Nat
      /\ Allowed(u) = MaxFailures + Past(u) + Cardinality(Workers)
      /\ Past(u)' = Past(u) + Cardinality(Workers)
      /\ Allowed(u)' = MaxFailures + Past(u)' + Cardinality(Workers)
  BY <1>1, AllowedShare, Successor, GuessingFinite, MaxFailuresAssumption
     DEF Past, Allowed
<1>3. Tally(u)' = MaxFailures - 1
  BY <1>1, MaxFailuresAssumption DEF Tally, Guesses
<1> QED
  BY <1>1, <1>2, <1>3, GuessingFinite, MaxFailuresAssumption DEF Guesses

\* A wrong password is one more guess, and one more worker that is to count it.
LEMMA GuessAdded ==
  ASSUME Inv, NEW w \in Workers, NEW u \in Users, Guesses(u), u \notin locked,
         w \notin Guessing(u), Guessing(u)' = Guessing(u) \cup {w},
         guesses'[u] = Counted(u), unlocks'[u] = unlocks[u],
         failures'[u] = failures[u], locked' = locked
  PROVE  Guesses(u)'
<1>1. Cardinality(Guessing(u)') = Cardinality(Guessing(u)) + 1
  BY GuessingFinite, FS_AddElement
<1>2. Cardinality(Guessing(u)') <= Cardinality(Workers)
  <2>1. Guessing(u)' \in SUBSET Workers
    BY DEF Guessing
  <2> QED
    BY <2>1, WorkersAssumption, FS_Subset
<1>3. /\ guesses[u] \in Nat /\ unlocks[u] \in Nat
      /\ failures[u] \in 0 .. MaxFailures
  BY MaxUnlocksAssumption DEF Inv, TypeOK
<1>4. /\ Past(u) \in Nat
      /\ Allowed(u) = MaxFailures + Past(u) + Cardinality(Workers)
      /\ Past(u)' = Past(u) /\ Allowed(u)' = Allowed(u) /\ Tally(u)' = Tally(u)
  BY <1>3, AllowedShare DEF Past, Allowed, Tally
<1>5. Tally(u) \in 0 .. MaxFailures - 1
  BY <1>3, MaxFailuresAssumption DEF Tally
<1> QED
  BY <1>1, <1>2, <1>3, <1>4, <1>5, GuessingFinite, MaxFailuresAssumption
     DEF Guesses, Counted

\* A counted failure is one guess fewer to come; the last one locks the account.
LEMMA GuessCounted ==
  ASSUME Inv, NEW w \in Workers, NEW u \in Users, Guesses(u),
         w \in Guessing(u), Guessing(u)' = Guessing(u) \ {w},
         guesses' = guesses, unlocks' = unlocks, register_login_failure(u)
  PROVE  Guesses(u)'
<1>1. Cardinality(Guessing(u)') = Cardinality(Guessing(u)) - 1
  BY GuessingFinite, FS_RemoveElement
<1>2. /\ guesses[u] \in Nat /\ unlocks[u] \in Nat
      /\ failures[u] \in 0 .. MaxFailures
  BY MaxUnlocksAssumption DEF Inv, TypeOK
<1>3. /\ failures'[u] = IF failures[u] < MaxFailures THEN failures[u] + 1 ELSE failures[u]
      /\ locked' = IF failures[u] + 1 >= MaxFailures THEN locked \cup {u} ELSE locked
  BY DEF register_login_failure, Inv, TypeOK
<1>4. /\ Past(u) \in Nat /\ Past(u)' = Past(u) /\ Allowed(u)' = Allowed(u)
  BY <1>2, AllowedShare DEF Past, Allowed
<1> QED
  BY <1>1, <1>2, <1>3, <1>4, GuessingFinite, MaxFailuresAssumption
     DEF Guesses, Tally

\* A statement keeps the bound of every account.
LEMMA GuessesStep ==
  ASSUME Inv, "fault" \notin Kinds, NEW w \in Workers, Step(w),
         NEW u \in Users, Guesses(u)
  PROVE  Guesses(u)'
<1> USE DEF Inv, TypeOK, userVars, guessHist, NoRows
<1>0. /\ \A v \in Workers \ {w} : pc'[v] = pc[v] /\ arg'[v] = arg[v]
      /\ arg[w] \in Args
  BY StepOthers
<1>1. ASSUME pc[w] # "login_fail", pc'[w] # "login_fail"
      PROVE  Guessing(u)' = Guessing(u)
  BY <1>0, <1>1 DEF Guessing
<1>2. CASE LoginLock(w)
  <2>1. CASE pc'[w] # "login_fail"
    BY <1>1, <1>2, <2>1, GuessesKept DEF LoginLock, Reject, Proceed, Goto
  <2>2. CASE pc'[w] = "login_fail"
    <3>1. /\ arg[w].user \notin locked /\ arg'[w] = arg[w]
          /\ guesses' = [guesses EXCEPT ![arg[w].user] = Counted(arg[w].user)]
          /\ UNCHANGED <<failures, locked, unlocks>>
      BY <1>2, <2>2 DEF LoginLock, Reject, Finish, Proceed, Goto
    <3>2. CASE arg[w].user = u
      <4>1. w \notin Guessing(u) /\ Guessing(u)' = Guessing(u) \cup {w}
        BY <1>0, <1>2, <2>2, <3>1, <3>2 DEF LoginLock, Guessing
      <4> QED
        BY <3>1, <3>2, <4>1, GuessAdded
    <3>3. CASE arg[w].user # u
      <4>1. Guessing(u)' = Guessing(u)
        BY <1>0, <3>1, <3>3 DEF Guessing
      <4> QED
        BY <3>1, <3>3, <4>1, GuessesKept
    <3> QED
      BY <3>2, <3>3
  <2> QED
    BY <2>1, <2>2
<1>3. CASE LoginFail(w)
  <2>1. /\ register_login_failure(arg[w].user) /\ UNCHANGED <<guesses, unlocks>>
        /\ pc[w] = "login_fail" /\ pc'[w] = "idle" /\ arg[w].user \in Users
    BY <1>3 DEF LoginFail, Reject, Finish, LocalsOK, LocalOK
  <2>2. CASE arg[w].user = u
    <3>1. w \in Guessing(u) /\ Guessing(u)' = Guessing(u) \ {w}
      BY <1>0, <2>1, <2>2 DEF Guessing
    <3> QED
      BY <2>1, <2>2, <3>1, GuessCounted
  <2>3. CASE arg[w].user # u
    <3>1. Guessing(u)' = Guessing(u)
      BY <1>0, <2>1, <2>3 DEF Guessing
    <3>2. failures'[u] = failures[u] /\ (u \in locked <=> u \in locked')
      BY <2>1, <2>3 DEF register_login_failure
    <3> QED
      BY <2>1, <3>1, <3>2, GuessesKept
  <2> QED
    BY <2>2, <2>3
<1>4. CASE LoginClear(w)
  <2>1. /\ reset_login_failures(arg[w].user)
        /\ guesses' = [guesses EXCEPT ![arg[w].user] = 0]
        /\ unlocks' = [unlocks EXCEPT ![arg[w].user] = 0]
    BY <1>4 DEF LoginClear
  <2>2. CASE arg[w].user = u
    BY <2>1, <2>2, GuessesRestart DEF reset_login_failures
  <2>3. CASE arg[w].user # u
    <3>1. Guessing(u)' = Guessing(u)
      BY <1>1, <1>4 DEF LoginClear, Goto
    <3> QED
      BY <2>1, <2>3, <3>1, GuessesKept DEF reset_login_failures
  <2> QED
    BY <2>2, <2>3
<1>5. CASE \/ LoginUser(w) \/ LoginCreate(w) \/ Respond(w) \/ RefreshFind(w)
           \/ RefreshReuse(w) \/ RefreshExpired(w) \/ RefreshCreate(w)
           \/ RefreshRevoke(w) \/ LogoutFind(w) \/ LogoutRevoke(w)
           \/ OthersFind(w) \/ OthersRevoke(w) \/ ForgotFind(w) \/ ForgotMint(w)
           \/ ResetFind(w) \/ ResetHash(w) \/ ResetConsume(w) \/ ResetRevoke(w)
  <2>1. UNCHANGED <<failures, locked, guesses, unlocks>>
    BY <1>5
       DEF LoginUser, LoginCreate, Respond, RefreshFind, RefreshReuse,
           RefreshExpired, RefreshCreate, RefreshRevoke, LogoutFind, LogoutRevoke,
           OthersFind, OthersRevoke, ForgotFind, ForgotMint, ResetFind,
           find_one_time_token, ResetHash,
           ResetConsume, ResetRevoke, Reject, Proceed, set_user_password_hash
  <2>2. pc[w] # "login_fail" /\ pc'[w] # "login_fail"
    BY <1>5
       DEF LoginUser, LoginCreate, Respond, RefreshFind, RefreshReuse,
           RefreshExpired, RefreshCreate, RefreshRevoke, LogoutFind, LogoutRevoke,
           OthersFind, OthersRevoke, ForgotFind, ForgotMint, ResetFind,
           find_one_time_token, ResetHash,
           ResetConsume, ResetRevoke, Reject, Finish, Proceed, Goto
  <2> QED
    BY <1>1, <2>1, <2>2, GuessesKept
<1> QED
  BY <1>2, <1>3, <1>4, <1>5 DEF Step

\* So do requests, the clock and the operator.
LEMMA GuessesRest ==
  ASSUME Inv, "fault" \notin Kinds, NEW u \in Users, Guesses(u),
         Surroundings \/ UNCHANGED vars \/ \E w \in Workers : Request(w)
  PROVE  Guesses(u)'
<1> USE DEF Inv, TypeOK, userVars, guessHist
<1>1. ASSUME NEW v \in Users, LockExpires(v)
      PROVE  Guesses(u)'
  <2>1. Guessing(u)' = Guessing(u)
    BY <1>1 DEF LockExpires, Guessing
  <2>2. CASE v = u
    BY <1>1, <2>1, <2>2, GuessesUnlocked
  <2>3. CASE v # u
    BY <1>1, <2>1, <2>3, GuessesKept DEF LockExpires
  <2> QED
    BY <2>2, <2>3
<1>2. ASSUME UNCHANGED <<failures, locked, guesses, unlocks, pc, arg>>
      PROVE  Guesses(u)'
  <2>1. Guessing(u)' = Guessing(u)
    BY <1>2 DEF Guessing
  <2> QED
    BY <1>2, <2>1, GuessesKept
<1>3. CASE Surroundings
  BY <1>1, <1>2, <1>3 DEF Surroundings, RefreshTokenExpires, ResetTokenLapses,
                          SetActive, Drop
<1>4. ASSUME NEW w \in Workers, Request(w)
      PROVE  Guesses(u)'
  <2>1. /\ pc[w] = "idle" /\ pc'[w] # "login_fail"
        /\ UNCHANGED <<failures, locked, guesses, unlocks>>
    BY <1>4, RequestBegins DEF Opening
  <2>2. Guessing(u)' = Guessing(u)
    BY <1>4, <2>1, RequestStep DEF Guessing
  <2> QED
    BY <2>1, <2>2, GuessesKept
<1> QED
  BY <1>2, <1>3, <1>4 DEF vars

\* For any limit, any number of workers and of locks that expire: since its counter
\* was last 0 an account has taken fewer wrong passwords than the limit, plus one for
\* each worker and lock that expired, plus one for each worker.
THEOREM GuessesLimited == Spec => []GuessesBounded
<1> DEFINE J == Inv /\ ("fault" \notin Kinds => \A u \in Users : Guesses(u))
<1>1. Init => J
  <2> SUFFICES ASSUME Init
               PROVE  \A u \in Users : Guesses(u)
    BY InvInit
  <2>1. ASSUME NEW u \in Users
        PROVE  Guesses(u)
    <3>1. /\ guesses[u] = 0 /\ unlocks[u] = 0 /\ failures[u] = 0 /\ u \notin locked
      BY <2>1 DEF Init
    <3> QED
      BY <2>1, <3>1, GuessingFinite, AllowedShare, MaxFailuresAssumption
         DEF Guesses, Tally
  <2> QED
    BY <2>1
<1>2. J /\ [Next]_vars => J'
  <2> SUFFICES ASSUME J, [Next]_vars, "fault" \notin Kinds, NEW u \in Users
               PROVE  Guesses(u)'
    BY InvNext
  <2> QED
    BY GuessesStep, GuessesRest DEF Next
<1>3. J => GuessesBounded
  BY DEF GuessesBounded, Guesses
<1> QED
  BY <1>1, <1>2, <1>3, PTL DEF Spec


-----------------------------------------------------------------------------
(* Reset tokens.  Until a token is consumed, every password it has set was *)
(* set by a worker that is still to consume it (Spending).                 *)

Resetting(k) == {w \in Workers : pc[w] = "reset_hash" /\ arg[w].key = k}
Spending(k)  == {w \in Workers : pc[w] = "reset_consume" /\ arg[w].key = k}

Resets(k) ==
  /\ uses[k] + Cardinality(Resetting(k)) <= Cardinality(Workers)
  /\ k \notin consumed => uses[k] <= Cardinality(Spending(k))

\* Workers that are at one of two statements are counted once.
LEMMA WorkersCounted ==
  ASSUME NEW S \in SUBSET Workers, NEW T \in SUBSET Workers, S \cap T = {}
  PROVE  /\ IsFiniteSet(S) /\ Cardinality(S) \in Nat /\ Cardinality(Workers) \in Nat
         /\ Cardinality(S) + Cardinality(T) <= Cardinality(Workers)
<1>1. /\ IsFiniteSet(S) /\ IsFiniteSet(T)
      /\ Cardinality(S) \in Nat /\ Cardinality(T) \in Nat /\ Cardinality(Workers) \in Nat
  BY WorkersAssumption, FS_Subset, FS_CardinalityType
<1>2. Cardinality(S \cup T) = Cardinality(S) + Cardinality(T)
  <2>1. Cardinality(S \cap T) = 0
    BY FS_EmptySet
  <2>2. Cardinality(S \cup T) = Cardinality(S) + Cardinality(T) - Cardinality(S \cap T)
    BY <1>1, FS_Union
  <2> QED
    BY <1>1, <2>1, <2>2
<1>3. S \cup T \in SUBSET Workers
  OBVIOUS
<1>4. Cardinality(S \cup T) <= Cardinality(Workers)
  BY <1>3, WorkersAssumption, FS_Subset
<1> QED
  BY <1>1, <1>2, <1>4

LEMMA ResetsKept ==
  ASSUME NEW k, Resets(k), uses'[k] = uses[k], k \in consumed <=> k \in consumed',
         \A w \in Workers :
           \/ pc'[w] = pc[w] /\ arg'[w] = arg[w]
           \/ /\ pc[w] \notin {"reset_hash", "reset_consume"} \/ arg[w].key # k
              /\ pc'[w] \notin {"reset_hash", "reset_consume"} \/ arg'[w].key # k
  PROVE  Resets(k)'
<1>1. Resetting(k)' = Resetting(k) /\ Spending(k)' = Spending(k)
  BY DEF Resetting, Spending
<1> QED
  BY <1>1 DEF Resets

LEMMA ResetsStep ==
  ASSUME Inv, NEW w \in Workers, Step(w), NEW k \in ResetTokens, Resets(k)
  PROVE  Resets(k)'
<1>0. /\ pc \in [Workers -> Statements \cup {"idle"}] /\ arg \in [Workers -> Args]
      /\ uses \in [ResetTokens -> Nat] /\ consumed \subseteq ResetTokens
      /\ pc[w] \in {"reset_find", "reset_hash", "reset_consume"} =>
           arg[w].key \in ResetTokens
      /\ \A v \in Workers \ {w} : pc'[v] = pc[v] /\ arg'[v] = arg[v]
  BY StepOthers DEF Inv, TypeOK, LocalsOK, LocalOK
<1>00. /\ Resetting(k) \in SUBSET Workers /\ Spending(k) \in SUBSET Workers
       /\ Resetting(k) \cap Spending(k) = {}
  BY DEF Resetting, Spending
<1>000. /\ IsFiniteSet(Resetting(k)) /\ Cardinality(Resetting(k)) \in Nat
        /\ IsFiniteSet(Spending(k)) /\ Cardinality(Spending(k)) \in Nat
        /\ Cardinality(Workers) \in Nat
  BY <1>00, WorkersCounted
<1>1. CASE ResetFind(w)
  <2>1. CASE pc'[w] = "reset_hash" /\ arg[w].key = k
    <3>1. /\ k \notin consumed /\ UNCHANGED <<uses, consumed>>
          /\ pc[w] = "reset_find" /\ arg'[w].key = k
      <4>1. pc[w] = "reset_find" /\ UNCHANGED <<uses, consumed>>
        BY <1>1 DEF ResetFind, NoRows, resetVars
      <4>2. ~Finish(w)
        BY <1>0, <2>1 DEF Finish
      <4>3. /\ k \notin consumed
            /\ Goto(w, "reset_hash", [arg[w] EXCEPT !.user = resetOwner[k]])
        BY <1>1, <2>1, <4>2 DEF ResetFind, find_one_time_token, Reject, Proceed
      <4>4. arg'[w] = [arg[w] EXCEPT !.user = resetOwner[k]]
        BY <1>0, <4>3 DEF Goto
      <4> QED
        BY <1>0, <2>1, <4>1, <4>3, <4>4 DEF Args
    <3>2. Resetting(k)' = Resetting(k) \cup {w} /\ Spending(k)' = Spending(k)
      BY <1>0, <2>1, <3>1 DEF Resetting, Spending
    <3>3. /\ Resetting(k) \cup {w} \in SUBSET Workers
          /\ (Resetting(k) \cup {w}) \cap Spending(k) = {}
      BY <1>00, <3>1 DEF Spending
    <3>4. /\ Cardinality(Resetting(k) \cup {w}) + Cardinality(Spending(k))
               <= Cardinality(Workers)
          /\ Cardinality(Resetting(k) \cup {w}) \in Nat
      BY <1>00, <3>3, WorkersCounted
    <3> QED
      BY <1>0, <1>000, <3>1, <3>2, <3>4 DEF Resets
  <2>2. CASE ~(pc'[w] = "reset_hash" /\ arg[w].key = k)
    <3>1. /\ UNCHANGED <<uses, consumed>> /\ pc[w] = "reset_find"
          /\ pc'[w] \notin {"reset_hash", "reset_consume"} \/ arg'[w].key # k
      BY <1>0, <1>1, <2>2 DEF ResetFind, find_one_time_token, Reject, Finish, Proceed,
                              Goto, NoRows, resetVars, Args
    <3> QED
      BY <1>0, <3>1, ResetsKept
  <2> QED
    BY <2>1, <2>2
<1>2. CASE ResetHash(w)
  <2>0. /\ UNCHANGED consumed /\ uses' = [uses EXCEPT ![arg[w].key] = Used(@)]
        /\ pc[w] = "reset_hash" /\ pc'[w] = "reset_consume" /\ arg'[w] = arg[w]
    BY <1>0, <1>2 DEF ResetHash, Goto
  <2>1. CASE arg[w].key = k
    <3>1. w \in Resetting(k) /\ w \notin Spending(k)
      BY <2>0, <2>1 DEF Resetting, Spending
    <3>2. /\ Resetting(k)' = Resetting(k) \ {w}
          /\ Spending(k)' = Spending(k) \cup {w}
      BY <1>0, <2>0, <2>1 DEF Resetting, Spending
    <3>3. /\ Cardinality(Resetting(k)') = Cardinality(Resetting(k)) - 1
          /\ Cardinality(Spending(k)') = Cardinality(Spending(k)) + 1
      <4>1. Cardinality(Resetting(k) \ {w}) = Cardinality(Resetting(k)) - 1
        BY <1>000, <3>1, FS_RemoveElement
      <4>2. Cardinality(Spending(k) \cup {w}) = Cardinality(Spending(k)) + 1
        BY <1>000, <3>1, FS_AddElement
      <4> QED
        BY <3>2, <4>1, <4>2
    <3>4. uses[k] \in Nat /\ uses'[k] <= uses[k] + 1 /\ uses'[k] \in Nat
      BY <1>0, <1>000, <2>0, <2>1 DEF Used
    <3> QED
      BY <1>000, <2>0, <3>3, <3>4 DEF Resets
  <2>2. CASE arg[w].key # k
    BY <1>0, <2>0, <2>2, ResetsKept
  <2> QED
    BY <2>1, <2>2
<1>3. CASE ResetConsume(w)
  <2>0. /\ UNCHANGED uses /\ consumed' = consumed \cup {arg[w].key}
        /\ pc[w] = "reset_consume" /\ pc'[w] = "reset_revoke" /\ arg'[w] = arg[w]
    BY <1>0, <1>3 DEF ResetConsume, consume_one_time_token, Proceed, Goto
  <2>1. CASE arg[w].key = k
    <3>1. Resetting(k)' = Resetting(k)
      BY <1>0, <2>0 DEF Resetting
    <3> QED
      BY <2>0, <2>1, <3>1 DEF Resets
  <2>2. CASE arg[w].key # k
    BY <1>0, <2>0, <2>2, ResetsKept
  <2> QED
    BY <2>1, <2>2
<1>4. CASE \/ LoginUser(w) \/ LoginLock(w) \/ LoginFail(w) \/ LoginCreate(w)
           \/ LoginClear(w) \/ Respond(w)
           \/ RefreshFind(w) \/ RefreshReuse(w) \/ RefreshExpired(w)
           \/ RefreshCreate(w) \/ RefreshRevoke(w)
           \/ LogoutFind(w) \/ LogoutRevoke(w) \/ OthersFind(w) \/ OthersRevoke(w)
           \/ ForgotFind(w) \/ ForgotMint(w) \/ ResetRevoke(w)
  <2>1. /\ UNCHANGED <<uses, consumed>>
        /\ pc[w] \notin {"reset_hash", "reset_consume"}
        /\ pc'[w] \notin {"reset_hash", "reset_consume"}
    BY <1>0, <1>4
       DEF LoginUser, LoginLock, LoginFail, LoginCreate, LoginClear, Respond,
           RefreshFind, RefreshReuse, RefreshExpired, RefreshCreate, RefreshRevoke,
           LogoutFind, LogoutRevoke, OthersFind, OthersRevoke, ForgotFind, ForgotMint,
           ResetRevoke, create_one_time_token, Proceed, Goto, Reject, Finish, NoRows,
           resetVars
  <2> QED
    BY <1>0, <2>1, ResetsKept
<1> QED
  BY <1>1, <1>2, <1>3, <1>4 DEF Step

\* reset_password reads the token, sets the password and consumes the token in three
\* statements: for any number of workers, a token sets one password for each at most.
THEOREM ResetsLimited == Spec => []ResetsBounded
<1> DEFINE J == Inv /\ ("fault" \notin Kinds => \A k \in ResetTokens : Resets(k))
<1>1. Init => J
  <2> SUFFICES ASSUME Init, NEW k \in ResetTokens
               PROVE  Resets(k)
    BY InvInit
  <2>1. Resetting(k) = {} /\ uses[k] = 0
    BY DEF Init, Resetting
  <2>2. Spending(k) \in SUBSET Workers /\ {} \in SUBSET Workers
    BY DEF Spending
  <2>3. Cardinality(Spending(k)) \in Nat /\ Cardinality(Workers) \in Nat
    BY <2>2, WorkersCounted
  <2> QED
    BY <2>1, <2>3, FS_EmptySet DEF Resets
<1>2. J /\ [Next]_vars => J'
  <2> SUFFICES ASSUME J, [Next]_vars, "fault" \notin Kinds, NEW k \in ResetTokens
               PROVE  Resets(k)'
    BY InvNext
  <2>1. ASSUME NEW w \in Workers, Step(w)
        PROVE  Resets(k)'
    BY <2>1, ResetsStep
  <2>2. ASSUME NEW w \in Workers, Request(w)
        PROVE  Resets(k)'
    <3>1. pc[w] = "idle" /\ pc'[w] \in Opening /\ UNCHANGED <<uses, consumed>>
      BY <2>2, RequestBegins, RequestStep DEF resetVars
    <3>2. \A v \in Workers \ {w} : pc'[v] = pc[v] /\ arg'[v] = arg[v]
      BY <2>2, RequestStep
    <3> QED
      BY <3>1, <3>2, ResetsKept DEF Opening
  <2>3. CASE Surroundings \/ UNCHANGED vars
    <3>1. UNCHANGED <<uses, consumed, pc, arg>>
      BY <2>3 DEF Surroundings, RefreshTokenExpires, ResetTokenLapses, LockExpires,
                  SetActive, Drop, vars, resetVars
    <3> QED
      BY <3>1, ResetsKept
  <2> QED
    BY <2>1, <2>2, <2>3 DEF Next
<1>3. J => ResetsBounded
  <2> SUFFICES ASSUME Inv, NEW k \in ResetTokens, Resets(k)
               PROVE  uses[k] <= Cardinality(Workers)
    BY DEF ResetsBounded
  <2>1. Resetting(k) \in SUBSET Workers /\ {} \in SUBSET Workers
    BY DEF Resetting
  <2>2. Cardinality(Resetting(k)) \in Nat /\ Cardinality(Workers) \in Nat
    BY <2>1, WorkersCounted
  <2>3. uses[k] \in Nat
    BY DEF Inv, TypeOK
  <2> QED
    BY <2>2, <2>3 DEF Resets
<1> QED
  BY <1>1, <1>2, <1>3, PTL DEF Spec

-----------------------------------------------------------------------------
(* The server of tokens.  What a worker has created and not yet answered   *)
(* is in no client's hands and no other worker's.                          *)

Making == {"login_clear", "refresh_revoke", "respond"}

Unanswered ==
  \A w \in Workers :
    /\ pc[w] \in Making =>
         /\ arg[w].new \in issued \ held
         /\ \A v \in Workers \ {w} : pc[v] \in Making => arg[v].new # arg[w].new
    /\ pc[w] = "respond" => arg[w].tok \in held \cup {None}

\* A step that makes no token and answers none keeps the others apart.
LEMMA NothingMade ==
  ASSUME Inv, Unanswered, Grows, UNCHANGED held,
         \A v \in Workers :
           \/ pc'[v] \notin Making
           \/ /\ pc[v] \in Making
              /\ arg'[v].new = arg[v].new /\ arg'[v].tok = arg[v].tok
              /\ pc'[v] = pc[v] \/ arg[v].tok \in held \cup {None}
  PROVE  Unanswered'
  BY DEF Unanswered, Grows, Making

\* A new token is nobody's until it is answered.
LEMMA OneMade ==
  ASSUME Inv, Unanswered, Grows, UNCHANGED held, NEW w \in Workers,
         NEW t \in RefreshTokens \ issued, t \in issued',
         pc'[w] \in Making \ {"respond"}, arg'[w].new = t,
         \A v \in Workers \ {w} : pc'[v] = pc[v] /\ arg'[v] = arg[v]
  PROVE  Unanswered'
<1>1. \A v \in Workers : pc[v] \in Making => arg[v].new \in issued
  BY DEF Unanswered
<1>2. t \notin held
  BY DEF Inv, TypeOK
<1> QED
  BY <1>1, <1>2 DEF Unanswered, Grows, Making

LEMMA UnansweredKept ==
  ASSUME Inv, Unanswered, [Next]_vars
  PROVE  Unanswered'
<1>0. Grows
  BY RowsGrow DEF Inv
<1>1. CASE UNCHANGED vars
  BY <1>1 DEF vars, Unanswered, refreshVars, heldHist
<1>2. CASE Surroundings
  <2>1. /\ UNCHANGED held
        /\ \A v \in Workers : \/ pc'[v] = pc[v] /\ arg'[v] = arg[v]
                              \/ pc'[v] = "idle"
    BY <1>2, SurroundingsStep
  <2> QED
    BY <1>0, <2>1, NothingMade DEF Making
<1>3. ASSUME NEW w \in Workers, Request(w)
      PROVE  Unanswered'
  <2>1. UNCHANGED held /\ pc'[w] \in Opening
    BY <1>3, RequestBegins
  <2>2. \A v \in Workers \ {w} : pc'[v] = pc[v] /\ arg'[v] = arg[v]
    BY <1>3, RequestStep
  <2> QED
    BY <1>0, <2>1, <2>2, NothingMade DEF Making, Opening
<1>4. ASSUME NEW w \in Workers, Step(w)
      PROVE  Unanswered'
  <2>0. \A v \in Workers \ {w} : pc'[v] = pc[v] /\ arg'[v] = arg[v]
    BY <1>4, StepOthers
  <2>00. pc \in [Workers -> Statements \cup {"idle"}] /\ arg \in [Workers -> Args]
    BY DEF Inv, TypeOK
  <2>1. CASE LoginCreate(w)
    <3>1. PICK t \in RefreshTokens :
            /\ create_refresh_token(t, arg[w].user)
            /\ Proceed(w, "login_clear", [arg[w] EXCEPT !.new = t])
      BY <2>1 DEF LoginCreate
    <3>2. pc'[w] = "login_clear" /\ arg'[w].new = t /\ UNCHANGED held
      BY <2>00, <2>1, <3>1 DEF LoginCreate, Proceed, Goto, heldHist, Args
    <3> QED
      BY <1>0, <2>0, <3>1, <3>2, OneMade DEF create_refresh_token, Making
  <2>2. CASE RefreshCreate(w)
    <3>1. PICK t \in RefreshTokens :
            /\ create_refresh_token(t, arg[w].user)
            /\ Proceed(w, "refresh_revoke", [arg[w] EXCEPT !.new = t])
      BY <2>2 DEF RefreshCreate
    <3>2. pc'[w] = "refresh_revoke" /\ arg'[w].new = t /\ UNCHANGED held
      BY <2>00, <2>2, <3>1 DEF RefreshCreate, Proceed, Goto, heldHist, Args
    <3> QED
      BY <1>0, <2>0, <3>1, <3>2, OneMade DEF create_refresh_token, Making
  <2>3. CASE LoginClear(w) \/ RefreshRevoke(w)
    <3>1. /\ pc[w] \in Making /\ arg'[w] = arg[w] /\ UNCHANGED held
          /\ arg[w].tok \in held \cup {None}
      BY <2>00, <2>3 DEF LoginClear, RefreshRevoke, Proceed, Goto, Making, heldHist,
                         Inv, LocalsOK, LocalOK
    <3> QED
      BY <1>0, <2>0, <3>1, NothingMade
  <2>4. CASE Respond(w)
    <3>1. /\ pc[w] \in Making /\ pc'[w] \notin Making
          /\ held' = held \cup {arg[w].new} /\ UNCHANGED issued
      BY <2>00, <2>4 DEF Respond, Reject, Finish, NoRows, refreshVars, Making
    <3> QED
      BY <2>0, <3>1 DEF Unanswered, Making
  <2>5. CASE \/ LoginUser(w) \/ LoginLock(w) \/ LoginFail(w)
             \/ RefreshFind(w) \/ RefreshReuse(w) \/ RefreshExpired(w)
             \/ LogoutFind(w) \/ LogoutRevoke(w) \/ OthersFind(w) \/ OthersRevoke(w)
             \/ ForgotFind(w) \/ ForgotMint(w)
             \/ ResetFind(w) \/ ResetHash(w) \/ ResetConsume(w) \/ ResetRevoke(w)
    <3>1. UNCHANGED held /\ pc'[w] \notin Making
      BY <2>00, <2>5
         DEF LoginUser, LoginLock, LoginFail, RefreshFind, RefreshReuse,
             RefreshExpired, LogoutFind, LogoutRevoke, OthersFind, OthersRevoke,
             ForgotFind, ForgotMint, ResetFind, ResetHash, ResetConsume, ResetRevoke,
             Proceed, Goto, Reject, Finish, heldHist, Making
    <3> QED
      BY <1>0, <2>0, <3>1, NothingMade
  <2> QED
    BY <1>4, <2>1, <2>2, <2>3, <2>4, <2>5 DEF Step
<1> QED
  BY <1>1, <1>2, <1>3, <1>4 DEF Next

\* How the tokens in trade change when one worker moves.
LEMMA TradesOfOne ==
  ASSUME NEW w \in Workers,
         \A v \in Workers \ {w} : pc'[v] = pc[v] /\ arg'[v] = arg[v]
  PROVE  /\ (\A t \in RefreshTokens : Trades(w, t)' <=> Trades(w, t))
              => InTrade' = InTrade
         /\ \A t \in RefreshTokens :
              (\A s \in RefreshTokens : ~Trades(w, s)' /\ (Trades(w, s) => s = t))
                => InTrade' \in {InTrade, InTrade \ {t}}
         /\ \A t \in RefreshTokens :
              (\A s \in RefreshTokens : ~Trades(w, s) /\ (Trades(w, s)' <=> s = t))
                => InTrade' = InTrade \cup {t}
<1>1. \A v \in Workers \ {w}, t \in RefreshTokens : Trades(v, t)' <=> Trades(v, t)
  BY DEF Trades
<1> HIDE DEF Trades
<1>2. ASSUME \A t \in RefreshTokens : Trades(w, t)' <=> Trades(w, t)
      PROVE  InTrade' = InTrade
  BY <1>1, <1>2 DEF InTrade
<1>3. ASSUME NEW t \in RefreshTokens,
             \A s \in RefreshTokens : ~Trades(w, s)' /\ (Trades(w, s) => s = t)
      PROVE  InTrade' \in {InTrade, InTrade \ {t}}
  <2>1. CASE \E v \in Workers \ {w} : Trades(v, t)
    BY <1>1, <1>3, <2>1 DEF InTrade
  <2>2. CASE ~\E v \in Workers \ {w} : Trades(v, t)
    <3>1. InTrade' = InTrade \ {t}
      BY <1>1, <1>3, <2>2 DEF InTrade
    <3> QED
      BY <3>1
  <2> QED
    BY <2>1, <2>2
<1>4. ASSUME NEW t \in RefreshTokens,
             \A s \in RefreshTokens : ~Trades(w, s) /\ (Trades(w, s)' <=> s = t)
      PROVE  InTrade' = InTrade \cup {t}
  BY <1>1, <1>4 DEF InTrade
<1> QED
  BY <1>2, <1>3, <1>4

\* A step that answers nobody and takes no token shows the clients nothing, but for
\* the tokens it spends.
LEMMA QuietStep ==
  ASSUME Inv, Grows, UNCHANGED held, InTrade' = InTrade
  PROVE  [Server!Next]_(Server!vars)
<1>1. Origin' = Origin
  BY DEF Origin, Grows, Inv, TypeOK
<1>2. Spent' = Spent \cup (held \cap (revoked' \ revoked))
  BY DEF Spent, Grows
<1>3. Server!Spend(held \cap (revoked' \ revoked))
  BY <1>1, <1>2 DEF Server!Spend
<1>4. held \cap (revoked' \ revoked) \in SUBSET held
  OBVIOUS
<1> QED
  BY <1>3, <1>4 DEF Server!Next


\* Every step is one of SessionServer, or none.
LEMMA StepServer ==
  ASSUME Inv, Unanswered, [Next]_vars
  PROVE  [Server!Next]_(Server!vars)
<1>0. Grows
  BY RowsGrow DEF Inv
<1>00. /\ pc \in [Workers -> Statements \cup {"idle"}] /\ arg \in [Workers -> Args]
       /\ held \subseteq issued /\ issued \subseteq RefreshTokens
       /\ parent \in [RefreshTokens -> RefreshTokens \cup {None}]
  BY DEF Inv, TypeOK
<1>1. CASE UNCHANGED vars
  BY <1>0, <1>1, QuietStep DEF vars, refreshVars, heldHist, InTrade, Trades
<1>2. ASSUME NEW w \in Workers, pc'[w] = "idle", UNCHANGED <<held, revoked, parent>>,
             \A v \in Workers \ {w} : pc'[v] = pc[v] /\ arg'[v] = arg[v]
      PROVE  [Server!Next]_(Server!vars)
  <2>1. UNCHANGED <<held, Spent, Origin>>
    BY <1>2 DEF Spent, Origin
  <2>2. ASSUME NEW t \in RefreshTokens, Trades(w, t)
        PROVE  Server!GiveUp(t) \/ InTrade' = InTrade
    <3>1. \A s \in RefreshTokens : ~Trades(w, s)' /\ (Trades(w, s) => s = t)
      BY <1>2, <2>2 DEF Trades
    <3>2. InTrade' \in {InTrade, InTrade \ {t}}
      BY <1>2, <3>1, TradesOfOne
    <3> QED
      BY <2>1, <3>2 DEF Server!GiveUp
  <2>3. CASE \A t \in RefreshTokens : ~Trades(w, t)
    <3>1. \A t \in RefreshTokens : Trades(w, t)' <=> Trades(w, t)
      BY <1>2, <2>3 DEF Trades
    <3> QED
      BY <1>0, <1>2, <3>1, TradesOfOne, QuietStep
  <2> QED
    BY <1>0, <1>2, <2>2, <2>3, QuietStep DEF Server!Next
<1>3. CASE Surroundings
  <2>1. CASE \E w \in Workers : Drop(w)
    <3>1. PICK w \in Workers : Drop(w)
      BY <2>1
    <3> QED
      BY <1>00, <1>2, <3>1 DEF Drop, Reject, Finish, NoRows, refreshVars, heldHist, tokenHist
  <2>2. CASE ~\E w \in Workers : Drop(w)
    <3>1. UNCHANGED <<pc, arg, held, revoked>>
      BY <1>3, <2>2 DEF Surroundings, RefreshTokenExpires, ResetTokenLapses,
                        LockExpires, SetActive, refreshVars, heldHist
    <3>2. InTrade' = InTrade
      BY <3>1 DEF InTrade, Trades
    <3> QED
      BY <1>0, <3>1, <3>2, QuietStep
  <2> QED
    BY <2>1, <2>2
<1>4. ASSUME NEW w \in Workers, Request(w)
      PROVE  [Server!Next]_(Server!vars)
  <2>1. UNCHANGED held /\ pc[w] = "idle" /\ pc'[w] \in Opening
    BY <1>4, RequestBegins
  <2>2. \A v \in Workers \ {w} : pc'[v] = pc[v] /\ arg'[v] = arg[v]
    BY <1>4, RequestStep
  <2>3. \A t \in RefreshTokens : Trades(w, t)' <=> Trades(w, t)
    BY <2>1 DEF Trades, Opening
  <2> QED
    BY <1>0, <2>1, <2>2, <2>3, TradesOfOne, QuietStep
<1>5. ASSUME NEW w \in Workers, Step(w)
      PROVE  [Server!Next]_(Server!vars)
  <2>0. \A v \in Workers \ {w} : pc'[v] = pc[v] /\ arg'[v] = arg[v]
    BY <1>5, StepOthers
  <2>1. CASE Respond(w)
    <3> DEFINE n == arg[w].new
               t == arg[w].tok
               S == revoked \cap {n}
    <3>1. /\ n \in issued \ held
          /\ parent[n] = t
          /\ t # None => t \in revoked \cap held
      BY <2>1 DEF Respond, Inv, LocalsOK, LocalOK, Unanswered, Making
    <3>2. /\ held' = held \cup {n} /\ UNCHANGED <<revoked, parent>>
          /\ pc[w] = "respond" /\ pc'[w] = "idle"
      BY <1>00, <2>1 DEF Respond, Reject, Finish, NoRows, refreshVars, tokenHist
    <3> HIDE DEF n
    <3>3. Spent' = Spent \cup S
      BY <3>1, <3>2 DEF Spent
    <3>4. Origin' = [Origin EXCEPT ![n] = t]
      BY <1>00, <3>1, <3>2 DEF Origin
    <3>5. Server!HandOut(n, t, S)
      BY <3>1, <3>2, <3>3, <3>4 DEF Server!HandOut
    <3>6. CASE t = None
      <4>1. \A s \in RefreshTokens : Trades(w, s)' <=> Trades(w, s)
        BY <3>2, <3>6, NoneAssumption DEF Trades
      <4>2. InTrade' = InTrade
        BY <2>0, <4>1, TradesOfOne
      <4>3. Server!SignIn(n)
        BY <3>5, <3>6, <4>2 DEF Server!SignIn
      <4> QED
        BY <1>00, <3>1, <4>3 DEF Server!Next
    <3>7. CASE t # None
      <4>1. t \in RefreshTokens /\ Trades(w, t)
        BY <1>00, <3>1, <3>2, <3>7 DEF Trades
      <4>2. \A s \in RefreshTokens : ~Trades(w, s)' /\ (Trades(w, s) => s = t)
        BY <3>2 DEF Trades
      <4>3. InTrade' \in {InTrade, InTrade \ {t}}
        BY <2>0, <4>1, <4>2, TradesOfOne
      <4>4. t \in InTrade
        BY <4>1 DEF InTrade
      <4>5. t \in Spent'
        BY <3>1, <3>2, <3>7 DEF Spent
      <4>6. S \in SUBSET {n, t}
        OBVIOUS
      <4>7. Server!Grant(n, t)
        BY <3>5, <4>3, <4>4, <4>5, <4>6 DEF Server!Grant
      <4> QED
        BY <1>00, <3>1, <4>1, <4>7 DEF Server!Next
    <3> QED
      BY <3>6, <3>7
  <2>2. CASE RefreshFind(w)
    <3> DEFINE t == arg[w].tok
    <3>1. /\ t \in held \ revoked
          /\ pc[w] = "refresh_find" /\ pc'[w] = "refresh_create" /\ arg'[w].tok = t
          /\ UNCHANGED <<held, revoked, parent>>
      BY <1>00, <2>2 DEF RefreshFind, Live, Proceed, Goto, NoRows, refreshVars, heldHist,
                         tokenHist, Args, Inv, LocalsOK, LocalOK
    <3> HIDE DEF t
    <3>2. \A s \in RefreshTokens : ~Trades(w, s) /\ (Trades(w, s)' <=> s = t)
      BY <3>1 DEF Trades
    <3>3. InTrade' = InTrade \cup {t}
      BY <1>00, <2>0, <3>1, <3>2, TradesOfOne
    <3>4. Server!Present(t)
      BY <3>1, <3>3 DEF Server!Present, Spent, Origin
    <3> QED
      BY <1>00, <3>1, <3>4 DEF Server!Next
  <2>3. CASE RefreshCreate(w) \/ RefreshRevoke(w)
    <3>1. /\ UNCHANGED held
          /\ pc[w] \in {"refresh_create", "refresh_revoke"}
          /\ pc'[w] \in {"refresh_revoke", "respond"}
          /\ arg'[w].tok = arg[w].tok
      BY <1>00, <2>3 DEF RefreshCreate, RefreshRevoke, Proceed, Goto, heldHist, Args
    <3>2. \A s \in RefreshTokens : Trades(w, s)' <=> Trades(w, s)
      BY <3>1 DEF Trades
    <3> QED
      BY <1>0, <2>0, <3>1, <3>2, TradesOfOne, QuietStep
  <2>4. CASE LoginClear(w)
    <3>1. /\ UNCHANGED held /\ arg[w].tok = None
          /\ pc[w] = "login_clear" /\ arg'[w] = arg[w]
      BY <1>00, <2>4 DEF LoginClear, Goto, heldHist, Inv, LocalsOK, LocalOK
    <3>2. \A s \in RefreshTokens : Trades(w, s)' <=> Trades(w, s)
      BY <3>1, NoneAssumption DEF Trades
    <3> QED
      BY <1>0, <2>0, <3>1, <3>2, TradesOfOne, QuietStep
  <2>5. CASE \/ LoginUser(w) \/ LoginLock(w) \/ LoginFail(w) \/ LoginCreate(w)
             \/ RefreshReuse(w) \/ RefreshExpired(w)
             \/ LogoutFind(w) \/ LogoutRevoke(w) \/ OthersFind(w) \/ OthersRevoke(w)
             \/ ForgotFind(w) \/ ForgotMint(w)
             \/ ResetFind(w) \/ ResetHash(w) \/ ResetConsume(w) \/ ResetRevoke(w)
    <3>1. /\ UNCHANGED held
          /\ pc[w] \notin {"refresh_create", "refresh_revoke", "respond"}
          /\ pc'[w] \notin {"refresh_create", "refresh_revoke", "respond"}
      BY <1>00, <2>5
         DEF LoginUser, LoginLock, LoginFail, LoginCreate, RefreshReuse,
             RefreshExpired, LogoutFind, LogoutRevoke, OthersFind, OthersRevoke,
             ForgotFind, ForgotMint, ResetFind, ResetHash, ResetConsume, ResetRevoke,
             Proceed, Goto, Reject, Finish, heldHist
    <3>2. \A s \in RefreshTokens : Trades(w, s)' <=> Trades(w, s)
      BY <3>1 DEF Trades
    <3> QED
      BY <1>0, <2>0, <3>1, <3>2, TradesOfOne, QuietStep
  <2> QED
    BY <1>5, <2>1, <2>2, <2>3, <2>4, <2>5 DEF Step
<1> QED
  BY <1>1, <1>3, <1>4, <1>5 DEF Next

\* For any number of users, tokens and workers, and wherever requests stop, clients see
\* the server of SessionServer.
THEOREM ServerKept == Spec => KeepsServer
<1>1. Init => Server!Init
  BY DEF Init, Server!Init, Spent, InTrade, Trades, Origin
<1>2. Init => Unanswered
  BY DEF Init, Unanswered, Making
<1> QED
  BY <1>1, <1>2, InvInit, InvNext, UnansweredKept, StepServer, PTL
     DEF Spec, KeepsServer, Server!Spec

=============================================================================
