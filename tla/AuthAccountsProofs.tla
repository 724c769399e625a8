-------------------------- MODULE AuthAccountsProofs --------------------------
(***************************************************************************)
(* Proofs about AuthAccounts, for any number of users, identities, tokens  *)
(* and workers.                                                            *)
(*                                                                         *)
(* What a handler has checked of an account (Entitled) rests on facts that *)
(* are never withdrawn: an address the account has had, a control that was *)
(* shown, an account that was made for the identity.  So it still holds    *)
(* when the handler acts on it, whatever other workers did in between, and *)
(* although the mark and the address that were read may have changed.      *)
(***************************************************************************)
EXTENDS AuthAccounts, TLAPS

\* What rows say of each other and of the history.
RowsOK ==
  /\ \A u \in Rows : <<u, email[u]>> \in had
  /\ \A k \in minted : bearer[k] \in Rows /\ sentTo[k] \in Emails
  /\ \A u \in verified : \E e \in Emails : <<u, e>> \in confirmed
  /\ \A s \in Subs : linked[s] # None => linked[s] \in Rows /\ Entitled(s, linked[s])

Args == [user : Users \cup {None}, email : Emails \cup {None},
         sub : Subs \cup {None}, found : Users \cup {None},
         active : BOOLEAN, to : Emails \cup {None}, key : VerifyTokens \cup {None}]

\* What a handler at statement s knows of its local variables a.
Local(s, a) ==
  /\ s \in {"register_find", "register_create", "link_find"} => a.email \in Emails
  /\ s = "register_session" => a.found \in Rows
  /\ s \in {"verify_find", "verify_set", "verify_consume"} => a.key \in minted
  /\ s \in {"email_check", "email_update"} => a.user \in Rows /\ a.email \in Emails
  /\ s = "link_mint" => a.found \in Rows /\ a.to \in Emails
  /\ s \in {"oauth_find", "oauth_row", "oauth_email", "oauth_create", "oauth_verify",
            "oauth_link", "oauth_session"} =>
       a.sub \in Subs /\ a.email = GoogleEmail[a.sub]
  /\ s \in {"oauth_row", "oauth_verify", "oauth_link", "oauth_session"} =>
       a.found \in Rows /\ Entitled(a.sub, a.found)

LocalsOK == \A w \in Workers : Local(pc[w], arg[w])

Inv == TypeOK /\ RowsOK /\ LocalsOK /\ VerifiedUnlessStale

\* Accounts and tokens stay, and the history is not forgotten.
Grows ==
  /\ Rows \subseteq Rows'
  /\ minted \subseteq minted'
  /\ had \subseteq had' /\ confirmed \subseteq confirmed' /\ made \subseteq made'

-----------------------------------------------------------------------------
(* What a step does to the tables.                                         *)

UserStep ==
  \/ UNCHANGED <<userVars, proofVars>>
  \/ \E u \in Users, e \in Emails : create_user(u, e)
  \/ \E u \in Rows, e \in Emails : update_user_email(u, e)
  \/ \E u \in Rows, e \in Emails : set_user_email_verified(u, e)

TokenStep ==
  \/ UNCHANGED tokenVars
  \/ \E k \in VerifyTokens, u \in Rows, e \in Emails : create_one_time_token(k, u, e)
  \/ \E k \in minted : consume_one_time_token(k)

LinkStep ==
  \/ UNCHANGED linked
  \/ \E s \in Subs, u \in Rows : Entitled(s, u) /\ create_oauth_account(s, u)

HistStep ==
  /\ entered' = entered \/ \E u \in Rows : entered' = entered \cup {u}
  /\ made' = made \/ \E s \in Subs, u \in Users : made' = made \cup {<<s, u>>}

\* A handler's statement is one of the repository, on rows and addresses.
LEMMA StepTables ==
  ASSUME Inv, NEW w \in Workers, Step(w)
  PROVE  UserStep /\ TokenStep /\ LinkStep /\ HistStep
<1> USE DEF Inv, LocalsOK, Reads
<1>0. pc[w] # "idle" => Local(pc[w], arg[w])
  OBVIOUS
<1>1. CASE \/ RegisterFind(w) \/ VerifyFind(w) \/ EmailCheck(w) \/ LinkFind(w)
           \/ OauthFind(w) \/ OauthRow(w) \/ OauthEmail(w)
  <2>1. Reads
    BY <1>1 DEF RegisterFind, VerifyFind, EmailCheck, LinkFind, OauthFind, OauthRow,
                OauthEmail
  <2> QED
    BY <2>1 DEF UserStep, TokenStep, LinkStep, HistStep, userVars, proofVars, tokenVars,
                histVars
<1>2. CASE RegisterCreate(w)
  BY <1>2 DEF RegisterCreate, Local, UserStep, TokenStep, LinkStep, HistStep, histVars
<1>3. CASE RegisterSession(w) \/ OauthSession(w)
  BY <1>3 DEF RegisterSession, OauthSession, Local, UserStep, TokenStep, LinkStep,
              HistStep
<1>4. CASE VerifySet(w)
  BY <1>4 DEF VerifySet, Local, RowsOK, UserStep, TokenStep, LinkStep, HistStep, histVars
<1>5. CASE VerifyConsume(w)
  BY <1>5 DEF VerifyConsume, Local, UserStep, TokenStep, LinkStep, HistStep, histVars
<1>6. CASE EmailUpdate(w)
  BY <1>6 DEF EmailUpdate, Local, UserStep, TokenStep, LinkStep, HistStep, histVars
<1>7. CASE LinkMint(w)
  BY <1>7 DEF LinkMint, Local, UserStep, TokenStep, LinkStep, HistStep, histVars
<1>8. CASE OauthCreate(w)
  <2>1. arg[w].sub \in Subs /\ arg[w].email \in Emails
    BY <1>8, GoogleAssumption DEF OauthCreate, Local
  <2> QED
    BY <1>8, <2>1 DEF OauthCreate, UserStep, TokenStep, LinkStep, HistStep
<1>9. CASE OauthVerify(w)
  <2>1. arg[w].found \in Rows /\ arg[w].email \in Emails
    BY <1>9, GoogleAssumption DEF OauthVerify, Local
  <2> QED
    BY <1>9, <2>1 DEF OauthVerify, UserStep, TokenStep, LinkStep, HistStep, histVars
<1>10. CASE OauthLink(w)
  BY <1>10 DEF OauthLink, Local, UserStep, TokenStep, LinkStep, HistStep, histVars
<1> QED
  BY <1>1, <1>2, <1>3, <1>4, <1>5, <1>6, <1>7, <1>8, <1>9, <1>10 DEF Step

\* Whatever they do to the tables, the rows keep what they say.
LEMMA TablesGrow ==
  ASSUME TypeOK, UserStep, TokenStep, HistStep
  PROVE  Grows
<1> USE NoneAssumption DEF TypeOK, Rows
<1>1. Rows \subseteq Rows' /\ had \subseteq had' /\ confirmed \subseteq confirmed'
  BY DEF UserStep, userVars, proofVars, create_user, update_user_email,
         set_user_email_verified
<1>2. minted \subseteq minted'
  BY DEF TokenStep, tokenVars, create_one_time_token, consume_one_time_token
<1>3. made \subseteq made'
  BY DEF HistStep
<1> QED
  BY <1>1, <1>2, <1>3 DEF Grows

\* Entitlement is not lost.
LEMMA StaysEntitled ==
  ASSUME Grows, NEW s, NEW u, Entitled(s, u)
  PROVE  Entitled(s, u)'
BY DEF Grows, Entitled

\* The types of the tables.
Tables ==
  /\ email \in [Users -> Emails \cup {None}]
  /\ verified \subseteq Rows
  /\ inactive \subseteq Rows
  /\ linked \in [Subs -> Users \cup {None}]
  /\ minted \subseteq VerifyTokens
  /\ consumed \subseteq minted
  /\ lapsed \subseteq minted
  /\ bearer \in [VerifyTokens -> Users \cup {None}]
  /\ sentTo \in [VerifyTokens -> Emails \cup {None}]
  /\ entered \subseteq Rows
  /\ confirmed \subseteq Users \X Emails
  /\ stale \subseteq Users
  /\ had \subseteq Users \X Emails
  /\ made \subseteq Subs \X Users

\* The statements of the repository keep the types of the tables.
LEMMA TablesTyped ==
  ASSUME TypeOK, UserStep, TokenStep, LinkStep, HistStep
  PROVE  Tables'
<1> USE NoneAssumption DEF TypeOK
<1>1. Rows \subseteq Rows'
  BY TablesGrow DEF Grows
<1>2. Rows \subseteq Users
  BY DEF Rows
<1> DEFINE Typed == /\ email \in [Users -> Emails \cup {None}]
                    /\ verified \subseteq Rows /\ inactive \subseteq Rows
                    /\ confirmed \subseteq Users \X Emails /\ stale \subseteq Users
                    /\ had \subseteq Users \X Emails
<1>3. Typed'
  <2>1. CASE UNCHANGED <<userVars, proofVars>>
    BY <2>1 DEF userVars, proofVars, Rows
  <2>2. ASSUME NEW u \in Users, NEW e \in Emails, create_user(u, e)
        PROVE  Typed'
    BY <1>1, <2>2 DEF create_user
  <2>3. ASSUME NEW u \in Rows, NEW e \in Emails, update_user_email(u, e)
        PROVE  Typed'
    BY <1>1, <1>2, <2>3 DEF update_user_email
  <2>4. ASSUME NEW u \in Rows, NEW e \in Emails, set_user_email_verified(u, e)
        PROVE  Typed'
    BY <1>1, <1>2, <2>4 DEF set_user_email_verified
  <2> QED
    BY <2>1, <2>2, <2>3, <2>4 DEF UserStep
<1>4. /\ minted' \subseteq VerifyTokens /\ consumed' \subseteq minted'
      /\ lapsed' \subseteq minted'
      /\ bearer' \in [VerifyTokens -> Users \cup {None}]
      /\ sentTo' \in [VerifyTokens -> Emails \cup {None}]
  BY <1>2 DEF TokenStep, tokenVars, create_one_time_token, consume_one_time_token
<1>5. linked' \in [Subs -> Users \cup {None}]
  BY <1>2 DEF LinkStep, create_oauth_account
<1>6. entered' \subseteq Rows' /\ made' \subseteq Subs \X Users
  BY <1>1 DEF HistStep
<1> QED
  BY <1>3, <1>4, <1>5, <1>6 DEF Tables

\* The statements of the repository keep what the rows say.
LEMMA TablesInv ==
  ASSUME TypeOK, RowsOK, VerifiedUnlessStale, UserStep, TokenStep, LinkStep, HistStep
  PROVE  RowsOK' /\ VerifiedUnlessStale'
<1> USE NoneAssumption DEF TypeOK
<1>0. Grows
  BY TablesGrow
<1>1. \A u \in Rows' : <<u, email'[u]>> \in had'
  BY DEF UserStep, userVars, proofVars, create_user, update_user_email,
         set_user_email_verified, Rows, RowsOK
<1>2. \A k \in minted' : bearer'[k] \in Rows' /\ sentTo'[k] \in Emails
  BY <1>0 DEF Grows, TokenStep, tokenVars, create_one_time_token,
              consume_one_time_token, RowsOK
<1>3. \A u \in verified' : \E e \in Emails : <<u, e>> \in confirmed'
  BY DEF UserStep, userVars, proofVars, create_user, update_user_email,
         set_user_email_verified, RowsOK
<1>4. (\A s \in Subs : linked[s] # None => linked[s] \in Rows /\ Entitled(s, linked[s]))'
  <2> SUFFICES ASSUME NEW s \in Subs, (linked[s] # None)'
               PROVE  (linked[s] \in Rows /\ Entitled(s, linked[s]))'
    OBVIOUS
  <2>1. PICK u \in Rows : linked'[s] = u /\ Entitled(s, u)
    BY DEF LinkStep, create_oauth_account, RowsOK
  <2> QED
    BY <1>0, <2>1, StaysEntitled DEF Grows
<1>5. VerifiedUnlessStale'
  <2>1. CASE UNCHANGED <<userVars, proofVars>>
    BY <2>1 DEF userVars, proofVars, VerifiedUnlessStale
  <2>2. ASSUME NEW u \in Users, NEW e \in Emails, create_user(u, e)
        PROVE  VerifiedUnlessStale'
    BY <2>2 DEF create_user, VerifiedUnlessStale
  <2>3. ASSUME NEW u \in Rows, NEW e \in Emails, update_user_email(u, e)
        PROVE  VerifiedUnlessStale'
    BY <2>3 DEF update_user_email, VerifiedUnlessStale, Rows
  <2>4. ASSUME NEW u \in Rows, NEW e \in Emails, set_user_email_verified(u, e)
        PROVE  VerifiedUnlessStale'
    BY <2>4 DEF set_user_email_verified, VerifiedUnlessStale
  <2> QED
    BY <2>1, <2>2, <2>3, <2>4 DEF UserStep
<1> QED
  BY <1>1, <1>2, <1>3, <1>4, <1>5 DEF RowsOK

-----------------------------------------------------------------------------
(* What a step does to the handlers.                                       *)

\* What a worker knows survives the steps of the others, and of the surroundings.
LEMMA LocalStays ==
  ASSUME Grows, NEW s, NEW a, Local(s, a)
  PROVE  Local(s, a)'
BY StaysEntitled DEF Grows, Local

\* A worker that goes on to a statement with what it needs there.
LEMMA GotoOK ==
  ASSUME TypeOK, LocalsOK, Grows, NEW w \in Workers,
         NEW s \in Statements \cup {"idle"}, NEW a \in Args,
         Goto(w, s, a), Local(s, a)'
  PROVE  /\ pc' \in [Workers -> Statements \cup {"idle"}]
         /\ arg' \in [Workers -> Args]
         /\ LocalsOK'
<1>1. pc' = [pc EXCEPT ![w] = s] /\ arg' = [arg EXCEPT ![w] = a]
  BY DEF Goto
<1>2. pc \in [Workers -> Statements \cup {"idle"}] /\ arg \in [Workers -> Args]
  BY DEF TypeOK, Args
<1>3. ASSUME NEW v \in Workers PROVE Local(pc[v], arg[v])'
  <2>1. CASE v = w
    BY <1>1, <1>2, <2>1
  <2>2. CASE v # w
    <3>1. Local(pc[v], arg[v]) /\ pc'[v] = pc[v] /\ arg'[v] = arg[v]
      BY <1>1, <1>2, <2>2 DEF LocalsOK
    <3> QED
      BY <3>1, LocalStays
  <2> QED
    BY <2>1, <2>2
<1> QED
  BY <1>1, <1>2, <1>3 DEF LocalsOK

\* A handler that ends needs nothing.
LEMMA FinishOK ==
  ASSUME TypeOK, LocalsOK, Grows, NEW w \in Workers, Finish(w)
  PROVE  /\ pc' \in [Workers -> Statements \cup {"idle"}]
         /\ arg' \in [Workers -> Args]
         /\ LocalsOK'
<1>1. Blank \in Args /\ Local("idle", Blank)'
  BY DEF Blank, Args, Local
<1> QED
  BY <1>1, GotoOK DEF Finish

\* After its statement a handler has what the next one needs.
LEMMA StepLocals ==
  ASSUME Inv, Grows, NEW w \in Workers, Step(w)
  PROVE  /\ pc' \in [Workers -> Statements \cup {"idle"}]
         /\ arg' \in [Workers -> Args]
         /\ LocalsOK'
<1> DEFINE Kept == /\ pc' \in [Workers -> Statements \cup {"idle"}]
                   /\ arg' \in [Workers -> Args]
                   /\ LocalsOK'
<1> SUFFICES Kept
  OBVIOUS
<1> USE NoneAssumption, GoogleAssumption
<1>1. PICK a \in Args : a = arg[w] /\ Local(pc[w], a)
  BY DEF Inv, LocalsOK, TypeOK, Args
<1>2. Rows \subseteq Rows' /\ Rows \subseteq Users /\ Rows' \subseteq Users
      /\ minted \subseteq minted'
  BY DEF Grows, Rows
<1>3. ASSUME NEW s \in Statements, NEW b \in Args, Goto(w, s, b), Local(s, b)'
      PROVE  Kept
  BY <1>3, GotoOK DEF Inv
<1>4. ASSUME Finish(w) PROVE Kept
  BY <1>4, FinishOK DEF Inv
<1>5. ASSUME NEW s \in Statements, NEW b \in Args, Goto(w, s, b), Local(s, b)
      PROVE  Kept
  BY <1>3, <1>5, LocalStays
<1> HIDE DEF Kept
<1>6. ASSUME NEW s \in Statements, Goto(w, s, arg[w]), Local(s, a)
      PROVE  Kept
  BY <1>1, <1>5, <1>6
<1>7. CASE RegisterFind(w)
  BY <1>1, <1>4, <1>6, <1>7 DEF RegisterFind, Local, Statements
<1>8. CASE RegisterCreate(w)
  <2>1. ASSUME NEW u \in Users, create_user(u, a.email),
               Goto(w, "register_session", [a EXCEPT !.found = u])
        PROVE  Kept
    <3> DEFINE b == [a EXCEPT !.found = u]
    <3>1. u \in Rows'
      BY <1>1, <1>8, <2>1 DEF Rows, create_user, RegisterCreate, Local, Inv, TypeOK
    <3>2. b \in Args /\ b.found = u
      BY DEF Args
    <3>3. Local("register_session", b)'
      <4> HIDE DEF b
      <4> QED
        BY <3>1, <3>2 DEF Local
    <3> QED
      BY <1>3, <2>1, <3>2, <3>3 DEF Statements
  <2> QED
    BY <1>1, <1>4, <1>8, <2>1 DEF RegisterCreate
<1>9. CASE RegisterSession(w) \/ VerifyConsume(w) \/ LinkMint(w) \/ OauthSession(w)
  BY <1>4, <1>9 DEF RegisterSession, VerifyConsume, LinkMint, OauthSession
<1>10. CASE VerifyFind(w) \/ VerifySet(w)
  BY <1>1, <1>4, <1>6, <1>10 DEF VerifyFind, VerifySet, Local, Statements
<1>11. CASE EmailCheck(w) \/ EmailUpdate(w)
  BY <1>1, <1>4, <1>6, <1>11 DEF EmailCheck, EmailUpdate, Local, Statements
<1>12. CASE LinkFind(w)
  <2>1. ASSUME NEW u \in ByEmail(a.email), a.email \in Emails,
               Goto(w, "link_mint", [a EXCEPT !.found = u, !.to = email[u]])
        PROVE  Kept
    <3> DEFINE b == [a EXCEPT !.found = u, !.to = a.email]
    <3>1. u \in Rows /\ email[u] = a.email
      BY <2>1 DEF ByEmail, HasEmail, Rows
    <3>2. b \in Args /\ b.found = u /\ b.to = a.email
      BY <1>2, <2>1, <3>1 DEF Args
    <3>3. Local("link_mint", b)
      <4> HIDE DEF b
      <4> QED
        BY <2>1, <3>1, <3>2 DEF Local
    <3> QED
      BY <1>5, <2>1, <3>1, <3>2, <3>3 DEF Statements
  <2>2. a.email \in Emails
    BY <1>1, <1>12 DEF LinkFind, Local
  <2> QED
    BY <1>1, <1>4, <1>12, <2>1, <2>2 DEF LinkFind
<1>13. CASE OauthFind(w)
  <2>1. pc[w] = "oauth_find" /\ a.sub \in Subs /\ a.email = GoogleEmail[a.sub]
    BY <1>1, <1>13 DEF OauthFind, Local
  <2>2. ASSUME NEW u \in Rows, Entitled(a.sub, u),
               Goto(w, "oauth_row", [a EXCEPT !.found = u])
        PROVE  Kept
    <3> DEFINE b == [a EXCEPT !.found = u]
    <3>1. b \in Args /\ b.found = u /\ b.sub = a.sub /\ b.email = a.email
      BY <1>2 DEF Args
    <3>2. Local("oauth_row", b)
      <4> HIDE DEF b
      <4> QED
        BY <2>1, <2>2, <3>1 DEF Local
    <3> QED
      BY <1>5, <2>2, <3>1, <3>2 DEF Statements
  <2>3. linked[a.sub] # None => linked[a.sub] \in Rows /\ Entitled(a.sub, linked[a.sub])
    BY <2>1 DEF Inv, RowsOK
  <2>4. Local("oauth_email", a)
    BY <2>1 DEF Local
  <2> QED
    BY <1>1, <1>6, <1>13, <2>2, <2>3, <2>4 DEF OauthFind, Statements
<1>14. CASE OauthRow(w)
  BY <1>1, <1>4, <1>6, <1>14 DEF OauthRow, Local, Statements
<1>15. CASE OauthEmail(w)
  <2>1. pc[w] = "oauth_email" /\ a.sub \in Subs /\ a.email = GoogleEmail[a.sub]
    BY <1>1, <1>15 DEF OauthEmail, Local
  <2>2. ASSUME NEW u \in ByEmail(a.email), MayMerge(a.sub, u), NEW x \in BOOLEAN,
               Goto(w, "oauth_link", [a EXCEPT !.found = u, !.active = x])
        PROVE  Kept
    <3> DEFINE b == [a EXCEPT !.found = u, !.active = x]
    <3>1. u \in Rows /\ email[u] = GoogleEmail[a.sub]
      BY <2>1, <2>2 DEF ByEmail, HasEmail, Rows
    <3>2. Entitled(a.sub, u)
      BY <2>2, <3>1 DEF Entitled, MayMerge, Inv, RowsOK
    <3>3. b \in Args /\ b.found = u /\ b.sub = a.sub /\ b.email = a.email
      BY <1>2, <3>1 DEF Args
    <3>4. Local("oauth_link", b)
      <4> HIDE DEF b
      <4> QED
        BY <2>1, <3>1, <3>2, <3>3 DEF Local
    <3> QED
      BY <1>5, <2>2, <3>3, <3>4 DEF Statements
  <2>3. Local("oauth_create", a)
    BY <2>1 DEF Local
  <2>4. ASSUME NEW u \in ByEmail(a.email), MayMerge(a.sub, u),
               Goto(w, "oauth_link",
                    [arg[w] EXCEPT !.found = u, !.active = u \notin inactive])
        PROVE  Kept
    <3>1. (u \notin inactive) \in BOOLEAN
      OBVIOUS
    <3> QED
      BY <1>1, <2>2, <2>4, <3>1
  <2> QED
    BY <1>1, <1>4, <1>6, <1>15, <2>3, <2>4 DEF OauthEmail, Statements
<1>16. CASE OauthCreate(w)
  <2>1. pc[w] = "oauth_create" /\ a.sub \in Subs /\ a.email = GoogleEmail[a.sub]
    BY <1>1, <1>16 DEF OauthCreate, Local
  <2>2. ASSUME NEW u \in Users, NEW s \in {"oauth_verify", "oauth_link"},
               create_user(u, a.email), made' = made \cup {<<a.sub, u>>},
               Goto(w, s, [a EXCEPT !.found = u])
        PROVE  Kept
    <3> DEFINE b == [a EXCEPT !.found = u]
    <3>1. u \in Rows' /\ Entitled(a.sub, u)'
      BY <2>1, <2>2 DEF Rows, create_user, Entitled, Inv, TypeOK
    <3>2. b \in Args /\ b.found = u /\ b.sub = a.sub /\ b.email = a.email
      BY DEF Args
    <3>3. Local(s, b)'
      <4> HIDE DEF b
      <4> QED
        BY <2>1, <2>2, <3>1, <3>2 DEF Local
    <3> QED
      BY <1>3, <2>2, <3>2, <3>3 DEF Statements
  <2>3. ASSUME NEW u \in Users, create_user(u, arg[w].email),
               made' = made \cup {<<arg[w].sub, u>>},
               Goto(w, IF arg[w].sub \in GoogleVerified
                       THEN "oauth_verify" ELSE "oauth_link",
                    [arg[w] EXCEPT !.found = u])
        PROVE  Kept
    <3>1. CASE arg[w].sub \in GoogleVerified
      BY <1>1, <2>2, <2>3, <3>1
    <3>2. CASE arg[w].sub \notin GoogleVerified
      BY <1>1, <2>2, <2>3, <3>2
    <3> QED
      BY <3>1, <3>2
  <2> QED
    BY <1>4, <1>16, <2>3 DEF OauthCreate
<1>17. CASE OauthVerify(w) \/ OauthLink(w)
  BY <1>1, <1>4, <1>6, <1>17 DEF OauthVerify, OauthLink, Local, Statements
<1> QED
  BY <1>7, <1>8, <1>9, <1>10, <1>11, <1>12, <1>13, <1>14, <1>15, <1>16, <1>17
     DEF Step

-----------------------------------------------------------------------------
\* A request begins with what its first statement needs.
LEMMA RequestInv ==
  ASSUME Inv, NEW w \in Workers, Request(w)
  PROVE  Inv'
<1> USE NoneAssumption, GoogleAssumption
<1>1. UNCHANGED <<userVars, linked, tokenVars, histVars, proofVars>>
  BY DEF Request, RegisterRequest, VerifyRequest, EmailRequest, OauthRequest, Begin,
         userVars, tokenVars, histVars, proofVars
<1>2. PICK s \in Statements, a \in Args : Goto(w, s, a) /\ Local(s, a)
  <2>1. ASSUME NEW e \in Emails, RegisterRequest(w, e)
        PROVE  /\ Goto(w, "register_find", [Blank EXCEPT !.email = e])
               /\ [Blank EXCEPT !.email = e] \in Args
               /\ Local("register_find", [Blank EXCEPT !.email = e])
    BY <2>1 DEF RegisterRequest, Begin, Blank, Args, Local
  <2>2. ASSUME NEW k \in minted, VerifyRequest(w, k)
        PROVE  /\ Goto(w, "verify_find", [Blank EXCEPT !.key = k])
               /\ [Blank EXCEPT !.key = k] \in Args
               /\ Local("verify_find", [Blank EXCEPT !.key = k])
    BY <2>2 DEF VerifyRequest, Begin, Blank, Args, Local, Inv, TypeOK
  <2>3. ASSUME NEW u \in entered, NEW e \in Emails, EmailRequest(w, u, e)
        PROVE  /\ Goto(w, "email_check", [Blank EXCEPT !.user = u, !.email = e])
               /\ [Blank EXCEPT !.user = u, !.email = e] \in Args
               /\ Local("email_check", [Blank EXCEPT !.user = u, !.email = e])
    BY <2>3 DEF EmailRequest, Begin, Blank, Args, Local, Inv, TypeOK, Rows
  <2>4. ASSUME NEW i \in Subs, OauthRequest(w, i)
        PROVE  /\ Goto(w, "oauth_find", [Blank EXCEPT !.sub = i, !.email = GoogleEmail[i]])
               /\ [Blank EXCEPT !.sub = i, !.email = GoogleEmail[i]] \in Args
               /\ Local("oauth_find", [Blank EXCEPT !.sub = i, !.email = GoogleEmail[i]])
    BY <2>4 DEF OauthRequest, Begin, Blank, Args, Local
  <2> QED
    BY <2>1, <2>2, <2>3, <2>4 DEF Request, Statements
<1>3. Grows /\ UserStep /\ TokenStep /\ LinkStep /\ HistStep
  BY <1>1, TablesGrow DEF Inv, UserStep, TokenStep, LinkStep, HistStep, userVars,
     proofVars, tokenVars, histVars
<1>4. RowsOK' /\ VerifiedUnlessStale' /\ Tables'
  BY <1>3, TablesTyped, TablesInv DEF Inv
<1>5. /\ pc' \in [Workers -> Statements \cup {"idle"}]
      /\ arg' \in [Workers -> Args]
      /\ LocalsOK'
  BY <1>2, <1>3, GotoOK, LocalStays DEF Inv
<1> QED
  BY <1>4, <1>5 DEF Inv, Tables, TypeOK, Args

\* So do time, operators and deaths, which leave the rows that a handler knows of.
LEMMA OtherInv ==
  ASSUME Inv,
         \/ \E w \in Workers : Drop(w)
         \/ \E k \in VerifyTokens : TokenLapses(k)
         \/ \E u \in Users : SetActive(u)
         \/ UNCHANGED vars
  PROVE  Inv'
<1>1. UNCHANGED <<email, verified, linked, minted, consumed, bearer, sentTo, histVars,
                  proofVars>>
  BY DEF Drop, Reads, TokenLapses, SetActive, vars, userVars, tokenVars
<1>2. Grows
  BY <1>1 DEF Grows, Rows, histVars, proofVars
<1>3. RowsOK' /\ VerifiedUnlessStale'
  BY <1>1 DEF Inv, RowsOK, VerifiedUnlessStale, Rows, Entitled, histVars, proofVars
<1>4. Tables'
  BY <1>1 DEF Inv, TypeOK, Tables, Rows, histVars, proofVars, Drop, Reads, TokenLapses,
     SetActive, vars, userVars, tokenVars
<1> DEFINE Kept == /\ pc' \in [Workers -> Statements \cup {"idle"}]
                   /\ arg' \in [Workers -> Args]
                   /\ LocalsOK'
<1>5. Kept
  <2>1. ASSUME NEW w \in Workers, Drop(w)
        PROVE  Kept
    BY <1>2, <2>1, FinishOK DEF Inv, Drop
  <2>2. CASE UNCHANGED <<pc, arg>>
    <3>1. ASSUME NEW v \in Workers PROVE Local(pc[v], arg[v])'
      BY <1>2, <2>2, LocalStays DEF Inv, LocalsOK
    <3> QED
      BY <2>2, <3>1 DEF Inv, LocalsOK, TypeOK, Args
  <2> QED
    BY <2>1, <2>2 DEF TokenLapses, SetActive, vars
<1> QED
  BY <1>3, <1>4, <1>5 DEF Inv, Tables, TypeOK, Args

\* The invariant holds of an empty database.
LEMMA InitInv == Init => Inv
<1> SUFFICES ASSUME Init PROVE Inv
  OBVIOUS
<1> USE NoneAssumption DEF Init
<1>1. TypeOK
  BY DEF TypeOK, Blank, Rows
<1>2. RowsOK /\ VerifiedUnlessStale
  BY DEF RowsOK, VerifiedUnlessStale, Rows
<1>3. LocalsOK
  BY DEF LocalsOK, Local
<1> QED
  BY <1>1, <1>2, <1>3 DEF Inv

\* Every behaviour keeps the invariant.
THEOREM Invariance == Spec => []Inv
<1>1. ASSUME Inv, [Next]_vars PROVE Inv'
  <2>1. ASSUME NEW w \in Workers, Step(w) PROVE Inv'
    <3>1. UserStep /\ TokenStep /\ LinkStep /\ HistStep
      BY <1>1, <2>1, StepTables
    <3>2. Grows /\ Tables' /\ RowsOK' /\ VerifiedUnlessStale'
      BY <1>1, <3>1, TablesGrow, TablesTyped, TablesInv DEF Inv
    <3>3. /\ pc' \in [Workers -> Statements \cup {"idle"}]
          /\ arg' \in [Workers -> Args]
          /\ LocalsOK'
      BY <1>1, <2>1, <3>2, StepLocals
    <3> QED
      BY <3>2, <3>3 DEF Inv, Tables, TypeOK, Args
  <2> QED
    BY <1>1, <2>1, RequestInv, OtherInv DEF Next
<1> QED
  BY InitInv, <1>1, PTL DEF Spec

\* The columns and the handlers' variables keep their types.
THEOREM TypeCorrect == Spec => []TypeOK
<1>1. Inv => TypeOK
  BY DEF Inv
<1> QED
  BY Invariance, <1>1, PTL

\* For any number of accounts, links and workers, an account marked as verified has
\* shown control of its address, or was verified for one that it no longer had.
THEOREM VerifiedHolds == Spec => []VerifiedUnlessStale
<1>1. Inv => VerifiedUnlessStale
  BY DEF Inv
<1> QED
  BY Invariance, <1>1, PTL

\* For any number of identities and workers, nobody is signed in with Google, or
\* linked, to an account that the identity may not use.
THEOREM SignInsEntitled == Spec => []SignInEntitled
<1>1. Inv => SignInEntitled
  BY DEF Inv, LocalsOK, Local, RowsOK, SignInEntitled
<1> QED
  BY Invariance, <1>1, PTL

=============================================================================
