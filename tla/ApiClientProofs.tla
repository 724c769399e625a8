--------------------------- MODULE ApiClientProofs ---------------------------
(***************************************************************************)
(* Proofs about ApiClient, for any number of tabs, calls and tokens.       *)
(*                                                                         *)
(* KeepsSignedIn rests on Calm: as long as nothing excuses it, one tab at  *)
(* most is refreshing, with the token that the cookie holds, and the       *)
(* cookie is good whenever no tab is.  LogoutEnds rests on Left: after a   *)
(* quiet logout a refresh can only have been sent without a cookie.        *)
(***************************************************************************)
EXTENDS ApiClient, TLAPS

Good == issued \ revoked

\* What requests carry has been issued.
Rows ==
  /\ \A t \in Tokens \ issued : origin[t] = None
  /\ cookie \in issued \cup {None}
  /\ \A b \in Tabs :
       /\ flight[b].tok \in issued \cup {None}
       /\ flight[b].at \in {"found", "ok"} => flight[b].tok # None
       /\ flight[b].at = "none" => flight[b] = Nothing
       /\ leaving[b].tok \in issued \cup {None}
       /\ leaving[b].at = "none" => leaving[b] = Nothing

Calm ==
  ~excused =>
    /\ profile
    /\ \A b \in Tabs : leaving[b] = Nothing
    /\ \A b \in Tabs : flight[b] # Nothing =>
         flight[b].at # "fail" /\ flight[b].tok \in Good
    /\ \A a, b \in Tabs : flight[a] # Nothing /\ flight[b] # Nothing => a = b
    /\ (\A b \in Tabs : flight[b] = Nothing) => cookie \in Good

Left ==
  /\ Leaving /\ quiet => ~Refreshes
  /\ out /\ ~Leaving /\ quiet /\ ~cut =>
       /\ cookie = None /\ token = None
       /\ \A b \in Tabs : flight[b].tok = None

Inv == TypeOK /\ Rows /\ Calm /\ Left

-----------------------------------------------------------------------------
LEMMA InitInv == Init => Inv
<1> SUFFICES ASSUME Init PROVE Inv
  OBVIOUS
<1> USE ApiClientAssumption DEF Init, Nothing
<1>1. TypeOK
  BY DEF TypeOK, MaybeToken, Settled
<1>2. Rows
  BY DEF Rows
<1>3. Calm
  BY DEF Calm, Good
<1>4. Left
  BY DEF Left, Leaving, Refreshes
<1> QED
  BY <1>1, <1>2, <1>3, <1>4 DEF Inv

\* Every step keeps the invariant.
LEMMA NextInv == Inv /\ [Next]_vars => Inv'
<1> SUFFICES ASSUME Inv, [Next]_vars PROVE Inv'
  OBVIOUS
<1> USE ApiClientAssumption
    DEF Inv, TypeOK, Rows, Calm, Left, Good, Leaving, Refreshes, MaybeToken, Nothing,
        Settled, server, storage, hist
<1>1. ASSUME NEW c \in Calls, Send(c) PROVE Inv'
  <2>1. TypeOK'
    BY <1>1 DEF Send
  <2>2. Rows'
    BY <1>1 DEF Send
  <2>3. Calm'
    BY <1>1 DEF Send
  <2>4. Left'
    BY <1>1 DEF Send
  <2> QED
    BY <2>1, <2>2, <2>3, <2>4
<1>2. ASSUME NEW c \in Calls, Answer(c) PROVE Inv'
  <2>1. TypeOK'
    BY <1>2 DEF Answer
  <2>2. Rows'
    BY <1>2 DEF Answer
  <2>3. Calm'
    BY <1>2 DEF Answer
  <2>4. Left'
    BY <1>2 DEF Answer
  <2> QED
    BY <2>1, <2>2, <2>3, <2>4
<1>3. ASSUME NEW c \in Calls, Unauthorized(c) PROVE Inv'
  <2>1. PICK b \in Tabs : b = TabOf[c]
    OBVIOUS
  <2>2. CASE flight[b] = Nothing
    <3>1. /\ flight' = [flight EXCEPT ![b] = [at |-> "sent", tok |-> cookie]]
          /\ quiet' = (quiet /\ ~Leaving) /\ excused' = (excused \/ Refreshes)
          /\ call' = [call EXCEPT ![c] = [at |-> "waiting", bearer |-> None]]
          /\ UNCHANGED <<issued, revoked, stale, origin, cookie, token, profile, leaving, out, cut>>
      BY <1>3, <2>1, <2>2 DEF Unauthorized, JoinFlight
    <3>2. TypeOK'
      <4>1. quiet' \in BOOLEAN /\ excused' \in BOOLEAN
        BY <3>1
      <4>2. flight' \in [Tabs -> [at : {"none", "sent", "found", "ok", "fail"},
                                   tok : MaybeToken]]
        BY <3>1
      <4> QED
        BY <3>1, <4>1, <4>2
    <3>3. Rows'
      BY <3>1
    <3>4. Calm'
      BY <2>2, <3>1
    <3>5. Left'
      BY <3>1
    <3> QED
      BY <3>2, <3>3, <3>4, <3>5
  <2>3. CASE flight[b] # Nothing
    BY <1>3, <2>1, <2>3 DEF Unauthorized, JoinFlight
  <2> QED
    BY <2>2, <2>3
<1>4. ASSUME NEW c \in Calls, UnauthorizedRetry(c) PROVE Inv'
  <2>1. TypeOK'
    BY <1>4 DEF UnauthorizedRetry, ClearStorage
  <2>2. Rows'
    BY <1>4 DEF UnauthorizedRetry, ClearStorage
  <2>3. Calm'
    BY <1>4 DEF UnauthorizedRetry, ClearStorage
  <2>4. Left'
    BY <1>4 DEF UnauthorizedRetry, ClearStorage
  <2> QED
    BY <2>1, <2>2, <2>3, <2>4
<1>5. ASSUME NEW b \in Tabs, RefreshFind(b) PROVE Inv'
  <2>1. TypeOK'
    <3>1. flight' \in [Tabs -> [at : {"none", "sent", "found", "ok", "fail"},
                                tok : MaybeToken]]
      BY <1>5 DEF RefreshFind
    <3> QED
      BY <1>5, <3>1 DEF RefreshFind
  <2>2. Rows'
    BY <1>5 DEF RefreshFind
  <2>3. Calm'
    BY <1>5 DEF RefreshFind
  <2>4. Left'
    BY <1>5 DEF RefreshFind
  <2> QED
    BY <2>1, <2>2, <2>3, <2>4
<1>6. ASSUME NEW b \in Tabs, RefreshError(b) PROVE Inv'
  <2>1. TypeOK'
    BY <1>6 DEF RefreshError
  <2>2. Rows'
    BY <1>6 DEF RefreshError
  <2>3. Calm'
    BY <1>6 DEF RefreshError
  <2>4. Left'
    BY <1>6 DEF RefreshError
  <2> QED
    BY <2>1, <2>2, <2>3, <2>4
<1>7. ASSUME NEW b \in Tabs, RefreshDone(b) PROVE Inv'
  <2>1. TypeOK'
    BY <1>7 DEF RefreshDone, SetTokens, SetCookie
  <2>2. Rows'
    BY <1>7 DEF RefreshDone, SetTokens, SetCookie
  <2>3. Calm'
    BY <1>7 DEF RefreshDone, SetTokens, SetCookie
  <2>4. Left'
    BY <1>7 DEF RefreshDone, SetTokens, SetCookie
  <2> QED
    BY <2>1, <2>2, <2>3, <2>4
<1>8. ASSUME NEW b \in Tabs, RefreshFail(b) PROVE Inv'
  <2>1. TypeOK'
    BY <1>8 DEF RefreshFail, Abandon, ClearStorage
  <2>2. Rows'
    BY <1>8 DEF RefreshFail, Abandon, ClearStorage
  <2>3. Calm'
    BY <1>8 DEF RefreshFail, Abandon, ClearStorage
  <2>4. Left'
    BY <1>8 DEF RefreshFail, Abandon, ClearStorage
  <2> QED
    BY <2>1, <2>2, <2>3, <2>4
<1>9. ASSUME NEW b \in Tabs, RefreshLost(b) PROVE Inv'
  <2>1. TypeOK'
    BY <1>9 DEF RefreshLost, Abandon, ClearStorage
  <2>2. Rows'
    BY <1>9 DEF RefreshLost, Abandon, ClearStorage
  <2>3. Calm'
    BY <1>9 DEF RefreshLost, Abandon, ClearStorage
  <2>4. Left'
    BY <1>9 DEF RefreshLost, Abandon, ClearStorage
  <2> QED
    BY <2>1, <2>2, <2>3, <2>4
<1>10. ASSUME NEW b \in Tabs, LogoutSend(b) PROVE Inv'
  <2>1. TypeOK'
    BY <1>10 DEF LogoutSend
  <2>2. Rows'
    BY <1>10 DEF LogoutSend
  <2>3. Calm'
    BY <1>10 DEF LogoutSend
  <2>4. Left'
    BY <1>10 DEF LogoutSend
  <2> QED
    BY <2>1, <2>2, <2>3, <2>4
<1>11. ASSUME NEW b \in Tabs, LogoutServe(b) PROVE Inv'
  <2>1. TypeOK'
    BY <1>11 DEF LogoutServe
  <2>2. Rows'
    BY <1>11 DEF LogoutServe
  <2>3. Calm'
    BY <1>11 DEF LogoutServe
  <2>4. Left'
    BY <1>11 DEF LogoutServe
  <2> QED
    BY <2>1, <2>2, <2>3, <2>4
<1>12. ASSUME NEW b \in Tabs, LogoutDone(b) PROVE Inv'
  <2>1. TypeOK'
    BY <1>12 DEF LogoutDone, Leave, ClearStorage, DeleteCookie
  <2>2. Rows'
    BY <1>12 DEF LogoutDone, Leave, ClearStorage, DeleteCookie
  <2>3. Calm'
    BY <1>12 DEF LogoutDone, Leave, ClearStorage, DeleteCookie
  <2>4. Left'
    BY <1>12 DEF LogoutDone, Leave, ClearStorage, DeleteCookie
  <2> QED
    BY <2>1, <2>2, <2>3, <2>4
<1>13. ASSUME NEW b \in Tabs, LogoutLost(b) PROVE Inv'
  <2>1. TypeOK'
    BY <1>13 DEF LogoutLost, Leave, ClearStorage
  <2>2. Rows'
    BY <1>13 DEF LogoutLost, Leave, ClearStorage
  <2>3. Calm'
    BY <1>13 DEF LogoutLost, Leave, ClearStorage
  <2>4. Left'
    BY <1>13 DEF LogoutLost, Leave, ClearStorage
  <2> QED
    BY <2>1, <2>2, <2>3, <2>4
<1>14. ASSUME NEW b \in Tabs, NEW n \in Tokens, RefreshRotate(b, n) PROVE Inv'
  <2>1. TypeOK'
    BY <1>14 DEF RefreshRotate
  <2>2. Rows'
    BY <1>14 DEF RefreshRotate
  <2>3. Calm'
    BY <1>14 DEF RefreshRotate
  <2>4. Left'
    BY <1>14 DEF RefreshRotate
  <2> QED
    BY <2>1, <2>2, <2>3, <2>4
<1>15. ASSUME NEW t \in Tokens, Login(t) PROVE Inv'
  <2>1. TypeOK'
    BY <1>15 DEF Login, SetTokens, SetCookie
  <2>2. Rows'
    BY <1>15 DEF Login, SetTokens, SetCookie
  <2>3. Calm'
    BY <1>15 DEF Login, SetTokens, SetCookie
  <2>4. Left'
    BY <1>15 DEF Login, SetTokens, SetCookie
  <2> QED
    BY <2>1, <2>2, <2>3, <2>4
<1>16. ASSUME NEW t \in Tokens, Expire(t) PROVE Inv'
  <2>1. TypeOK'
    BY <1>16 DEF Expire
  <2>2. Rows'
    BY <1>16 DEF Expire
  <2>3. Calm'
    BY <1>16 DEF Expire
  <2>4. Left'
    BY <1>16 DEF Expire
  <2> QED
    BY <2>1, <2>2, <2>3, <2>4
<1>17. CASE UNCHANGED vars
  BY <1>17 DEF vars
<1> HIDE DEF Inv
<1> QED
  BY <1>1, <1>2, <1>3, <1>4, <1>5, <1>6, <1>7, <1>8, <1>9,
     <1>10, <1>11, <1>12, <1>13, <1>14, <1>15, <1>16, <1>17
     DEF Next, CallStep, RefreshStep

LEMMA InvHolds == Spec => []Inv
  BY InitInv, NextInv, PTL DEF Spec

-----------------------------------------------------------------------------
\* The state of the browser and what its requests carry keep their types.
THEOREM TypeCorrect == Spec => []TypeOK
<1>1. Inv => TypeOK
  BY DEF Inv
<1> QED
  BY <1>1, InvHolds, PTL

\* However many calls of a tab are refused at once, and in whatever order the answers
\* come, the user stays signed in.
THEOREM StaysSignedIn == Spec => []KeepsSignedIn
<1>1. Inv => KeepsSignedIn
  BY DEF Inv, Calm, KeepsSignedIn, TypeOK
<1> QED
  BY <1>1, InvHolds, PTL

\* A logout that was answered, with no tab refreshing, leaves neither cookie nor token
\* in the browser, and none comes back.
THEOREM LogoutComplete == Spec => []LogoutEnds
<1>1. Inv => LogoutEnds
  BY DEF Inv, Left, LogoutEnds
<1> QED
  BY <1>1, InvHolds, PTL


-----------------------------------------------------------------------------
(* The API that the browser sees is the server of SessionServer.           *)

LEMMA TradesKept ==
  ASSUME \A b \in Tabs, t \in Tokens : Trades(b, t)' <=> Trades(b, t)
  PROVE  InTrade' = InTrade
  BY DEF InTrade

\* Every step is one of SessionServer, or none.
LEMMA StepServer ==
  ASSUME Inv, [Next]_vars
  PROVE  [Server!Next]_(Server!vars)
<1> DEFINE Same == UNCHANGED <<issued, revoked, origin>>
<1>0. /\ flight \in [Tabs -> [at : {"none", "sent", "found", "ok", "fail"},
                              tok : MaybeToken]]
      /\ issued \subseteq Tokens
  BY DEF Inv, TypeOK
<1> USE DEF server, hist, storage
<1>1. ASSUME Same, NEW b \in Tabs, \A a \in Tabs \ {b} : flight'[a] = flight[a],
             flight'[b].at # "found"
      PROVE  [Server!Next]_(Server!vars)
  <2>1. ASSUME NEW t \in Tokens, Trades(b, t)
        PROVE  Server!GiveUp(t) \/ InTrade' = InTrade
    <3>1. CASE \E a \in Tabs \ {b} : Trades(a, t)
      BY <1>1, <2>1, <3>1 DEF InTrade, Trades
    <3>2. CASE ~\E a \in Tabs \ {b} : Trades(a, t)
      <4>1. InTrade' = InTrade \ {t}
        BY <1>1, <2>1, <3>2 DEF InTrade, Trades
      <4> QED
        BY <1>1, <4>1 DEF Server!GiveUp
    <3> QED
      BY <3>1, <3>2
  <2>2. CASE \A t \in Tokens : ~Trades(b, t)
    <3>1. InTrade' = InTrade
      BY <1>1, <2>2 DEF InTrade, Trades
    <3> QED
      BY <1>1, <3>1 DEF Server!vars
  <2> QED
    BY <1>1, <2>1, <2>2 DEF Server!Next, Server!vars
<1>2. ASSUME NEW c \in Calls, Send(c) \/ CallStep(c)
      PROVE  [Server!Next]_(Server!vars)
  <2>1. CASE UNCHANGED flight
    <3>1. InTrade' = InTrade
      BY <2>1 DEF InTrade, Trades
    <3> QED
      BY <1>2, <3>1 DEF Server!vars, Send, CallStep, Answer, Unauthorized,
                        UnauthorizedRetry
  <2>2. CASE flight' # flight
    <3>1. Unauthorized(c) /\ TabOf[c] \in Tabs
      BY <1>2, <2>2, ApiClientAssumption DEF Send, CallStep, Answer, UnauthorizedRetry
    <3>2. flight' = [flight EXCEPT ![TabOf[c]] = [at |-> "sent", tok |-> cookie]]
      BY <2>2, <3>1 DEF Unauthorized, JoinFlight
    <3> QED
      BY <1>0, <1>1, <3>1, <3>2 DEF Unauthorized
  <2> QED
    BY <2>1, <2>2
<1>3. ASSUME NEW b \in Tabs,
             \/ RefreshError(b) \/ RefreshDone(b) \/ RefreshFail(b) \/ RefreshLost(b)
      PROVE  [Server!Next]_(Server!vars)
  <2>1. /\ Same
        /\ \A a \in Tabs \ {b} : flight'[a] = flight[a]
        /\ flight'[b].at # "found"
    BY <1>0, <1>3 DEF RefreshError, RefreshDone, RefreshFail, RefreshLost, Abandon, Nothing
  <2> QED
    BY <1>1, <2>1
<1>4. ASSUME NEW b \in Tabs, RefreshFind(b)
      PROVE  [Server!Next]_(Server!vars)
  <2> DEFINE t == flight[b].tok
  <2>1. CASE t \in issued \ revoked
    <3>1. \A a \in Tabs, s \in Tokens :
            Trades(a, s)' <=> Trades(a, s) \/ (a = b /\ s = t)
      BY <1>0, <1>4, <2>1 DEF RefreshFind, Trades
    <3>2. InTrade' = InTrade \cup {t}
      BY <1>0, <2>1, <3>1 DEF InTrade
    <3>3. Server!Present(t)
      BY <1>4, <2>1, <3>2 DEF Server!Present, RefreshFind
    <3> QED
      BY <1>0, <2>1, <3>3 DEF Server!Next
  <2>2. CASE t \notin issued \ revoked
    BY <1>0, <1>1, <1>4, <2>2 DEF RefreshFind
  <2> QED
    BY <2>1, <2>2
<1>5. ASSUME NEW b \in Tabs, NEW n \in Tokens, RefreshRotate(b, n)
      PROVE  [Server!Next]_(Server!vars)
  <2> DEFINE t == flight[b].tok
  <2>1. t \in Tokens /\ Trades(b, t)
    BY <1>0, <1>5 DEF RefreshRotate, Trades, Inv, Rows, TypeOK
  <2>2. /\ \A a \in Tabs \ {b} : flight'[a] = flight[a]
        /\ flight'[b].at # "found"
    BY <1>0, <1>5 DEF RefreshRotate
  <2>3. InTrade' \in {InTrade, InTrade \ {t}}
    <3>1. CASE \E a \in Tabs \ {b} : Trades(a, t)
      BY <2>1, <2>2, <3>1 DEF InTrade, Trades
    <3>2. CASE ~\E a \in Tabs \ {b} : Trades(a, t)
      <4>1. InTrade' = InTrade \ {t}
        BY <2>1, <2>2, <3>2 DEF InTrade, Trades
      <4> QED
        BY <4>1
    <3> QED
      BY <3>1, <3>2
  <2>4. Server!HandOut(n, t, {t})
    BY <1>5 DEF Server!HandOut, RefreshRotate
  <2>5. Server!Grant(n, t)
    <3>1. t \in InTrade /\ t \in revoked'
      BY <1>5, <2>1 DEF InTrade, RefreshRotate
    <3>2. {t} \in SUBSET {n, t}
      OBVIOUS
    <3> QED
      BY <2>3, <2>4, <3>1, <3>2 DEF Server!Grant
  <2> QED
    BY <2>1, <2>5 DEF Server!Next
<1>6. ASSUME NEW n \in Tokens, Login(n)
      PROVE  [Server!Next]_(Server!vars)
  <2>1. InTrade' = InTrade
    BY <1>6 DEF Login, InTrade, Trades
  <2>2. origin' = [origin EXCEPT ![n] = None]
    BY <1>6 DEF Login, Inv, TypeOK, Rows
  <2>3. Server!HandOut(n, None, {})
    BY <1>6, <2>2 DEF Login, Server!HandOut
  <2>4. Server!SignIn(n)
    BY <2>1, <2>3 DEF Server!SignIn
  <2> QED
    BY <2>4 DEF Server!Next
<1>7. ASSUME NEW b \in Tabs, LogoutServe(b)
      PROVE  [Server!Next]_(Server!vars)
  <2>1. InTrade' = InTrade
    BY <1>7 DEF LogoutServe, InTrade, Trades
  <2>2. PICK S \in {{}, {leaving[b].tok} \ {None}} : revoked' = revoked \cup S
    BY <1>7 DEF LogoutServe
  <2>3. S \in SUBSET issued
    BY <2>2 DEF Inv, Rows
  <2>4. Server!Spend(S)
    BY <1>7, <2>1, <2>2 DEF Server!Spend, LogoutServe
  <2> QED
    BY <2>3, <2>4 DEF Server!Next
<1>8. ASSUME \/ \E b \in Tabs : LogoutSend(b) \/ LogoutDone(b) \/ LogoutLost(b)
             \/ \E t \in Tokens : Expire(t)
             \/ UNCHANGED vars
      PROVE  [Server!Next]_(Server!vars)
  <2>1. Same /\ UNCHANGED flight
    BY <1>8 DEF LogoutSend, LogoutDone, LogoutLost, Leave, Expire, vars
  <2>2. InTrade' = InTrade
    BY <2>1 DEF InTrade, Trades
  <2> QED
    BY <2>1, <2>2 DEF Server!vars
<1> QED
  BY <1>2, <1>3, <1>4, <1>5, <1>6, <1>7, <1>8 DEF Next, RefreshStep

\* For any number of tabs and tokens, the API of this module is a server of tokens as
\* the proof for AuthSessions has it.
THEOREM ServerKept == Spec => KeepsServer
<1>1. Init => Server!Init
  BY DEF Init, Server!Init, InTrade, Trades, Nothing
<1> QED
  BY <1>1, InitInv, NextInv, StepServer, PTL DEF Spec, KeepsServer, Server!Spec

=============================================================================
