-------------------------- MODULE AuthSessionProofs ---------------------------
(***************************************************************************)
(* Type correctness of AuthSession, the separation of sign-ins and the     *)
(* reasons a live session may be lost for, for any number of tabs, grants  *)
(* and flows, any faults, and tokens that rotate or do not.                *)
(***************************************************************************)
EXTENDS AuthSession, TLAPS

\* Why an exchange that misses its cookie knows why: a flow a tab still has is in
\* the jar or ended, a code belongs to a flow, and the snapshot of an exchange
\* only misses the cookie of an ended flow.
FlowKept == \A t \in Tabs : flow[t] # None => flow[t] \in flowJar \cup ended

CodeHasFlow ==
  \A t \in Tabs : step[t] \in {"away", "exchange"} \/ page[t] = "code" => flow[t] # None

ExchangeKnows ==
  \A t \in Tabs :
    step[t] = "exchange" => reply[t] # "ok" /\ (~snap[t].hasFlow => flow[t] \in ended)

FlowInv == TypeOK /\ FlowKept /\ CodeHasFlow /\ ExchangeKnows

-------------------------------------------------------------------------------

\* What a request does to the typed state.
LEMMA SendType ==
  ASSUME TypeOK, NEW t \in Tabs,
         NEW s \in {"info", "start", "exchange", "logout", "again"}, Send(t, s)
  PROVE  /\ step' \in [Tabs -> Steps]
         /\ snap' \in [Tabs -> [session : Cookies, hasFlow : BOOLEAN]]
         /\ reply' \in [Tabs -> {"none", "ok", "fail"} \cup Grants]
         /\ flow' = flow
         /\ step'[t] = s /\ reply'[t] = "none"
         /\ s = "exchange" => snap'[t].hasFlow = (flow[t] \in flowJar)
         /\ \A u \in Tabs \ {t} : /\ step'[u] = step[u] /\ snap'[u] = snap[u]
                                  /\ reply'[u] = reply[u]
<1>1. snap' \in [Tabs -> [session : Cookies, hasFlow : BOOLEAN]]
  BY DEF Send, TypeOK, NoGrant, Cookies
<1> QED BY <1>1 DEF Send, TypeOK, Steps

\* What an answer does to the typed refresh request.
LEMMA AnswerType ==
  ASSUME TypeOK, NEW t \in Tabs, NEW a \in RefreshStates, NEW c \in Cookies,
         RefreshAnswer(t, a, c)
  PROVE  refr' \in [Tabs -> [at : RefreshStates, token : Grants \cup {None}, got : Cookies]]
BY DEF TypeOK, RefreshAnswer

LEMMA TypeStep == FlowInv /\ [Next]_vars => TypeOK'
<1> SUFFICES ASSUME FlowInv, [Next]_vars PROVE TypeOK'
  OBVIOUS
<1>t. TypeOK
  BY DEF FlowInv
<1>1. ASSUME NEW t \in Tabs, OpenTab(t) \/ AskInfo(t) PROVE TypeOK'
  BY <1>1, <1>t, SendType DEF TypeOK, OpenTab, AskInfo, timeVars, jarVars, idpVars
<1>2. ASSUME NEW t \in Tabs, Reload(t) PROVE TypeOK'
  BY <1>2, <1>t, SendType
     DEF TypeOK, Reload, DropPage, IdleRefresh, RefreshStates, Cookies, NoGrant, jarVars, idpVars
<1>3. ASSUME NEW t \in Tabs, InfoShowsShell(t) PROVE TypeOK'
  BY <1>3, <1>t
     DEF TypeOK, InfoShowsShell, Forget, ScheduleRefresh, Steps, NoSnap, NoGrant, Cookies, jarVars
<1>4. ASSUME NEW t \in Tabs, InfoStartsLogin(t) PROVE TypeOK'
  BY <1>4, <1>t, SendType DEF TypeOK, InfoStartsLogin, timeVars, jarVars, idpVars
<1>5. ASSUME NEW t \in Tabs, NEW f \in Flows, StartLeaves(t, f) PROVE TypeOK'
  BY <1>5, <1>t
     DEF TypeOK, StartLeaves, Forget, DropPage, IdleRefresh, RefreshStates, Cookies, NoGrant,
         NoSnap, Steps
<1>6. ASSUME NEW t \in Tabs, StartFails(t) PROVE TypeOK'
  BY <1>6, <1>t DEF TypeOK, StartFails, NoSnap, NoGrant, Cookies, Steps, timeVars, jarVars, idpVars
<1>7. ASSUME NEW t \in Tabs, ProviderReturns(t) PROVE TypeOK'
  BY <1>7, <1>t, SendType DEF TypeOK, ProviderReturns, timeVars, jarVars
<1>8. ASSUME NEW t \in Tabs, ProviderRefuses(t) PROVE TypeOK'
  BY <1>8, <1>t DEF TypeOK, ProviderRefuses, Forget, Steps, timeVars, jarVars
<1>9. ASSUME NEW t \in Tabs, HandleExchange(t) PROVE TypeOK'
  BY <1>9, <1>t DEF TypeOK, HandleExchange, FlowInv, CodeHasFlow, timeVars, jarVars
<1>10. ASSUME NEW t \in Tabs, ExchangeArrives(t) PROVE TypeOK'
  <2>1. reply[t] = "fail" \/ reply[t] \in Grants
    BY <1>10, <1>t DEF TypeOK, ExchangeArrives, FlowInv, ExchangeKnows
  <2>2. jar' \in Cookies /\ hasExpiry' \in [Tabs -> BOOLEAN] /\ error' \in [Tabs -> BOOLEAN]
    <3>1. CASE reply[t] = "fail"
      BY <1>10, <1>t, <3>1 DEF TypeOK, ExchangeArrives
    <3>2. CASE reply[t] # "fail"
      <4>1. jar' \in Cookies
        BY <1>10, <1>t, <2>1, <3>2 DEF ExchangeArrives, Cookies
      <4>2. hasExpiry' \in [Tabs -> BOOLEAN]
        BY <1>10, <1>t, <3>2 DEF TypeOK, ExchangeArrives
      <4>3. error' \in [Tabs -> BOOLEAN]
        BY <1>10, <1>t, <3>2 DEF TypeOK, ExchangeArrives
      <4> QED BY <4>1, <4>2, <4>3
    <3> QED BY <3>1, <3>2
  <2>3. flow[t] \in Flows
    BY <1>10, <1>t DEF TypeOK, ExchangeArrives, FlowInv, CodeHasFlow
  <2>4. snap' \in [Tabs -> [session : Cookies, hasFlow : BOOLEAN]]
    BY <1>10, <1>t DEF TypeOK, ExchangeArrives, NoSnap, NoGrant, Cookies
  <2>5. /\ step' \in [Tabs -> Steps] /\ reply' \in [Tabs -> {"none", "ok", "fail"} \cup Grants]
        /\ flowJar' \subseteq Flows /\ ended' \subseteq Flows
        /\ UNCHANGED <<isLoading, page, flow, timer, refr, ssoAlive, usable, codeUsed>>
    BY <1>10, <1>t, <2>3 DEF TypeOK, ExchangeArrives, Steps, idpVars
  <2> QED BY <1>t, <2>2, <2>4, <2>5 DEF TypeOK
<1>11. ASSUME NEW t \in Tabs, ExchangeLost(t) PROVE TypeOK'
  BY <1>11, <1>t, SendType DEF TypeOK, ExchangeLost, timeVars, jarVars, idpVars
<1>12. ASSUME NEW t \in Tabs, TimerFires(t) PROVE TypeOK'
  BY <1>12, <1>t DEF TypeOK, TimerFires, RefreshStates, Cookies, NoGrant, tabVars, jarVars, idpVars
<1>13. ASSUME NEW t \in Tabs, HandleRefresh(t) PROVE TypeOK'
  <2>1. usable' \subseteq Grants
    BY <1>13, <1>t DEF TypeOK, HandleRefresh
  <2>2. \E c \in Cookies : RefreshAnswer(t, "granted", c)
    BY <1>13, <1>t DEF TypeOK, HandleRefresh, Cookies
  <2>3. refr' \in [Tabs -> [at : RefreshStates, token : Grants \cup {None}, got : Cookies]]
    BY <1>t, <2>2, AnswerType DEF RefreshStates
  <2> QED BY <1>13, <1>t, <2>1, <2>3 DEF TypeOK, HandleRefresh, tabVars, jarVars
<1>14. ASSUME NEW t \in Tabs, RefreshRefused(t) \/ RefreshClears(t) PROVE TypeOK'
  <2>1. refr' \in [Tabs -> [at : RefreshStates, token : Grants \cup {None}, got : Cookies]]
    BY <1>14, <1>t, AnswerType DEF RefreshRefused, RefreshClears, RefreshStates, Cookies, NoGrant
  <2> QED BY <1>14, <1>t, <2>1 DEF TypeOK, RefreshRefused, RefreshClears, tabVars, jarVars, idpVars
<1>15. ASSUME NEW t \in Tabs, RefreshArrives(t) PROVE TypeOK'
  <2>1. jar' \in Cookies
    BY <1>15, <1>t DEF TypeOK, RefreshArrives, Cookies, NoGrant
  <2>2. hasExpiry' \in [Tabs -> BOOLEAN]
    BY <1>15, <1>t DEF TypeOK, RefreshArrives
  <2>3. timer' \in [Tabs -> BOOLEAN]
    BY <1>15, <1>t, <2>2 DEF TypeOK, RefreshArrives, ScheduleRefresh
  <2>4. refr' \in [Tabs -> [at : RefreshStates, token : Grants \cup {None}, got : Cookies]]
    BY <1>15, <1>t DEF TypeOK, RefreshArrives, IdleRefresh, RefreshStates, Cookies, NoGrant
  <2> QED BY <1>15, <1>t, <2>1, <2>2, <2>3, <2>4 DEF TypeOK, RefreshArrives, tabVars, idpVars
<1>16. ASSUME NEW t \in Tabs, Logout(t) \/ SignInAgain(t) PROVE TypeOK'
  BY <1>16, <1>t, SendType DEF TypeOK, Logout, SignInAgain, timeVars, jarVars, idpVars
<1>17. ASSUME NEW t \in Tabs, HandleLogout(t) PROVE TypeOK'
  BY <1>17, <1>t DEF TypeOK, HandleLogout, timeVars, jarVars
<1>18. ASSUME NEW t \in Tabs, LogoutArrives(t) PROVE TypeOK'
  <2>1. jar' \in Cookies /\ isLoading' \in [Tabs -> BOOLEAN] /\ step' \in [Tabs -> Steps]
    <3>1. CASE reply[t] = "ok"
      <4>1. jar' \in Cookies
        BY <1>18, <3>1 DEF LogoutArrives, NoGrant, Cookies
      <4>2. isLoading' \in [Tabs -> BOOLEAN]
        BY <1>18, <1>t, <3>1 DEF TypeOK, LogoutArrives
      <4>3. step' \in [Tabs -> Steps]
        BY <1>18, <1>t, <3>1 DEF TypeOK, LogoutArrives, Steps
      <4> QED BY <4>1, <4>2, <4>3
    <3>2. CASE reply[t] # "ok"
      BY <1>18, <1>t, <3>2 DEF TypeOK, LogoutArrives, Steps
    <3> QED BY <3>1, <3>2
  <2>2. snap' \in [Tabs -> [session : Cookies, hasFlow : BOOLEAN]]
    BY <1>18, <1>t DEF TypeOK, LogoutArrives, NoSnap, NoGrant, Cookies
  <2> QED BY <1>18, <1>t, <2>1, <2>2 DEF TypeOK, LogoutArrives, timeVars, idpVars
<1>19. ASSUME NEW t \in Tabs, AgainArrives(t) PROVE TypeOK'
  BY <1>19, <1>t
     DEF TypeOK, AgainArrives, DropPage, IdleRefresh, RefreshStates, Steps, NoSnap, NoGrant,
         Cookies, idpVars
<1>20. ASSUME NEW t \in Tabs, CloseTab(t) PROVE TypeOK'
  BY <1>20, <1>t
     DEF TypeOK, CloseTab, Forget, DropPage, IdleRefresh, RefreshStates, Steps, NoSnap, NoGrant,
         Cookies, jarVars
<1>21. ASSUME AccessExpires \/ RefreshExpires \/ SessionEnds PROVE TypeOK'
  BY <1>21, <1>t
     DEF TypeOK, AccessExpires, RefreshExpires, SessionEnds, Cookies, tabVars, timeVars, jarVars,
         idpVars
<1>22. ASSUME NEW f \in Flows, FlowExpires(f) PROVE TypeOK'
  <2>1. flowJar' \subseteq Flows /\ ended' \subseteq Flows /\ codeUsed' \subseteq Flows
    BY <1>22, <1>t DEF TypeOK, FlowExpires
  <2> QED BY <1>22, <1>t, <2>1 DEF TypeOK, FlowExpires, tabVars, timeVars
<1>23. CASE UNCHANGED vars
  BY <1>23, <1>t DEF TypeOK, vars, tabVars, timeVars, jarVars, idpVars
<1> QED
  BY <1>1, <1>2, <1>3, <1>4, <1>5, <1>6, <1>7, <1>8, <1>9, <1>10, <1>11, <1>12, <1>13,
     <1>14, <1>15, <1>16, <1>17, <1>18, <1>19, <1>20, <1>21, <1>22, <1>23 DEF Next

-------------------------------------------------------------------------------
(* Sign-ins. *)

Signing == FlowKept /\ CodeHasFlow /\ ExchangeKnows

\* A step of tab t that only sends a request, but for an exchange, or that only
\* leaves the request it waited for.
LEMMA SigningKept ==
  ASSUME FlowInv, NEW t \in Tabs,
         UNCHANGED <<flow, flowJar, ended>>,
         step'[t] \notin {"away", "exchange"}, page'[t] = page[t] \/ page'[t] = "app",
         \A u \in Tabs \ {t} : /\ step'[u] = step[u] /\ snap'[u] = snap[u]
                                /\ reply'[u] = reply[u] /\ page'[u] = page[u]
  PROVE  Signing'
BY DEF FlowInv, Signing, FlowKept, CodeHasFlow, ExchangeKnows

LEMMA SigningStep == FlowInv /\ [Next]_vars => Signing'
<1> SUFFICES ASSUME FlowInv, [Next]_vars PROVE Signing'
  OBVIOUS
<1>t. TypeOK /\ FlowKept /\ CodeHasFlow /\ ExchangeKnows
  BY DEF FlowInv
<1>1. ASSUME NEW t \in Tabs, OpenTab(t) \/ AskInfo(t) \/ InfoStartsLogin(t) \/ ExchangeLost(t)
                              \/ Logout(t) \/ SignInAgain(t)
      PROVE Signing'
  BY <1>1, <1>t, SendType, SigningKept
     DEF OpenTab, AskInfo, InfoStartsLogin, ExchangeLost, Logout, SignInAgain, jarVars
<1>2. ASSUME NEW t \in Tabs, Reload(t) PROVE Signing'
  <2>1. UNCHANGED <<page, flowJar, ended>>
    BY <1>2 DEF Reload, jarVars
  <2>2. CASE page[t] = "app" /\ Send(t, "info")
    BY <1>t, <2>1, <2>2, SendType, SigningKept
  <2>3. CASE page[t] = "code" /\ Send(t, "exchange")
    <3>1. flow[t] # None
      BY <1>t, <2>3 DEF CodeHasFlow
    <3>2. /\ flow' = flow /\ step'[t] = "exchange" /\ reply'[t] = "none"
          /\ snap'[t].hasFlow = (flow[t] \in flowJar)
          /\ \A u \in Tabs \ {t} : /\ step'[u] = step[u] /\ snap'[u] = snap[u]
                                   /\ reply'[u] = reply[u]
      BY <1>t, <2>3, SendType
    <3> QED BY <1>t, <2>1, <3>1, <3>2 DEF Signing, FlowKept, CodeHasFlow, ExchangeKnows
  <2>4. CASE UNCHANGED <<step, flow, snap, reply>>
    BY <1>t, <2>1, <2>4 DEF Signing, FlowKept, CodeHasFlow, ExchangeKnows
  <2> QED BY <1>2, <2>2, <2>3, <2>4 DEF Reload
<1>3. ASSUME NEW t \in Tabs, InfoShowsShell(t) PROVE Signing'
  BY <1>3, <1>t
     DEF TypeOK, InfoShowsShell, Forget, jarVars, Signing, FlowKept, CodeHasFlow, ExchangeKnows
<1>4. ASSUME NEW t \in Tabs, NEW f \in Flows, StartLeaves(t, f) PROVE Signing'
  <2>1. f # None /\ \A u \in Tabs : flow[u] # f
    BY <1>4, AuthNamesAssumption DEF StartLeaves, FlowInUse
  <2>2. /\ flowJar' = flowJar \cup {f} /\ flow' = [flow EXCEPT ![t] = f]
        /\ step' = [step EXCEPT ![t] = "away"]
        /\ snap' = [snap EXCEPT ![t] = NoSnap] /\ UNCHANGED <<page, reply>>
        /\ \A u \in Tabs : flow'[u] \in ended => flow'[u] \in ended'
    BY <1>4 DEF StartLeaves, Forget
  <2>3. FlowKept'
    BY <1>t, <2>1, <2>2 DEF TypeOK, FlowKept
  <2>4. CodeHasFlow'
    BY <1>t, <2>1, <2>2 DEF TypeOK, CodeHasFlow
  <2>5. ExchangeKnows'
    BY <1>t, <2>1, <2>2 DEF TypeOK, ExchangeKnows
  <2> QED BY <2>3, <2>4, <2>5 DEF Signing
<1>5. ASSUME NEW t \in Tabs, StartFails(t) PROVE Signing'
  BY <1>5, <1>t, SigningKept DEF TypeOK, StartFails, jarVars
<1>6. ASSUME NEW t \in Tabs, ProviderReturns(t) PROVE Signing'
  <2>1. UNCHANGED <<flowJar, ended>> /\ page' = [page EXCEPT ![t] = "code"] /\ flow[t] # None
    BY <1>6, <1>t DEF ProviderReturns, jarVars, CodeHasFlow
  <2>2. /\ flow' = flow /\ step'[t] = "exchange" /\ reply'[t] = "none"
        /\ snap'[t].hasFlow = (flow[t] \in flowJar)
        /\ \A u \in Tabs \ {t} : /\ step'[u] = step[u] /\ snap'[u] = snap[u]
                                 /\ reply'[u] = reply[u]
    BY <1>6, <1>t, SendType DEF ProviderReturns
  <2> QED BY <1>t, <2>1, <2>2 DEF TypeOK, Signing, FlowKept, CodeHasFlow, ExchangeKnows
<1>7. ASSUME NEW t \in Tabs, ProviderRefuses(t) PROVE Signing'
  BY <1>7, <1>t
     DEF TypeOK, ProviderRefuses, Forget, jarVars, Signing, FlowKept, CodeHasFlow, ExchangeKnows
<1>8. ASSUME NEW t \in Tabs, HandleExchange(t) PROVE Signing'
  <2>1. reply'[t] # "ok" /\ \A u \in Tabs \ {t} : reply'[u] = reply[u]
    BY <1>8, <1>t, AuthNamesAssumption DEF TypeOK, HandleExchange
  <2> QED BY <1>8, <1>t, <2>1
          DEF HandleExchange, jarVars, Signing, FlowKept, CodeHasFlow, ExchangeKnows
<1>9. ASSUME NEW t \in Tabs, ExchangeArrives(t) PROVE Signing'
  BY <1>9, <1>t DEF TypeOK, ExchangeArrives, Signing, FlowKept, CodeHasFlow, ExchangeKnows
<1>10. ASSUME NEW t \in Tabs,
              TimerFires(t) \/ HandleRefresh(t) \/ RefreshRefused(t) \/ RefreshClears(t) \/ RefreshArrives(t)
       PROVE Signing'
  <2>1. UNCHANGED <<step, page, flow, snap, reply, flowJar, ended>>
    BY <1>10
       DEF TimerFires, HandleRefresh, RefreshRefused, RefreshClears, RefreshArrives, tabVars,
           jarVars
  <2> QED BY <1>t, <2>1 DEF Signing, FlowKept, CodeHasFlow, ExchangeKnows
<1>11. ASSUME NEW t \in Tabs, HandleLogout(t) PROVE Signing'
  BY <1>11, <1>t DEF TypeOK, HandleLogout, jarVars, Signing, FlowKept, CodeHasFlow, ExchangeKnows
<1>12. ASSUME NEW t \in Tabs, LogoutArrives(t) PROVE Signing'
  <2>1. step' \in {[step EXCEPT ![t] = "ask"], [step EXCEPT ![t] = "shell"]}
    BY <1>12 DEF LogoutArrives
  <2> QED BY <1>12, <1>t, <2>1, SigningKept DEF TypeOK, LogoutArrives
<1>13. ASSUME NEW t \in Tabs, AgainArrives(t) PROVE Signing'
  BY <1>13, <1>t, SigningKept DEF TypeOK, AgainArrives
<1>14. ASSUME NEW t \in Tabs, CloseTab(t) PROVE Signing'
  BY <1>14, <1>t
     DEF TypeOK, CloseTab, Forget, jarVars, Signing, FlowKept, CodeHasFlow, ExchangeKnows
<1>15. ASSUME AccessExpires \/ RefreshExpires \/ SessionEnds PROVE Signing'
  <2>1. UNCHANGED <<step, page, flow, snap, reply, flowJar, ended>>
    BY <1>15 DEF AccessExpires, RefreshExpires, SessionEnds, tabVars, jarVars
  <2> QED BY <1>t, <2>1 DEF Signing, FlowKept, CodeHasFlow, ExchangeKnows
<1>16. ASSUME NEW f \in Flows, FlowExpires(f) PROVE Signing'
  BY <1>16, <1>t DEF FlowExpires, tabVars, Signing, FlowKept, CodeHasFlow, ExchangeKnows
<1>17. CASE UNCHANGED vars
  BY <1>17, <1>t DEF vars, tabVars, jarVars, Signing, FlowKept, CodeHasFlow, ExchangeKnows
<1> QED
  BY <1>1, <1>2, <1>3, <1>4, <1>5, <1>6, <1>7, <1>8, <1>9, <1>10, <1>11, <1>12, <1>13,
     <1>14, <1>15, <1>16, <1>17 DEF Next

\* The invariant the results rest on.
LEMMA FlowInvariant == Spec => []FlowInv
<1>1. Init => FlowInv
  <2> SUFFICES ASSUME Init PROVE FlowInv
    OBVIOUS
  <2>1. TypeOK
    BY DEF Init, TypeOK, Steps, NoSnap, NoGrant, Cookies, IdleRefresh, RefreshStates
  <2>2. FlowKept /\ CodeHasFlow /\ ExchangeKnows
    BY DEF Init, FlowKept, CodeHasFlow, ExchangeKnows
  <2> QED BY <2>1, <2>2 DEF FlowInv
<1>2. FlowInv /\ [Next]_vars => FlowInv'
  BY TypeStep, SigningStep DEF FlowInv, Signing
<1> QED BY <1>1, <1>2, PTL DEF Spec

\* The state of the tabs, the cookies and the provider stays well formed
\* (useOIDCLogin, proxy/auth).
THEOREM AuthTypes == Spec => []TypeOK
<1>1. FlowInv => TypeOK
  BY DEF FlowInv
<1> QED BY <1>1, FlowInvariant, PTL

\* However many tabs sign in at once, no exchange misses its flow cookie because
\* of another tab (setAuthFlowCookie, getAndClearAuthFlowCookie).
THEOREM SignInsStayApart == Spec => FlowsApart
<1>1. FlowInv /\ [Next]_vars =>
        [\A t \in Tabs :
           step[t] = "exchange" /\ reply[t] = "none" /\ reply'[t] = "fail" /\ ~snap[t].hasFlow
             => flow[t] \in ended]_vars
  BY DEF FlowInv, ExchangeKnows
<1> QED BY <1>1, FlowInvariant, PTL DEF Spec, FlowsApart

-------------------------------------------------------------------------------
(* Losing a session. *)

\* A refresh that was granted brings a refresh token, and one that was refused was
\* sent with a token the provider does not take: names of grants that are still
\* referred to are not handed out again.
RefreshKnows ==
  \A t \in Tabs :
    /\ refr[t].at = "granted" => refr[t].got.refresh \in Grants
    /\ refr[t].at = "clear" => refr[t].token \in Grants \ usable

LEMMA RefreshKnowsStep == FlowInv /\ RefreshKnows /\ [Next]_vars => RefreshKnows'
<1> SUFFICES ASSUME FlowInv, RefreshKnows, [Next]_vars PROVE RefreshKnows'
  OBVIOUS
<1>t. TypeOK
  BY DEF FlowInv
<1>0. IdleRefresh.at = "idle"
  BY DEF IdleRefresh
<1>1. ASSUME NEW t \in Tabs, refr' = [refr EXCEPT ![t] = IdleRefresh] \/ UNCHANGED refr,
             usable' \subseteq usable
      PROVE RefreshKnows'
  BY <1>1, <1>0, <1>t DEF TypeOK, RefreshKnows
<1>2. ASSUME NEW t \in Tabs,
             \/ OpenTab(t) \/ AskInfo(t) \/ InfoShowsShell(t) \/ InfoStartsLogin(t) \/ StartFails(t)
             \/ ProviderReturns(t) \/ ProviderRefuses(t) \/ ExchangeArrives(t) \/ ExchangeLost(t)
             \/ Logout(t) \/ SignInAgain(t) \/ HandleLogout(t) \/ LogoutArrives(t)
      PROVE RefreshKnows'
  <2>1. UNCHANGED refr /\ usable' \subseteq usable
    BY <1>2 DEF OpenTab, AskInfo, InfoShowsShell, InfoStartsLogin, StartFails, ProviderReturns,
                ProviderRefuses, ExchangeArrives, ExchangeLost, Logout, SignInAgain, HandleLogout,
                LogoutArrives, timeVars, idpVars
  <2> QED BY <1>1, <2>1
<1>3. ASSUME NEW t \in Tabs,
             \/ Reload(t) \/ CloseTab(t) \/ AgainArrives(t) \/ RefreshArrives(t)
             \/ \E f \in Flows : StartLeaves(t, f)
      PROVE RefreshKnows'
  <2>1. refr' = [refr EXCEPT ![t] = IdleRefresh] /\ usable' \subseteq usable
    BY <1>3 DEF Reload, CloseTab, AgainArrives, RefreshArrives, StartLeaves, DropPage, idpVars
  <2> QED BY <1>1, <2>1
<1>4. ASSUME NEW t \in Tabs, HandleExchange(t) PROVE RefreshKnows'
  <2>1. UNCHANGED refr /\ \A g \in usable' \ usable : ~GrantInUse(g)
    BY <1>4 DEF HandleExchange, timeVars
  <2>2. \A u \in Tabs : refr[u].token \notin usable' \ usable
    BY <2>1 DEF GrantInUse
  <2> QED BY <2>1, <2>2 DEF RefreshKnows
<1>5. ASSUME NEW t \in Tabs, TimerFires(t) PROVE RefreshKnows'
  BY <1>5, <1>t DEF TypeOK, TimerFires, idpVars, RefreshKnows
<1>6. ASSUME NEW t \in Tabs, HandleRefresh(t) PROVE RefreshKnows'
  <2>1. \A g \in usable' \ usable : ~GrantInUse(g)
    BY <1>6 DEF HandleRefresh
  <2>2. \A u \in Tabs : refr[u].token \notin usable' \ usable
    BY <2>1 DEF GrantInUse
  <2>3. PICK c \in Cookies : RefreshAnswer(t, "granted", c) /\ c.refresh \in Grants
    BY <1>6, <1>t DEF TypeOK, HandleRefresh, Cookies
  <2>4. refr'[t].at = "granted" /\ refr'[t].got = c /\ \A u \in Tabs \ {t} : refr'[u] = refr[u]
    BY <1>t, <2>3 DEF TypeOK, RefreshAnswer
  <2> QED BY <2>2, <2>3, <2>4 DEF RefreshKnows
<1>7. ASSUME NEW t \in Tabs, RefreshRefused(t) \/ RefreshClears(t) PROVE RefreshKnows'
  <2>1. /\ UNCHANGED usable /\ \A u \in Tabs \ {t} : refr'[u] = refr[u]
        /\ refr'[t].at \in {"refused", "failed", "clear"}
        /\ refr'[t].at = "clear" => /\ refr'[t].token = refr[t].token
                                    /\ refr[t].token # None /\ refr[t].token \notin usable
    BY <1>7, <1>t DEF TypeOK, RefreshRefused, RefreshClears, RefreshAnswer, idpVars
  <2> QED BY <1>t, <2>1 DEF TypeOK, RefreshKnows
<1>8. ASSUME AccessExpires \/ RefreshExpires \/ SessionEnds \/ (\E f \in Flows : FlowExpires(f))
             \/ UNCHANGED vars
      PROVE RefreshKnows'
  <2>1. UNCHANGED refr /\ usable' \subseteq usable
    BY <1>8 DEF AccessExpires, RefreshExpires, SessionEnds, FlowExpires, vars, timeVars, idpVars
  <2> QED BY <2>1 DEF RefreshKnows
<1> QED BY <1>2, <1>3, <1>4, <1>5, <1>6, <1>7, <1>8 DEF Next

\* However many tabs share the cookies, whether refresh tokens rotate and whatever
\* fails, a session the provider would still refresh leaves the browser only when it
\* expires, when a logout succeeds, when the token endpoint fails on a good refresh,
\* or when the tokens a refused refresh was sent with had been replaced meanwhile
\* (GetLoginRefresh, PostLogin, PostLogout).
THEOREM LiveSessionsLostForAReason == Spec => LiveSessionLostForAReason
<1>1. Init => RefreshKnows
  BY DEF Init, RefreshKnows, IdleRefresh
<1>2. FlowInv /\ RefreshKnows /\ [Next]_vars => RefreshKnows'
  BY RefreshKnowsStep
<1>3. FlowInv /\ RefreshKnows /\ [Next]_vars =>
        [jar.refresh \in usable /\ jar'.refresh = None /\ ~RefreshExpires =>
           \E t \in Tabs :
             \/ step[t] \in {"logout", "again"} /\ reply[t] = "ok" /\ reply'[t] = "none"
             \/ refr[t].at = "failed" /\ refr'[t].at = "idle"
             \/ /\ refr[t].at = "clear" /\ refr'[t].at = "idle"
                /\ refr[t].token \notin {None, jar.refresh}]_vars
  <2> SUFFICES ASSUME FlowInv, RefreshKnows, Next, jar.refresh \in usable, jar'.refresh = None,
                      ~RefreshExpires
               PROVE  \E t \in Tabs :
                        \/ step[t] \in {"logout", "again"} /\ reply[t] = "ok" /\ reply'[t] = "none"
                        \/ refr[t].at = "failed" /\ refr'[t].at = "idle"
                        \/ /\ refr[t].at = "clear" /\ refr'[t].at = "idle"
                           /\ refr[t].token \notin {None, jar.refresh}
    OBVIOUS
  <2>t. TypeOK
    BY DEF FlowInv
  <2>1. jar' # jar
    BY <2>t, AuthNamesAssumption DEF TypeOK
  <2>2. ASSUME NEW t \in Tabs, ExchangeArrives(t) PROVE FALSE
    <3>1. reply[t] # "fail" /\ reply[t] \in Grants
      BY <2>1, <2>2, <2>t DEF TypeOK, ExchangeArrives, FlowInv, ExchangeKnows
    <3>2. jar'.refresh = reply[t]
      BY <2>2, <3>1 DEF ExchangeArrives
    <3> QED BY <3>1, <3>2, AuthNamesAssumption
  <2>3. ASSUME NEW t \in Tabs, RefreshArrives(t)
        PROVE  \/ refr[t].at = "failed" /\ refr'[t].at = "idle"
               \/ /\ refr[t].at = "clear" /\ refr'[t].at = "idle"
                  /\ refr[t].token \notin {None, jar.refresh}
    <3>1. refr'[t].at = "idle"
      BY <2>3, <2>t DEF TypeOK, RefreshArrives, IdleRefresh
    <3>2. refr[t].at # "granted"
      BY <2>3, AuthNamesAssumption DEF RefreshArrives, RefreshKnows
    <3>3. refr[t].at \in {"failed", "clear"}
      BY <2>1, <2>3, <3>2 DEF RefreshArrives
    <3>4. refr[t].at = "clear" => refr[t].token \notin {None, jar.refresh}
      BY AuthNamesAssumption DEF RefreshKnows
    <3> QED BY <3>1, <3>3, <3>4
  <2>4. ASSUME NEW t \in Tabs, LogoutArrives(t) \/ AgainArrives(t)
        PROVE  step[t] \in {"logout", "again"} /\ reply[t] = "ok" /\ reply'[t] = "none"
    <3>1. reply[t] = "ok"
      BY <2>1, <2>4 DEF LogoutArrives, AgainArrives
    <3>2. step[t] \in {"logout", "again"} /\ reply'[t] = "none"
      BY <2>4, <2>t DEF TypeOK, LogoutArrives, AgainArrives
    <3> QED BY <3>1, <3>2
  <2>5. ~AccessExpires
    BY <2>t, AuthNamesAssumption DEF TypeOK, Cookies, AccessExpires
  <2>6. \A t \in Tabs :
          /\ ~OpenTab(t) /\ ~Reload(t) /\ ~CloseTab(t) /\ ~AskInfo(t) /\ ~InfoShowsShell(t)
          /\ ~InfoStartsLogin(t) /\ ~StartFails(t) /\ ~ProviderReturns(t) /\ ~ProviderRefuses(t)
          /\ ~HandleExchange(t) /\ ~ExchangeLost(t) /\ ~TimerFires(t) /\ ~HandleRefresh(t)
          /\ ~RefreshRefused(t) /\ ~RefreshClears(t) /\ ~Logout(t) /\ ~SignInAgain(t)
          /\ ~HandleLogout(t) /\ \A f \in Flows : ~StartLeaves(t, f)
    BY <2>1 DEF OpenTab, Reload, CloseTab, AskInfo, InfoShowsShell, InfoStartsLogin, StartFails,
                ProviderReturns, ProviderRefuses, HandleExchange, ExchangeLost, TimerFires,
                HandleRefresh, RefreshRefused, RefreshClears, Logout, SignInAgain, HandleLogout,
                StartLeaves, jarVars
  <2>7. ~SessionEnds /\ \A f \in Flows : ~FlowExpires(f)
    BY <2>1 DEF SessionEnds, FlowExpires, jarVars
  <2> QED BY <2>2, <2>3, <2>4, <2>5, <2>6, <2>7 DEF Next
<1> QED BY <1>1, <1>2, <1>3, FlowInvariant, PTL DEF Spec, LiveSessionLostForAReason
===============================================================================
