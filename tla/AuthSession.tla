------------------------------ MODULE AuthSession ------------------------------
(***************************************************************************)
(* Signing in and out of the UI: the useOIDCLogin effect, refresh timer    *)
(* and logout of every tab, the session cookies those tabs share, the      *)
(* proxy's /api/login, /login/refresh and /logout handlers, and an OIDC    *)
(* provider.                                                               *)
(*                                                                         *)
(* A grant is one token response: its access, ID and refresh tokens.  The  *)
(* ID cookie is written and expires with the access cookie, so `access'    *)
(* stands for both.  A request carries the cookies of the moment it is     *)
(* sent; what the handler does at the provider and what its Set-Cookie     *)
(* does in the browser are later steps.  Time is what it allows: cookies   *)
(* may expire, the access cookie before the refresh cookie.                *)
(***************************************************************************)
EXTENDS FiniteSets, Naturals

CONSTANTS
  Tabs,
  Grants,     \* token responses in use at one time
  Flows,      \* login attempts (OAuth states) in use at one time
  None,
  Rotates,    \* does the provider retire a refresh token once it is used
  Faults      \* what may go wrong, of FaultNames

FaultNames ==
  {"tokenFails",      \* the token or end_session endpoint fails on a good request
   "discoveryFails",  \* the capabilities or discovery request fails
   "providerRefuses", \* the provider returns an error instead of a code
   "fetchFails",      \* a request of the browser gets no usable answer
   "sessionEnds",     \* the provider ends the session on its own
   "reloads"}         \* the user reloads the page

ASSUME AuthNamesAssumption ==
  /\ None \notin Tabs \cup Grants \cup Flows
  /\ Grants \cap {"none", "ok", "fail"} = {}
ASSUME RotatesAssumption == Rotates \in BOOLEAN
ASSUME AuthFaultsAssumption == Faults \subseteq FaultNames

VARIABLES
  step,       \* per tab: what its login effect, or its logout, is waiting for
  isLoading,  \* per tab: isLoading (App shows the spinner)
  error,      \* per tab: an error message is set
  page,       \* per tab: an address of the app, /callback with a code or with an error
  flow,       \* per tab: the flow of the provider page or callback it is on
  snap,       \* per tab: the cookies its request carried
  reply,      \* per tab: what the handler answered, not yet seen
  timer,      \* per tab: a refresh timer is set
  hasExpiry,  \* per tab: sessionStorage knows when the session expires
  refr,       \* per tab: its refresh request
  jar,        \* session cookies of the browser
  flowJar,    \* auth-flow cookies of the browser
  ssoAlive,   \* the provider has a session for this browser's user
  usable,     \* refresh tokens the provider would accept
  codeUsed,   \* flows whose code was redeemed
  ended       \* flows whose cookie their own answer cleared, or ten minutes expired

tabVars  == <<step, isLoading, error, page, flow, snap, reply>>
timeVars == <<timer, hasExpiry, refr>>
jarVars  == <<jar, flowJar>>
idpVars  == <<ssoAlive, usable, codeUsed>>
vars == <<tabVars, timeVars, jarVars, idpVars, ended>>

NoGrant == [access |-> None, refresh |-> None]
Cookies == [access : Grants \cup {None}, refresh : Grants \cup {None}]
Steps == {"closed", "ask", "info", "start", "away", "exchange", "shell", "logout",
          "again", "failed"}
NoSnap == [session |-> NoGrant, hasFlow |-> FALSE]
IdleRefresh == [at |-> "idle", token |-> None, got |-> NoGrant]
RefreshStates == {"idle", "sent", "granted", "clear", "failed", "refused"}

TypeOK ==
  /\ step \in [Tabs -> Steps]
  /\ isLoading \in [Tabs -> BOOLEAN] /\ error \in [Tabs -> BOOLEAN]
  /\ page \in [Tabs -> {"app", "code", "refused"}]
  /\ flow \in [Tabs -> Flows \cup {None}]
  /\ snap \in [Tabs -> [session : Cookies, hasFlow : BOOLEAN]]
  /\ reply \in [Tabs -> {"none", "ok", "fail"} \cup Grants]
  /\ timer \in [Tabs -> BOOLEAN] /\ hasExpiry \in [Tabs -> BOOLEAN]
  /\ refr \in [Tabs -> [at : RefreshStates, token : Grants \cup {None}, got : Cookies]]
  /\ jar \in Cookies
  /\ flowJar \subseteq Flows
  /\ ssoAlive \in BOOLEAN
  /\ usable \subseteq Grants
  /\ codeUsed \subseteq Flows
  /\ ended \subseteq Flows

Init ==
  /\ step = [t \in Tabs |-> "closed"]
  /\ isLoading = [t \in Tabs |-> TRUE]
  /\ error = [t \in Tabs |-> FALSE]
  /\ page = [t \in Tabs |-> "app"]
  /\ flow = [t \in Tabs |-> None]
  /\ snap = [t \in Tabs |-> NoSnap]
  /\ reply = [t \in Tabs |-> "none"]
  /\ timer = [t \in Tabs |-> FALSE]
  /\ hasExpiry = [t \in Tabs |-> FALSE]
  /\ refr = [t \in Tabs |-> IdleRefresh]
  /\ jar = NoGrant
  /\ flowJar = {}
  /\ ssoAlive = FALSE
  /\ usable = {}
  /\ codeUsed = {}
  /\ ended = {}

-------------------------------------------------------------------------------
(* Names nobody refers to any more, the provider apart, can be used again. *)

GrantInUse(g) ==
  \/ g \in {jar.access, jar.refresh}
  \/ \E t \in Tabs : g \in {snap[t].session.access, snap[t].session.refresh, reply[t],
                            refr[t].token, refr[t].got.access, refr[t].got.refresh}

FlowInUse(f) == f \in flowJar \/ \E t \in Tabs : flow[t] = f

\* What is remembered of a flow goes with the last that refers to it.
Forget ==
  LET known == flowJar' \cup {flow'[t] : t \in Tabs} IN
    codeUsed' = codeUsed \cap known /\ ended' = ended \cap known

\* A request leaves tab t with the cookies of this moment, of which GetLoginInfo
\* reads the access cookie, PostLogout the session's and PostLogin its flow's.
Send(t, s) ==
  /\ step' = [step EXCEPT ![t] = s]
  /\ snap' = [snap EXCEPT ![t] =
       [session |-> [access  |-> IF s \in {"info", "logout", "again"} THEN jar.access ELSE None,
                     refresh |-> IF s \in {"logout", "again"} THEN jar.refresh ELSE None],
        hasFlow |-> s = "exchange" /\ flow[t] \in flowJar]]
  /\ reply' = [reply EXCEPT ![t] = "none"]
  /\ UNCHANGED flow

\* scheduleRefresh: it needs an expiry, more than 15 seconds away.
ScheduleRefresh(t) ==
  timer' \in {[timer EXCEPT ![t] = FALSE], [timer EXCEPT ![t] = hasExpiry'[t]]}

\* The document is replaced: its timer and its pending requests are gone.
DropPage(t) ==
  /\ timer' = [timer EXCEPT ![t] = FALSE]
  /\ refr' = [refr EXCEPT ![t] = IdleRefresh]
  /\ isLoading' = [isLoading EXCEPT ![t] = TRUE]

-------------------------------------------------------------------------------
(* The login effect of a tab. *)

\* The effect of a fresh document, by the address it was loaded at.
OpenTab(t) ==
  /\ step[t] = "closed"
  /\ Send(t, "info")
  /\ UNCHANGED <<isLoading, error, page, timeVars, jarVars, idpVars, ended>>

Reload(t) ==
  /\ "reloads" \in Faults /\ step[t] \notin {"closed", "away"}
  /\ \/ page[t] = "app" /\ Send(t, "info") /\ error' = [error EXCEPT ![t] = FALSE]
     \/ page[t] = "code" /\ Send(t, "exchange") /\ error' = [error EXCEPT ![t] = FALSE]
     \/ page[t] = "refused" /\ UNCHANGED <<step, flow, snap, reply, error>>
  /\ DropPage(t)
  /\ UNCHANGED <<page, hasExpiry, jarVars, idpVars, ended>>

\* fetchLoginInfo, when the effect got to it by an await, a render or a new
\* document: with the cookies there are by now.
AskInfo(t) ==
  /\ step[t] = "ask"
  /\ Send(t, "info")
  /\ UNCHANGED <<isLoading, error, page, timeVars, jarVars, idpVars, ended>>

\* fetchLoginInfo found a session: the shell, which leaves /callback for its
\* default route, and a timer if the expiry is known.
InfoShowsShell(t) ==
  /\ step[t] = "info" /\ snap[t].session.access # None
  /\ step' = [step EXCEPT ![t] = "shell"]
  /\ snap' = [snap EXCEPT ![t] = NoSnap]
  /\ isLoading' = [isLoading EXCEPT ![t] = FALSE]
  /\ error' = [error EXCEPT ![t] = FALSE]
  /\ page' = [page EXCEPT ![t] = "app"]
  /\ flow' = [flow EXCEPT ![t] = None]
  /\ UNCHANGED hasExpiry
  /\ ScheduleRefresh(t)
  /\ UNCHANGED <<reply, refr, jarVars, ssoAlive, usable>>
  /\ Forget

\* No session, or no answer: both are null to the effect, which starts a login.
InfoStartsLogin(t) ==
  /\ step[t] = "info"
  /\ snap[t].session.access = None \/ "fetchFails" \in Faults
  /\ Send(t, "start")
  /\ UNCHANGED <<isLoading, error, page, timeVars, jarVars, idpVars, ended>>

\* (Bug: one auth-flow cookie for the browser, not one for each state.)
StartLeavesShared(t, f) ==
  /\ step[t] = "start" /\ ~FlowInUse(f)
  /\ flowJar' = {f}
  /\ flow' = [flow EXCEPT ![t] = f]
  /\ step' = [step EXCEPT ![t] = "away"]
  /\ snap' = [snap EXCEPT ![t] = NoSnap]
  /\ DropPage(t)
  /\ UNCHANGED <<error, page, reply, hasExpiry, jar, ssoAlive, usable>>
  /\ Forget

\* GetLogin answered: the flow cookie is stored and the tab leaves for the provider.
StartLeaves(t, f) ==
  /\ step[t] = "start" /\ ~FlowInUse(f)
  /\ flowJar' = flowJar \cup {f}
  /\ flow' = [flow EXCEPT ![t] = f]
  /\ step' = [step EXCEPT ![t] = "away"]
  /\ snap' = [snap EXCEPT ![t] = NoSnap]
  /\ DropPage(t)
  /\ UNCHANGED <<error, page, reply, hasExpiry, jar, ssoAlive, usable>>
  /\ Forget

\* GetLogin failed: the effect returns with an error and isLoading as it was.
StartFails(t) ==
  /\ step[t] = "start" /\ Faults \cap {"discoveryFails", "fetchFails"} # {}
  /\ step' = [step EXCEPT ![t] = "failed"]
  /\ snap' = [snap EXCEPT ![t] = NoSnap]
  /\ error' = [error EXCEPT ![t] = TRUE]
  /\ UNCHANGED <<isLoading, page, flow, reply, timeVars, jarVars, idpVars, ended>>

\* The provider sends the browser back to /callback with a code, after the user
\* signed in or at once when it still has a session.
ProviderReturns(t) ==
  /\ step[t] = "away"
  /\ ssoAlive' = TRUE
  /\ page' = [page EXCEPT ![t] = "code"]
  /\ Send(t, "exchange")
  /\ error' = [error EXCEPT ![t] = FALSE]
  /\ UNCHANGED <<isLoading, timeVars, jarVars, usable, codeUsed, ended>>

\* ... or with an error in the query: the effect returns.
ProviderRefuses(t) ==
  /\ step[t] = "away" /\ "providerRefuses" \in Faults
  /\ step' = [step EXCEPT ![t] = "failed"]
  /\ page' = [page EXCEPT ![t] = "refused"]
  /\ flow' = [flow EXCEPT ![t] = None]
  /\ error' = [error EXCEPT ![t] = TRUE]
  /\ UNCHANGED <<isLoading, snap, reply, timeVars, jarVars, ssoAlive, usable>>
  /\ Forget

\* PostLogin: the flow cookie names the flow, the provider redeems its code once.
HandleExchange(t) ==
  /\ step[t] = "exchange" /\ reply[t] = "none"
  /\ \/ /\ snap[t].hasFlow /\ flow[t] \notin codeUsed /\ ssoAlive
        /\ \E g \in Grants :
             /\ ~GrantInUse(g)
             /\ usable' = usable \cup {g}
             /\ reply' = [reply EXCEPT ![t] = g]
        /\ codeUsed' = codeUsed \cup {flow[t]}
     \/ /\ ~snap[t].hasFlow \/ flow[t] \in codeUsed \/ ~ssoAlive
           \/ Faults \cap {"tokenFails", "discoveryFails"} # {}
        /\ reply' = [reply EXCEPT ![t] = "fail"]
        /\ UNCHANGED <<usable, codeUsed>>
  /\ UNCHANGED <<step, isLoading, error, page, flow, snap, timeVars, jarVars, ssoAlive, ended>>

\* (Bug: goes on without the answer.)
ExchangeArrivesUnanswered(t) ==
  /\ step[t] = "exchange"
  /\ flowJar' = IF snap[t].hasFlow THEN flowJar \ {flow[t]} ELSE flowJar
  /\ ended' = IF snap[t].hasFlow THEN ended \cup {flow[t]} ELSE ended
  /\ IF reply[t] = "fail"
     THEN /\ error' = [error EXCEPT ![t] = TRUE]
          /\ UNCHANGED <<jar, hasExpiry>>
     ELSE /\ jar' = [access |-> reply[t], refresh |-> reply[t]]
          /\ hasExpiry' = [hasExpiry EXCEPT ![t] = TRUE]
          /\ UNCHANGED error
  /\ step' = [step EXCEPT ![t] = "ask"]
  /\ snap' = [snap EXCEPT ![t] = NoSnap]
  /\ reply' = [reply EXCEPT ![t] = "none"]
  /\ UNCHANGED <<isLoading, page, flow, timer, refr, idpVars>>

\* Either answer that read the flow cookie clears it; a success sets the session.
\* Success or not, the effect goes on to fetchLoginInfo, still at /callback.
ExchangeArrives(t) ==
  /\ step[t] = "exchange" /\ reply[t] # "none"
  /\ flowJar' = IF snap[t].hasFlow THEN flowJar \ {flow[t]} ELSE flowJar
  /\ ended' = IF snap[t].hasFlow THEN ended \cup {flow[t]} ELSE ended
  /\ IF reply[t] = "fail"
     THEN /\ error' = [error EXCEPT ![t] = TRUE]
          /\ UNCHANGED <<jar, hasExpiry>>
     ELSE /\ jar' = [access |-> reply[t], refresh |-> reply[t]]
          /\ hasExpiry' = [hasExpiry EXCEPT ![t] = TRUE]
          /\ UNCHANGED error
  /\ step' = [step EXCEPT ![t] = "ask"]
  /\ snap' = [snap EXCEPT ![t] = NoSnap]
  /\ reply' = [reply EXCEPT ![t] = "none"]
  /\ UNCHANGED <<isLoading, page, flow, timer, refr, idpVars>>

\* The POST got no answer the page could see.
ExchangeLost(t) ==
  /\ step[t] = "exchange" /\ "fetchFails" \in Faults
  /\ error' = [error EXCEPT ![t] = TRUE]
  /\ Send(t, "info")
  /\ UNCHANGED <<isLoading, page, timeVars, jarVars, idpVars, ended>>

-------------------------------------------------------------------------------
(* The refresh timer, which lives as long as the document does. *)

TimerFires(t) ==
  /\ timer[t] /\ refr[t].at = "idle"
  /\ timer' = [timer EXCEPT ![t] = FALSE]
  /\ refr' = [refr EXCEPT ![t] = [at |-> "sent", token |-> jar.refresh, got |-> NoGrant]]
  /\ UNCHANGED <<tabVars, hasExpiry, jarVars, idpVars, ended>>

\* The handler is done with the token; which one was refused is remembered.
RefreshAnswer(t, a, g) ==
  refr' = [refr EXCEPT ![t] = [at |-> a, got |-> g,
                               token |-> IF a = "clear" THEN refr[t].token ELSE None]]

\* RefreshTokens succeeds; a response without a refresh token keeps the old one.
HandleRefresh(t) ==
  /\ refr[t].at = "sent" /\ refr[t].token \in usable
  /\ \E g \in Grants :
       /\ ~GrantInUse(g)
       /\ \/ /\ usable' = IF Rotates THEN (usable \ {refr[t].token}) \cup {g}
                                     ELSE usable \cup {g}
             /\ RefreshAnswer(t, "granted", [access |-> g, refresh |-> g])
          \/ /\ ~Rotates
             /\ UNCHANGED usable
             /\ RefreshAnswer(t, "granted", [access |-> g, refresh |-> refr[t].token])
  /\ UNCHANGED <<tabVars, timer, hasExpiry, jarVars, ssoAlive, codeUsed, ended>>

\* (Bug: a failed discovery clears the session too.)
RefreshRefusedClears(t) ==
  /\ refr[t].at = "sent"
  /\ refr[t].token = None \/ Faults \cap {"discoveryFails", "fetchFails"} # {}
  /\ RefreshAnswer(t, "clear", NoGrant)
  /\ UNCHANGED <<tabVars, timer, hasExpiry, jarVars, idpVars, ended>>

\* No refresh cookie, or discovery fails: 401 or 502, cookies untouched.  A
\* request that is lost ends the same way.
RefreshRefused(t) ==
  /\ refr[t].at = "sent"
  /\ refr[t].token = None \/ Faults \cap {"discoveryFails", "fetchFails"} # {}
  /\ RefreshAnswer(t, "refused", NoGrant)
  /\ UNCHANGED <<tabVars, timer, hasExpiry, jarVars, idpVars, ended>>

\* RefreshTokens fails: 401, and the session is cleared, whether the provider
\* refused the token (clear) or could not be asked (failed).
RefreshClears(t) ==
  /\ refr[t].at = "sent" /\ refr[t].token # None
  /\ \/ refr[t].token \notin usable /\ RefreshAnswer(t, "clear", NoGrant)
     \/ "tokenFails" \in Faults /\ RefreshAnswer(t, "failed", NoGrant)
  /\ UNCHANGED <<tabVars, timer, hasExpiry, jarVars, idpVars, ended>>

\* Only a granted refresh sets the next timer.
RefreshArrives(t) ==
  /\ refr[t].at \in {"granted", "clear", "failed", "refused"}
  /\ refr' = [refr EXCEPT ![t] = IdleRefresh]
  /\ IF refr[t].at = "granted"
     THEN /\ jar' = refr[t].got
          /\ hasExpiry' = [hasExpiry EXCEPT ![t] = TRUE]
          /\ ScheduleRefresh(t)
     ELSE /\ jar' = IF refr[t].at \in {"clear", "failed"} THEN NoGrant ELSE jar
          /\ UNCHANGED <<hasExpiry, timer>>
  /\ UNCHANGED <<tabVars, flowJar, idpVars, ended>>

-------------------------------------------------------------------------------
(* Logout, from the masthead (logout) or from a query that was refused (again). *)

Logout(t) ==
  /\ step[t] = "shell"
  /\ Send(t, "logout")
  /\ UNCHANGED <<isLoading, error, page, timeVars, jarVars, idpVars, ended>>

\* "Sign in again" is offered when a query was refused.
SignInAgain(t) ==
  /\ step[t] = "shell"
  /\ Send(t, "again")
  /\ UNCHANGED <<isLoading, error, page, timeVars, jarVars, idpVars, ended>>

\* PostLogout: without an access cookie the provider is not asked at all.
HandleLogout(t) ==
  /\ step[t] \in {"logout", "again"} /\ reply[t] = "none"
  /\ \/ /\ snap[t].session.access = None
        /\ reply' = [reply EXCEPT ![t] = "ok"]
        /\ UNCHANGED <<ssoAlive, usable>>
     \/ /\ snap[t].session.access # None
        /\ reply' = [reply EXCEPT ![t] = "ok"]
        /\ ssoAlive' = FALSE
        /\ usable' = {}
     \/ /\ snap[t].session.access # None
        /\ \/ Faults \cap {"tokenFails", "discoveryFails"} # {}
           \/ snap[t].session.refresh \notin usable
        /\ reply' = [reply EXCEPT ![t] = "fail"]
        /\ UNCHANGED <<ssoAlive, usable>>
  /\ UNCHANGED <<step, isLoading, error, page, flow, snap, timeVars, jarVars, codeUsed, ended>>

\* (Bug: the login effect does not run again.)
LogoutArrivesQuiet(t) ==
  /\ step[t] = "logout" /\ (reply[t] # "none" \/ "fetchFails" \in Faults)
  /\ IF reply[t] = "ok"
     THEN /\ jar' = NoGrant
          /\ isLoading' = [isLoading EXCEPT ![t] = TRUE]
          /\ step' = [step EXCEPT ![t] = "shell"]
     ELSE /\ step' = [step EXCEPT ![t] = "shell"]
          /\ UNCHANGED <<jar, isLoading>>
  /\ snap' = [snap EXCEPT ![t] = NoSnap]
  /\ reply' = [reply EXCEPT ![t] = "none"]
  /\ UNCHANGED <<error, page, flow, timeVars, flowJar, idpVars, ended>>

\* 204 clears the cookies and has the login effect run again with the next render;
\* the timer lives on.  No effect is under way in a tab that shows the shell, so
\* loginInProgressRef lets it run.
LogoutArrives(t) ==
  /\ step[t] = "logout" /\ (reply[t] # "none" \/ "fetchFails" \in Faults)
  /\ IF reply[t] = "ok"
     THEN /\ jar' = NoGrant
          /\ isLoading' = [isLoading EXCEPT ![t] = TRUE]
          /\ step' = [step EXCEPT ![t] = "ask"]
     ELSE /\ step' = [step EXCEPT ![t] = "shell"]
          /\ UNCHANGED <<jar, isLoading>>
  /\ snap' = [snap EXCEPT ![t] = NoSnap]
  /\ reply' = [reply EXCEPT ![t] = "none"]
  /\ UNCHANGED <<error, page, flow, timeVars, flowJar, idpVars, ended>>

\* Whatever came back, the document is replaced by the app at /.
AgainArrives(t) ==
  /\ step[t] = "again" /\ (reply[t] # "none" \/ "fetchFails" \in Faults)
  /\ jar' = IF reply[t] = "ok" THEN NoGrant ELSE jar
  /\ step' = [step EXCEPT ![t] = "ask"]
  /\ snap' = [snap EXCEPT ![t] = NoSnap]
  /\ reply' = [reply EXCEPT ![t] = "none"]
  /\ DropPage(t)
  /\ UNCHANGED <<error, page, flow, hasExpiry, flowJar, idpVars, ended>>

-------------------------------------------------------------------------------
(* Time, the provider and the browser on their own. *)

AccessExpires ==
  /\ jar.access # None
  /\ jar' = [jar EXCEPT !.access = None]
  /\ UNCHANGED <<tabVars, timeVars, flowJar, idpVars, ended>>

RefreshExpires ==
  /\ jar.access = None /\ jar.refresh # None
  /\ jar' = [jar EXCEPT !.refresh = None]
  /\ UNCHANGED <<tabVars, timeVars, flowJar, idpVars, ended>>

\* Ten minutes at the provider's page.
FlowExpires(f) ==
  /\ f \in flowJar
  /\ flowJar' = flowJar \ {f}
  /\ ended' = (ended \cup {f}) \cap {flow[t] : t \in Tabs}
  /\ codeUsed' = codeUsed \cap (flowJar' \cup {flow[t] : t \in Tabs})
  /\ UNCHANGED <<tabVars, timeVars, jar, ssoAlive, usable>>

SessionEnds ==
  /\ "sessionEnds" \in Faults /\ ssoAlive
  /\ ssoAlive' = FALSE
  /\ usable' = {}
  /\ UNCHANGED <<tabVars, timeVars, jarVars, codeUsed, ended>>

CloseTab(t) ==
  /\ step[t] # "closed"
  /\ step' = [step EXCEPT ![t] = "closed"]
  /\ page' = [page EXCEPT ![t] = "app"]
  /\ flow' = [flow EXCEPT ![t] = None]
  /\ snap' = [snap EXCEPT ![t] = NoSnap]
  /\ reply' = [reply EXCEPT ![t] = "none"]
  /\ error' = [error EXCEPT ![t] = FALSE]
  /\ hasExpiry' = [hasExpiry EXCEPT ![t] = FALSE]
  /\ DropPage(t)
  /\ UNCHANGED <<jarVars, ssoAlive, usable>>
  /\ Forget

Next ==
  \/ \E t \in Tabs :
       \/ OpenTab(t) \/ Reload(t) \/ CloseTab(t)
       \/ AskInfo(t) \/ InfoShowsShell(t) \/ InfoStartsLogin(t)
       \/ (\E f \in Flows : StartLeaves(t, f)) \/ StartFails(t)
       \/ ProviderReturns(t) \/ ProviderRefuses(t)
       \/ HandleExchange(t) \/ ExchangeArrives(t) \/ ExchangeLost(t)
       \/ TimerFires(t) \/ HandleRefresh(t) \/ RefreshRefused(t) \/ RefreshClears(t)
       \/ RefreshArrives(t)
       \/ Logout(t) \/ SignInAgain(t) \/ HandleLogout(t)
       \/ LogoutArrives(t) \/ AgainArrives(t)
  \/ AccessExpires \/ RefreshExpires \/ SessionEnds
  \/ \E f \in Flows : FlowExpires(f)

Spec == Init /\ [][Next]_vars

\* Requests are answered, the provider's page comes back and cookies expire; what
\* the user does is up to the user.
Fairness ==
  /\ \A t \in Tabs :
       /\ WF_vars(AskInfo(t))
       /\ WF_vars(InfoShowsShell(t) \/ InfoStartsLogin(t))
       /\ WF_vars((\E f \in Flows : StartLeaves(t, f)) \/ StartFails(t))
       /\ WF_vars(ProviderReturns(t) \/ ProviderRefuses(t))
       /\ WF_vars(HandleExchange(t))
       /\ WF_vars(ExchangeArrives(t) \/ ExchangeLost(t))
       /\ WF_vars(HandleLogout(t))
       /\ WF_vars(LogoutArrives(t))
       /\ WF_vars(AgainArrives(t))
  /\ \A f \in Flows : WF_vars(FlowExpires(f))

FairSpec == Spec /\ Fairness

-------------------------------------------------------------------------------
(* Correctness. *)

\* The code exchange of a tab misses its flow cookie only when the ten minutes
\* are over or an earlier post of the same code consumed it: the sign-in of one
\* tab never takes the flow of another (cookies named by state, cookies.go).
FlowsApart ==
  [][\A t \in Tabs :
       step[t] = "exchange" /\ reply[t] = "none" /\ reply'[t] = "fail" /\ ~snap[t].hasFlow
         => flow[t] \in ended]_vars

\* A session the provider would still refresh leaves the browser for a reason: it
\* expires, a logout succeeds, the token endpoint fails on a refresh, or another
\* tab's answer replaced the tokens a refused refresh was sent with.  A failed
\* discovery, a refused sign-in or a failed logout never takes it
\* (GetLoginRefresh, PostLogin, PostLogout).
LiveSessionLostForAReason ==
  [][jar.refresh \in usable /\ jar'.refresh = None /\ ~RefreshExpires =>
       \E t \in Tabs :
         \/ step[t] \in {"logout", "again"} /\ reply[t] = "ok" /\ reply'[t] = "none"
         \/ refr[t].at = "failed" /\ refr'[t].at = "idle"
         \/ /\ refr[t].at = "clear" /\ refr'[t].at = "idle"
            /\ refr[t].token \notin {None, jar.refresh}]_vars

\* A page that shows the spinner gets to the application, to the provider or to
\* an error, unless its user reloads it for ever: no answer and no logout leaves
\* it waiting (useOIDCLogin).
LoadSettles ==
  \A t \in Tabs :
    <>[][~Reload(t)]_vars =>
      (isLoading[t] /\ step[t] # "closed"
         ~> ~isLoading[t] \/ step[t] \in {"away", "failed", "closed"})

\* What PostLogout's comment promises (handler.go): a logout that succeeds ended
\* the session at the provider.
LogoutEndsProviderSession ==
  [][\A t \in Tabs :
       step[t] \in {"logout", "again"} /\ reply[t] = "none" /\ reply'[t] = "ok"
         => ~ssoAlive']_vars

\* ... and expires all session cookies: a browser without cookies and without a
\* session at the provider gets none but from a new sign-in.
LogoutExpiresCookies ==
  [][jar = NoGrant /\ jar' # NoGrant => ssoAlive]_vars
===============================================================================
