# OSAC UI: specifications, model checking and proofs

OSAC UI is the web console of a cloud: a React single-page application (`apps/app-frontend`, `libs/ui-components`) and a Go proxy (`proxy`) that signs users in with OIDC, keeps their tokens in cookies and forwards API calls and console WebSockets to the fulfillment service and its console-proxy. Most of the application is forms and lists over one request each. What is hard is where several tabs of one browser share something (a Web Lock, a cookie jar), where an `await` or a callback separates a test from its use, and where one operation is several requests. Where a page acts on an answer that may be old, and where a viewer, a wizard or a cache is overtaken by what it waits for, it is hard in the small as well. That is what these modules model.

## The system and what makes it correct

| Component | State it keeps | Operations | Talks to | Hard behaviour | Correct when |
|---|---|---|---|---|---|
| Console session: `useConsoleSession.ts`, `console-websocket.ts`, `VmConsoleView.tsx`, `consoleticket.go`, `consolews.go` | per tab: connection state, error, session id, lock handle, socket; per browser: Web Lock, ticket cookie | connect, takeOver, viewer error, unmount, Create, handshake, clear | other tabs (lock, cookie), proxy, console-proxy | three awaits per connect, each of which another tab, an unmount or a viewer error may overtake | locks and sockets are given back once, by the attempt that had them; a socket shows the VM it was asked for; tabs do not disturb each other |
| Sign-in session: `oidc-login.tsx`, `App.tsx`, `UnauthorizedErrorState.tsx`, `proxy/auth/handler.go`, `cookies.go` | per tab: login effect, timer, expiry; per browser: session and flow cookies; at the provider: session, refresh tokens | login, callback, refresh, logout, sign in again | provider, other tabs (cookies) | parallel sign-ins, a timer that outlives what set it, refresh token rotation, cookies of different ages | sign-ins do not take each other's flow; a live session is lost for a known reason only; a page never waits for ever; logout ends the session |
| Attach external IP: `external-ip.ts`, `AttachExternalIpModal.tsx` | the mutation's progress; IPs and attachments at the service | create, poll, attach, clean up | fulfillment service | three requests of which any fails or loses its answer, a slow allocation | no IP is forgotten, success means attached |
| Security group rules: `SecurityGroupDetailPage.tsx`, `SecurityGroupRuleModal.tsx`, `networking.ts` | per page: the polled group, a dialog with a rule index, a pending update; the group at the service | add, edit, delete a rule | fulfillment service, other users | an index and a whole list are sent from data a poll may replace | an update does what its user meant; a page edits nothing older than its own last update |
| Issuer discovery: `capabilities.go`, `oidc.go`, `handler.go` `issuerURL` | two caches of documents and their expiry | read, fetch, retry, store | fulfillment service, provider | the fetch is outside the lock: calls that miss together store in any order | no answer is older than the two time limits allow |
| Catalog wizard: `CatalogProvisionWizard.tsx`, `CatalogStep.tsx`, `stepIds.ts`, `VmCreatePage.tsx` | active and visited steps, values, deep link, pending | next, back, jump, choose, create, cancel, leave | fulfillment service, polled lists | a step is validated when it is left and may change later; polls under a filled form; a create with a lost answer | one wizard makes one instance; what was not checked is known; polls do not refill the form |
| Console viewers: `VncConsoleViewer.tsx`, `SerialConsoleViewer.tsx`, `BlobOnlyAttachAddon.ts` | RFB client or terminal, timers, write queue | load, construct, connect, resize, fail, dispose | console session | loading races timers, layout, new sockets and unmounts; frames are converted asynchronously | one live client, the shown one; no start lost; frames in order, none stops the rest |
| Storage forms: `StorageTierCreatePage.tsx`, `StorageBackendCreatePage.tsx`, `LeaveFormConfirmation.tsx` | the form, what it was filled from, the latest poll | fill, type, save with a version, leave | fulfillment service, other administrators | the version of the optimistic lock is the poll's, the fields the form's | what others wrote is reverted only behind a poll |
| Subnets: `SubnetCreateModal.tsx`, `cidr-validation.ts`, `VirtualNetworkDetailPage.tsx` | the polled list, a plan | open, submit, refresh | fulfillment service, other pages | the address checks use a list that may be old | a subnet is inside its network; it overlaps only what its page could not know |
| Project selection: `ProjectFilter.tsx`, `use-session.tsx`, `use-page-filter.ts` | selection in state, storage and URL | choose, toggle, follow a link, prune | polled list of projects, router | effects and filters write the parameters of the last render | a selection reaches the URL |
| Cluster access: `cluster.ts` | password, error, pending | fetch, retry, download | fulfillment service | overlapping requests | not modelled |
| Resource queries: `use-resource.ts`, `api/v1/*` | TanStack Query's cache | list, get, create, update, delete | fulfillment service | cache keys and invalidation | a mutation invalidates every list it changes |
| Proxy bridge, user info, configuration, start-up | none | forward a request, decode a token | everything | none: one request in, one out | |
| Pages, forms, shell, hooks, validation, translations, generated types, charts | form state, URL, preferences | render, one request | queries | little; origin and role rules are pure functions | |

`PROJECT.json` lists every component with its status and, under `hazards`, every place in this code a test would hardly reach, with the property that covers it or the reason why none does.

## Modules

* `ConsoleSession`: the hook of every tab of one browser, the Web Lock and the ticket cookie, the proxy's routes and console-proxy. An element of `Attempts` is one call of `attemptConnect`: its session id, lock handle, ticket and socket in one. `stage[a]` is where that call is suspended, so each `await` of the code is a boundary between actions: `StartAttempt` (up to the lock request), `LockReply` and `LockRejected` (the browser's answer, with the fallback for a browser without the Web Locks API, and a request that is rejected), `LockGranted`, `LockDenied`, `LockSuperseded` (the continuation), `CreateReply`, `CreateRefused` (the proxy's answer, whose `Set-Cookie` takes effect before the continuation), `OpenSocket`, `CreateFailed`, `CreateSuperseded`, then the handshake and the socket's events. `sessionIdRef` only grows, so `isCurrentSession` is `session[t] = a`.
* `ConsoleLease`: what the lock promises, an exclusive, stealable lease with an outcome for each client. `ConsoleSession` implements it under `LeaseStatus`.
* `AuthSession`: the login effect, refresh timer and logout of every tab, the cookie jar, the five handlers and a provider with or without refresh token rotation. A request carries the cookies of the moment it leaves (`Send`, `TimerFires`); after a callback or a logout the effect asks who is signed in a step later (`AskInfo`), with the cookies there are by then; what the handler does at the provider (`Handle*`, `Refresh*`) and what its `Set-Cookie` does in the browser (`*Arrives`) are separate steps, since other tabs act in between. A grant is one token response.
* `ExternalIpAttach`: the mutation of `useAttachExternalIp` for several dialogs and the service. `Serve*` is the service acting, `*Arrives` the dialog seeing the answer, `AnswerLost` the difference between them.
* `SecurityGroupRules`: one security group, its detail pages and their query. `Polls`, `FetchServed`, `FetchArrives`, `FetchFails` are the query; `OpensDialog`, `ClosesDialog`, `ClosesEarly`, `Submits` the user; `Serve`, `Refused`, `AnswerLost` the service and the network; `AnswerArrives` is the invalidation in `onSuccess`, `Settles` the caller that waited for it. `Edited` is the list a dialog makes.
* `ConsoleViewer`: the effect of the graphical viewer for one socket after another. `Show` is the effect with its cleanup, `InitRfb` the start it and the resize observer share, `Loaded` the continuation of the module's import, `Connect` and `Disconnect` the client's events, `InitTimeout` and `ConnectTimeout` the timers. `live` are the RFB clients that were constructed and not disconnected; `rfbRef` is what the effect knows of them.
* `SerialFeed`: the serial viewer and its addon. `Frame` is the message listener appending to `writeQueue`, `Write` and `WriteFails` a link of that promise chain.
* `CatalogWizard`: the wizard's steps as numbers, the last being the review. `good` says which steps' values satisfy their schema; `NextStep` validates the active step and goes on (the validation resolves before the browser handles another click); `Redefined` and `Refill` are what another item does to values and schemas; `Send` to `Reply` is the create request. Kinds of resources differ in the number of steps and in data.
* `StorageEdit`: the edit page of a tier or backend, a record with versions, other writers. `Save` freezes the form and the version of the latest poll; `Accept` is the service with `lock: true`.
* `SubnetPlan`: the blocks of `cidr-validation.ts` as ranges of numbers (`StartAddress`, `EndAddress`, `IsSubnetWithinVN`, `HasOverlap`) and several pages that plan subnets by them.
* `ProjectFilter`: state, storage and location change at once; `Render` shows them to the component, and the effects whose dependencies changed run before the next render (`due`).
* `DiscoveryCache`: concurrent calls over the two caches. `Hit` reads, `Miss` sends outside the lock, `Store` writes; `Retry` is the second attempt of the capabilities request. Time is a number; the clock does not pass the deadline of a call in flight, which is what a context's timeout grants.
* `MCFlows` and `MCStale` check the smaller components: five, and four, that share no state are extended by one module, and a behaviour chooses one of them first and leaves the others as they begin. The state spaces add up and do not multiply, and one type invariant, `FlowTypeOK` or `StaleTypeOK`, joins those of the components. `MCConsoleSession`, `MCAuthSession`, `MCSecurityGroupRules` give constants and symmetry.
* `ConsoleSessionProofs`, `ConsoleLeaseProofs`, `AuthSessionProofs`, `ExternalIpAttachProofs`, `ViewerProofs`, `PageProofs` (subnets, storage forms, security group rules), `FlowProofs` (wizard, project selection, and the composition of `MCFlows`) and `StaleProofs` (discovery, and the composition of `MCStale`): theorems.

A definition headed `(Bug: ...)` in a component's module is a plausible mistake in the definition after it; no specification uses it. Substituted for that definition, it makes TLC report the property `PROJECT.json` pairs it with.

### What the models abstract

* Console: `webLocks` says whether the browser has the Web Locks API; without it every attempt gets a handle and no lock is behind it, which `console-websocket.ts:48` documents. `robbed` is history: the attempts a takeOver stole the lock from. The browser releases a Web Lock in the step that asks for it; a viewer fails only while a socket is rendered; the "ticket" is the attempt whose Create minted it, valid or expired (`HandshakeRefused`); `MaxClears` bounds the clear requests in flight, and one too many is a request that failed, which the code ignores. VNC and serial consoles differ only in the viewer; the client id is the browser's, so any new handshake for a VM evicts the socket it had.
* Sign-in: PKCE values, URLs and the ID token's claims are not told apart; the ID cookie expires with the access cookie; time is what it permits (a timer may fire, a cookie may expire). Grant and flow names are used again once nobody refers to them, so bounded sets stand for unbounded histories. What is remembered of a flow (its code redeemed, its cookie gone) goes with the last tab or cookie that refers to it (`Forget`). A refresh whose answer is lost is either the request that never reached the handler or a page that was replaced. A tab has one logout at a time, from the shell; `loginInProgressRef` keeps out a second effect of the same document (StrictMode's), and the model has one effect per tab, which has ended when the shell is shown.
* External IP: an IP name is used again once the IP is gone and nobody speaks of it. `silenced` is a history variable: IPs whose creator missed an answer, could not delete them, or was closed with its page.
* Security group: a rule is its contents, and a user types one that is in no list. The query's single retry and its background refetches are all `Polls`. `MaxRules` bounds the lists of the model; the code has no limit. Three variables are history: what was applied behind a page (`unseen`) or a dialog (`met`), and pages that closed a dialog early or were told a false failure (`astray`). The properties promise nothing to an astray page, because the code does not: both are hazards.

* Viewers: a socket is shown once; the size of the display area is "some" or "none"; focus, fitting, key strokes and paste change no state of the viewer. Frames are numbered as they arrive.
* Wizard: the values of a step are good or not; `typed` is history: the steps the user typed into since the form was last filled. `MaxCreates` bounds the requests of one wizard. Leaving does not cancel a request.
* Storage: a field of the description's kind, two values; `MaxVersion` and `MaxForms` bound writes and fillings. An answer that is lost is an answer "no" to an update that was made.
* Subnets: addresses are numbers of `Bits` bits, and a block is written with any of its addresses, as the code accepts; a network has one family.
* Discovery: documents are what they say; `lastServed` is history. `MaxTime` bounds the clock.
* Project selection: parameters are sets; one page filter. An empty parameter and an absent one are the same set and differ where the session begins: an empty `?project=` wins over the stored selection, an absent one does not.

## Runs

Deadlock is checked in all of them but `flows` and `stale_reads`, whose wizards, pages and clocks do end.

| Run | Instance | Shows |
|---|---|---|
| `console_safety` | 2 tabs, 1 VM, 3 attempts, tab crashes, lost clears, rejected lock requests, with and without Web Locks | a lock is held by a live attempt or one about to return it; with the API two tabs share a console only if one was robbed of its lock; a failed console keeps nothing; no stray socket; a lock is lost by release or steal only; a viewer error stays; a console fails for its own reasons; the lease is implemented |
| `console_live` | 2 tabs, 1 VM, 2 attempts, the same faults, fair | connecting ends, an evicted tab notices, console-proxy gets back every console that was given up |
| `console_plain_connect` | 2 tabs, 1 VM, 4 attempts | **violated**: a plain connect can evict a connected console |
| `console_ticket_crossing` | 2 tabs, 2 VMs, 2 attempts | **violated**: a socket can show another VM |
| `console_leftover_ticket` | 1 tab, 1 attempt | **violated**: a ticket can survive its console |
| `auth_flows` | 2 tabs, 2 grants, 2 flows, rotation, a token endpoint and a discovery that fail | no sign-in loses its flow cookie to another tab; a live session is lost for a reason |
| `auth_one_tab` | 1 tab, 2 grants, 2 flows, no rotation, every fault, fair | the spinner always gives way |
| `auth_logout` | 1 tab | **violated**: a logout can leave the provider's session alive |
| `auth_late_refresh` | 1 tab | **violated**: a refresh can bring the cookies back after logout |
| `flows` | 2 dialogs, 2 IPs, 2 polls, every fault; 3 sockets; 4 frames; 4 steps, 2 items of which one is linked, 2 creates; 1 project, 1 filter value; fair | no IP is forgotten, success means attached, the clean-up undoes only what its dialog did not see succeed, every mutation ends; only the shown socket has a live client, no start is lost, a connected console ends by a disconnect only, every viewer settles; frames in order, each of them, and the open event noticed; unchecked steps were retouched, one instance for a wizard, no poll starts a filled form over, with the same item or another, a create ends; a selection reaches the URL |
| `stale_reads` | 1 page, 2 updates, 3 rules, lists of up to 2, every fault; 1 field, 2 values, 3 versions, 2 fillings; 2 pages, 2-bit addresses, 2 subnets; 2 calls, 1 key, 2 documents, limits 2 and 1, clock to 5 | an update changes the rules as meant, no dialog on data older than the page's last success; a save reverts others only behind a poll; subnets are inside and overlap only unseen; no answer older than the limits |
| `group_rule_delete` | 2 pages, no faults | **violated**: a delete can remove another rule than the one it was opened on |

### Why these bounds

Interference in the console needs one attempt that is suspended and one that acts meanwhile: two tabs, plus a third attempt for the same tab's second try (an attempt whose predecessor is still in flight) or for a takeOver of a takeOver. The first disagreement needs four: a connect, a takeOver, the takeOver's own connect before it was denied, and a victim. Crossing tickets need two VMs. Sign-ins interfere pairwise; two grants are the one in the jar and the one a response in flight carries, and two flows the one at the provider and the one begun meanwhile. The number of polls matters only as "another one" and "the last one", hence 2 for the code's 20 (`MaxPolls`). A stale index needs a list of two, and a page needs a second update in flight only after it closed a dialog early; the second user matters to the properties only through what they exclude, so that instance has one page, and the two-page instance is the one that is refuted. A viewer needs a socket whose load is late, the one shown, and one after it. Four frames let two fail or wait around two that are written. Four steps are the choice, two that may spoil each other, and the review. A stale save needs a version behind and one ahead of the poll. Two bits hold blocks of one, two and four addresses, inside, equal, adjacent and overlapping. A stale answer needs a slow call, a fast one, and a clock that passes a whole expiry and a timeout after it. The proofs below have no bounds.

### Fairness

Each assumption is one the platform or the code grants. Browsers answer lock requests, run continuations and deliver events; a `fetch` settles, with an answer or an error, and so does a handshake; timers fire. Weak fairness is put on the disjunction of a request's outcomes, never on its success: the service need not allocate, the provider need not sign in. The user owes nothing: no fairness for clicks, closes or reloads. Cookie expiry is fair because it is a clock. `LoadSettles` excludes only a user who reloads for ever. `ViewerFairness` has the two timers fire, but not the module load, the guest's handshake or a layout: `ViewerSettles` holds by the timers. `FeedFairness` has every conversion settle (`arrayBuffer` resolves or rejects), `WizardFairness` every create request, `FilterFairness` the renders and effects React has scheduled. `stale_reads` assumes none.

## Where code and comments disagree

Each is a run that TLC refutes and an entry of `findings`:

1. `useConsoleSession.ts:51` promises that `connect` works "without disturbing another active session". The lock is tested once, before Create. A tab robbed of its lock in between never learns it; its handshake evicts the tab that took over.
2. The same comment promises "the WebSocket for this resource". The ticket is one cookie for the browser; another tab's Create between this tab's Create and handshake replaces it.
3. `useConsoleSession.ts:252` promises to clear the ticket cookie on unmount. The clear may be answered before the Create it races, and the superseded continuation does not clear again.
4. `handler.go:252` promises that logout logs out at the provider. Without the access cookie, which expires long before the refresh cookie, `PostLogout` answers 204 without asking it.
5. The same comment promises that all session cookies expire. A refresh granted before the logout and answered after it sets them again.
6. `SecurityGroupDetailPage.test.tsx:133` says a delete "removes the targeted ingress rule and keeps the rest". The dialog keeps an index; a poll while it is open makes the index name another rule, which is removed.

### What the properties do not promise

Some properties hold because they leave out, by name, what the code has no protection against. No document promises otherwise, so these cases are hazards without a property and no findings:

* A token endpoint that fails once, or a refresh token that another tab's refresh or sign-in replaced meanwhile, clears a live session. `LiveSessionLostForAReason` names both and says there is no third: a failed discovery, a request without the cookie, a refused sign-in or a failed logout takes nothing.
* An attachment whose answer is lost is undone by the clean-up. `OnlyUnseenIsUndone` says that no other is.
* A wizard sends what was made invalid after it was validated. `UncheckedWasRetouched` says that it sends nothing else that no validation passed.
* A user who closes a rule dialog early, or whose update another page's overtook, is promised nothing by `TargetedOnly`.
* A save behind a poll reverts what others wrote, silently. `OnlyPolledIsReverted` says that a save with no poll in between does not.
* A subnet that the page's list lacks may be overlapped. `OverlapsWereUnseen` says that a listed one is not.
* A browser without the Web Locks API keeps no two tabs apart, and a lock that is stolen during a connect is not noticed (the first disagreement above). `LockKeepsTabsApart` is about browsers with the API, and says that two tabs share a console only where one of the two was the victim of such a theft; a takeOver that robbed neither excuses nothing.

## Proofs

All proofs hold for any constants that satisfy the modules' named assumptions: `None` is no tab, VM, attempt, grant or flow, bounds are positive, grants are not reply words.

* `ConsoleTypes`, and from `ConsoleDiscipline` the theorems `LocksHaveLiveHolders`, `FailedConsolesKeepNothing`, `SocketsAreOwned`. None of these is inductive alone. `Discipline` adds what the code relies on without saying: an attempt past its first await has a tab and a VM (`Bookkeeping`); one that is suspended has no socket, and one that is still waiting for its lock is not yet in `lockRef` (`Pending`); a tab's refs point to its current attempt or nowhere, and are empty unless the tab is connecting or connected (`RefsAreLive`); a lock's holder is either in its tab's ref or about to run its continuation (`HolderIsKnown`), and a socket that is connecting or open is in its tab's ref (`SocketIsKnown`). One step of the proof per action.
* `TabsKeptApart`: in a browser with the Web Locks API, of two live attempts of one VM that both have the lock in their refs one was robbed of it. The invariant is `HoldsUnlessRobbed`: whoever was granted the lock still has it, unless a takeOver stole it from that attempt. It rests on four lemmas: an attempt's tab, VM and kind never change (`AttemptRigid`), a robbery is never forgotten and the browser stays the same (`RobbedStays`), an attempt is granted by an answer only (`GrantedBefore`), and only a takeOver takes a lock away from a granted attempt, which is robbed by it (`LockKept`).
* `LocksAreLostForAReason`, the action property under it: one step takes a lock from an attempt to nobody only if it ends that attempt, and to another only by force. `LockLost` follows it through `ReleaseLock`, action by action.
* `ViewerErrorsStay` and `FailuresAreOwn`: which error a console may show. `Verdicts` is what `Discipline` does not say about it: a view that is loading has tried nothing (`LoadingIsIdle`), a viewer error has ended its tab's attempt, so that no later event passes `isCurrentSession` (`ViewerErrorEnds`), and a socket its tab closed belongs to an attempt that is over, so that its close event says nothing (`ClosingIsOver`).
* `LeaseIsExclusive`: in the abstract lease, holder and clients agree, for any clients and resources.
* `ConsoleImplementsLease`: the console refines the lease. `LeaseBar` is the mapping: the lease's status of every attempt, computed from its stage, its liveness and the lock table. `LeaseStep` shows, one case per action, that a step of the console is a step of the lease or a stutter: a request starts (`StartMapped`), the browser answers it by a grant, a theft or a refusal (`ReplyMapped`), an attempt gives up what it holds (`GiveUpMapped`), or attempts leave, of which a tab's end takes several at once (`LeaveMapped`); everything else keeps each status (`StatusKept`, `AsideMapped`, `StutterMapped`). A request that is rejected, or answered without the API, leaves the lease with nothing (`TurnedAwayMapped`). It needs `Discipline`: that an attempt leaves with its lock in the same step is what `HolderIsKnown` says. `ConsoleLeaseIsExclusive` carries the lease's theorem over to the console: no attempt that was denied, robbed or ended has a lock.
* `LiveSessionsLostForAReason`: the action property `LiveSessionLostForAReason`, for any number of tabs, with rotation or without, and with every fault, which is more than the run has. `RefreshKnows` is the invariant: a refresh that was granted brings a token, and one that was refused was sent with a token the provider does not take; the provider never takes it again, because a name of a grant that something still refers to is not handed out again. From it, each step that empties the jar is one of the four the property names.
* `AuthTypes` and `SignInsStayApart`. `FlowsApart` is an action property; the invariant under it says that a flow a tab refers to is in the jar or ended (`FlowKept`), that a code belongs to a flow (`CodeHasFlow`), and that an exchange whose snapshot misses the cookie belongs to an ended flow (`ExchangeKnows`).

* `IpTypes`, `IpsAreNotForgotten`, `SuccessIsTrue`, `UndoneUnseen`. `IpInv` adds to `NothingLeftBehind` what the mutation relies on: what a dialog holds and can be answered at each stage (`Shape`), that no IP is in two hands (`Apart`), that an IP in a hand is attached by its holder only (`Attachments`), and that a clean-up is asked for by the holder only (`Deletions`).
* `ViewerTypes`, `OnlyTheShown`, `StartsAreKept`, `ConnectedIsKept`, `FeedTypes`, `FramesInOrder`. `ViewerInv` adds that nothing was said of a socket that was not used (`UsedBefore`), that an effect with a client has no load in flight (`OneStart`), and that a connected console has no timer (`ConnectedIsUntimed`). `FeedInv` adds that what waits came after what is written.
* `WizardTypes`, `UncheckedRetouched`, `OneInstance`, `PollsKeepTheForm`. `OneRequest`: at most one create is out or answered, the wizard is pending while it is, and instances are counted by what was lost, arrives, or arrived.
* `DiscoveryTypes`, `AnswersRecent`: no call is answered with a document that upstream stopped serving longer ago than `TTL + Timeout`. `DiscoveryInv` says of what is cached when it was served at the latest (`CachedIsRecent`), and of every attempt that it is within its deadline and what it was answered was served during it (`AttemptsAreRecent`). It is what makes the store without a lock, and the slower answer stored last, harmless.
* `PlanTypes`, `SubnetsInside`, `OverlapsUnseen`, for blocks of any size. `BlockBounds`, `WithinContains` and `NoOverlapDisjoint` are the lemmas about the operators: what `IsSubnetWithinVN` accepts is contained as a set of addresses, what `HasOverlap` passes is disjoint. The invariant is that every request and every subnet passed both checks against what its page knew.
* `EditTypes`, `OnlyPolledReverted`. `ReadInOrder`: the form was filled from an older version than the poll, the poll is no newer than the record, and what was not typed is as filled. `SavesAreRead`: a save that names the record's version, from a form filled at that version, sends the record's values where nothing was typed.
* `RuleTypes`, with the lemma that what a dialog makes of a list is a list (`EditedIsList`), and `WritesAreRead`, the action property `ReadYourWrites` for any number of pages and calls. `Writes`: an update of a page that is not astray has the page's dialog waiting for it (`OwnPending`); such a page shows, without an error, data that lacks its own update only until the fetch its answer asks for ends (`StaleIsPending`); an answer on its way lacks it only until the update's answer drops it (`StaleAnswers`).
* `UpdatesHitTheirTarget`: the action property `TargetedOnly`, that an update which no other page's came behind does what its user meant, by rule, although what it sends was made by index. `EditedIsIntended` is the heart of it: in a list without repetitions, replacing or removing at the index of a rule is replacing or removing that rule; `EditedDistinct` keeps lists without repetitions (`ListsDistinct`). The invariant relates three ages of the lists: what a page shows is what the service has unless something was applied behind it (`SeenIsCurrent`); a dialog's index names its rule in the service's lists, and an update in flight is an edit of them, unless something was applied behind the dialog (`Aimed`); and a page that is not astray is never overtaken by itself, because the answer to its update closes the dialog it was made in (`Own`). The last rests on `Writes`.
* `FlowsAreSpecified` and `PartsAreSpecified`: in `MCFlows` and `MCStale` a step of the composition is a step of one component and a stutter of the others, so each component's specification, up to its fairness, holds of the composition and so do its theorems. `FlowTypes` and `StaleTypes` are the type invariants of the two runs, joined from the components' (`ProjectFilterTypes` is one of them).

Every invariant, action property and refinement of the passing runs is a theorem. Only model-checked: liveness under fairness and `ENABLED`, which the prover does not handle (`ConnectingEnds`, `LoserNotices`, `GivenUpIsDisowned`, `LoadSettles`, `MutationEnds`, `ViewerSettles`, `EveryFrameIsShown`, `OpenIsNoticed`, `CreateEnds`, `SelectionReachesUrl`); and the six disagreements, which TLC refutes.

## Plan

Done: the modules, runs and theorems above. Left, in the order of their value:

1. Theorems under the liveness properties: the invariants that say that what is awaited is still possible (a connecting tab has an attempt that some fair step moves, a pending mutation has a request out), which is the safety half of those arguments.
2. `ConsoleViewer` composed with `ConsoleSession` through the error it reports. Each is checked against every behaviour of the other now: the session takes an error at any time a socket is rendered, the viewer any socket.
3. The overlapping requests of `cluster.ts`, once the code says which answer is to be shown.

## Not modelled

Most lines of the repository are not models' business: the types generated from protobuf definitions are more than a third of the code, and most of the rest renders lists, tables and forms of one request each. They are left out, as are wording, styling and routing; the bridge's encodings, TLS, configuration and start-up, which keep no state; validation by regular expressions, role and lifecycle tables and update masks, which a model could only repeat; deployment files. Of the pages, those are modelled whose correctness depends on what they read earlier or on several requests. The hazards of the others are listed without a property, each with the reason. `PROJECT.json` gives the reason component by component.

## Running

    tlc -workers 2 -config ConsoleSafety.cfg MCConsoleSession
    tlapm ConsoleSessionProofs.tla

`ConsoleSafety.cfg`, `ConsoleLive.cfg`, `AuthFlows.cfg`, `Flows.cfg` and `Stale.cfg` take two to three minutes each, all others seconds.
