-------------------------- MODULE SecurityGroupRules --------------------------
(***************************************************************************)
(* The rules of one security group, edited on the detail pages of several  *)
(* users or tabs.  A page polls the group; its dialogs name a rule by its  *)
(* index and send back the whole group as the page knows it at the click.  *)
(*                                                                         *)
(* The query cache behaves as the pages use it: a poll that fails keeps    *)
(* the data and shows the error instead of the rules; an invalidation      *)
(* drops the fetch in flight, starts another and is awaited.               *)
(*                                                                         *)
(* History kept for the properties: the rule a dialog was opened on, the   *)
(* pages whose updates were applied since a page's data was read (unseen)  *)
(* or since a dialog was opened (met), and the pages whose user no longer  *)
(* knows what became of an update (astray).                                *)
(***************************************************************************)
EXTENDS Naturals, Sequences, SequencesExt, Functions

CONSTANTS
  Pages,
  Dirs,       \* "ingress" and "egress"
  Rules,      \* rules as their contents tell them apart
  Updates,    \* update calls in flight at one time
  None,
  MaxRules,   \* bound on the rules of one direction
  Faults      \* of "refused", "lost", "fetchFails", "closesEarly"

ASSUME RuleNamesAssumption == None \notin Pages \cup Rules \cup Updates \cup Dirs
ASSUME MaxRulesAssumption == MaxRules \in Nat \ {0}
ASSUME RuleFaultsAssumption ==
  Faults \subseteq {"refused", "lost", "fetchFails", "closesEarly"}

VARIABLES
  rules,      \* the service's lists, per direction
  cache,      \* per page: the lists it shows
  failing,    \* per page: the last fetch failed
  fetch,      \* per page: its fetch, and the update that asked for it
  dialog,     \* per page: the open dialog
  pending,    \* per page: the update its dialog waits for
  update,     \* per update call: where it is, and what it sends
  unseen,     \* per page: pages with an applied update its cache does not show
  astray      \* pages that closed a dialog early or were told a false failure

pageVars == <<cache, failing, fetch, dialog, pending, unseen>>
vars == <<rules, pageVars, update, astray>>

Lists == [Dirs -> UNION {[1..n -> Rules] : n \in 0..MaxRules}]
NoLists == [d \in Dirs |-> <<>>]

\* met: the pages whose updates were applied behind the dialog.
Dialogs ==
  [kind : {"none", "add", "edit", "delete"}, dir : Dirs \cup {None}, index : 0..MaxRules,
   target : Rules \cup {None}, met : SUBSET Pages]
NoDialog == [kind |-> "none", dir |-> None, index |-> 0, target |-> None, met |-> {}]

IdleFetch == [at |-> "idle", by |-> None, lists |-> NoLists, missing |-> {}]
AskedBy(u) == [IdleFetch EXCEPT !.at = "asked", !.by = u]

NoUpdate == [at |-> "unused", page |-> None, lists |-> NoLists, rule |-> None,
             of |-> NoDialog]

TypeOK ==
  /\ rules \in Lists
  /\ cache \in [Pages -> Lists]
  /\ failing \in [Pages -> BOOLEAN]
  /\ fetch \in [Pages -> [at : {"idle", "asked", "answered"}, by : Updates \cup {None},
                          lists : Lists, missing : SUBSET Pages]]
  /\ dialog \in [Pages -> Dialogs]
  /\ pending \in [Pages -> Updates \cup {None}]
  /\ update \in [Updates -> [at : {"unused", "sent", "applied", "settling"},
                             page : Pages \cup {None}, lists : Lists,
                             rule : Rules \cup {None}, of : Dialogs]]
  /\ unseen \in [Pages -> SUBSET Pages]
  /\ astray \subseteq Pages

\* Every page has just loaded the same group.
Init ==
  /\ rules \in {l \in Lists : \A d \in Dirs : IsInjective(l[d])}
  /\ cache = [p \in Pages |-> rules]
  /\ failing = [p \in Pages |-> FALSE]
  /\ fetch = [p \in Pages |-> IdleFetch]
  /\ dialog = [p \in Pages |-> NoDialog]
  /\ pending = [p \in Pages |-> None]
  /\ update = [u \in Updates |-> NoUpdate]
  /\ unseen = [p \in Pages |-> {}]
  /\ astray = {}

-------------------------------------------------------------------------------
(* The query of a page. *)

Polls(p) ==
  /\ fetch[p].at = "idle"
  /\ fetch' = [fetch EXCEPT ![p] = AskedBy(None)]
  /\ UNCHANGED <<rules, cache, failing, dialog, pending, update, unseen, astray>>

FetchServed(p) ==
  /\ fetch[p].at = "asked"
  /\ fetch' = [fetch EXCEPT ![p].at = "answered", ![p].lists = rules]
  /\ UNCHANGED <<rules, cache, failing, dialog, pending, update, unseen, astray>>

FetchArrives(p) ==
  /\ fetch[p].at = "answered"
  /\ cache' = [cache EXCEPT ![p] = fetch[p].lists]
  /\ unseen' = [unseen EXCEPT ![p] = fetch[p].missing]
  /\ failing' = [failing EXCEPT ![p] = FALSE]
  /\ fetch' = [fetch EXCEPT ![p] = IdleFetch]
  /\ UNCHANGED <<rules, dialog, pending, update, astray>>

FetchFails(p) ==
  /\ "fetchFails" \in Faults /\ fetch[p].at = "asked"
  /\ failing' = [failing EXCEPT ![p] = TRUE]
  /\ fetch' = [fetch EXCEPT ![p] = IdleFetch]
  /\ UNCHANGED <<rules, cache, dialog, pending, update, unseen, astray>>

-------------------------------------------------------------------------------
(* The dialogs. *)

\* (Bug: the page keeps showing rules when their query fails.)
OpensDialogOnError(p, k, d, i) ==
  /\ dialog[p] = NoDialog
  /\ IF k = "add" THEN i = 0 ELSE i \in 1..Len(cache[p][d])
  /\ dialog' = [dialog EXCEPT ![p] =
       [kind |-> k, dir |-> d, index |-> i,
        target |-> IF k = "add" THEN None ELSE cache[p][d][i], met |-> unseen[p]]]
  /\ UNCHANGED <<rules, cache, failing, fetch, pending, update, unseen, astray>>

\* "Add rule", or "Edit" and "Delete" of a row: none is there while the page
\* shows a query error.
OpensDialog(p, k, d, i) ==
  /\ dialog[p] = NoDialog /\ ~failing[p]
  /\ IF k = "add" THEN i = 0 ELSE i \in 1..Len(cache[p][d])
  /\ dialog' = [dialog EXCEPT ![p] =
       [kind |-> k, dir |-> d, index |-> i,
        target |-> IF k = "add" THEN None ELSE cache[p][d][i], met |-> unseen[p]]]
  /\ UNCHANGED <<rules, cache, failing, fetch, pending, update, unseen, astray>>

\* Cancel is disabled while the update is pending; the rule modal's own close
\* button and the Escape key are not.
ClosesDialog(p) ==
  /\ dialog[p] # NoDialog /\ pending[p] = None
  /\ dialog' = [dialog EXCEPT ![p] = NoDialog]
  /\ UNCHANGED <<rules, cache, failing, fetch, pending, update, unseen, astray>>

ClosesEarly(p) ==
  /\ "closesEarly" \in Faults
  /\ pending[p] # None /\ dialog[p].kind \in {"add", "edit"}
  /\ dialog' = [dialog EXCEPT ![p] = NoDialog]
  /\ pending' = [pending EXCEPT ![p] = None]
  /\ astray' = astray \cup {p}
  /\ UNCHANGED <<rules, cache, failing, fetch, update, unseen>>

\* (Bug: the JavaScript operator "delete" in place of splice.)
EditedWithHole(s, g, r) ==
  CASE g.kind = "add" -> Append(s, r)
    [] g.kind = "edit" -> IF g.index <= Len(s) THEN ReplaceAt(s, g.index, r)
                                               ELSE Append(s, r)
    [] OTHER -> IF g.index <= Len(s) THEN ReplaceAt(s, g.index, None) ELSE s

\* The list a dialog makes of s, the list the page shows at the click.
Edited(s, g, r) ==
  CASE g.kind = "add" -> Append(s, r)
    [] g.kind = "edit" -> IF g.index <= Len(s) THEN ReplaceAt(s, g.index, r)
                                               ELSE Append(s, r)
    [] OTHER -> IF g.index <= Len(s) THEN RemoveAt(s, g.index) ELSE s

\* A rule in no list, as the user of an add or edit dialog types it.
Unused(r) ==
  \A l \in {rules} \cup {cache[p] : p \in Pages} \cup {fetch[p].lists : p \in Pages}
             \cup {update[u].lists : u \in Updates} :
    \A d \in Dirs : r \notin Range(l[d])

\* An index beyond the end of a list that shrank leaves a hole: nothing is sent.
Submits(p, u, r) ==
  /\ dialog[p] # NoDialog /\ pending[p] = None /\ update[u] = NoUpdate
  /\ IF dialog[p].kind = "delete" THEN r = None ELSE r \in Rules /\ Unused(r)
  /\ LET g == dialog[p]  new == Edited(cache[p][g.dir], g, r) IN
       /\ g.kind = "edit" => g.index <= Len(cache[p][g.dir]) + 1
       /\ Len(new) <= MaxRules
       /\ update' = [update EXCEPT ![u] =
            [at |-> "sent", page |-> p, lists |-> [cache[p] EXCEPT ![g.dir] = new],
             rule |-> r, of |-> g]]
  /\ pending' = [pending EXCEPT ![p] = u]
  /\ UNCHANGED <<rules, cache, failing, fetch, dialog, unseen, astray>>

-------------------------------------------------------------------------------
(* The updates. *)

\* The service replaces the group: no page and no answer on its way shows it yet.
Apply(u) ==
  LET Behind(s) == s \cup {update[u].page} IN
  /\ update[u].at = "sent"
  /\ rules' = update[u].lists
  /\ unseen' = [q \in Pages |-> Behind(unseen[q])]
  /\ fetch' = [q \in Pages |-> IF fetch[q].at = "answered"
                               THEN [fetch[q] EXCEPT !.missing = Behind(@)] ELSE fetch[q]]
  /\ dialog' = [q \in Pages |-> IF dialog[q] = NoDialog THEN NoDialog
                                ELSE [dialog[q] EXCEPT !.met = Behind(@)]]
  /\ UNCHANGED <<cache, failing>>

\* The others that are on their way will be applied behind this one.
Overtaken(u) ==
  [v \in Updates |-> IF v # u /\ update[v].at = "sent"
                     THEN [update[v] EXCEPT !.of.met = @ \cup {update[u].page}]
                     ELSE update[v]]

Serve(u) ==
  /\ Apply(u)
  /\ update' = [Overtaken(u) EXCEPT ![u] =
       [NoUpdate EXCEPT !.at = "applied", !.page = update[u].page,
                        !.of.kind = update[u].of.kind]]
  /\ UNCHANGED <<pending, astray>>

\* The dialog, if it is still there, shows an error and can be used again.
Released(u) == [p \in Pages |-> IF pending[p] = u THEN None ELSE pending[p]]

Refused(u) ==
  /\ "refused" \in Faults /\ update[u].at = "sent"
  /\ pending' = Released(u)
  /\ update' = [update EXCEPT ![u] = NoUpdate]
  /\ UNCHANGED <<rules, cache, failing, fetch, dialog, unseen, astray>>

\* The service acted, but the page sees an error.
AnswerLost(u) ==
  /\ "lost" \in Faults /\ Apply(u)
  /\ pending' = Released(u)
  /\ update' = [Overtaken(u) EXCEPT ![u] = NoUpdate]
  /\ astray' = astray \cup {update[u].page}

\* (Bug: the invalidation joins the fetch in flight.)
AnswerArrivesJoins(u) ==
  LET p == update[u].page IN
  /\ update[u].at = "applied"
  /\ update' = [update EXCEPT ![u].at = "settling"]
  /\ fetch' = [fetch EXCEPT ![p] = IF @.at = "idle" THEN AskedBy(u) ELSE [@ EXCEPT !.by = u]]
  /\ UNCHANGED <<rules, cache, failing, dialog, pending, unseen, astray>>

\* onSuccess of useUpdateSecurityGroup: invalidate, and await the fetch.
AnswerArrives(u) ==
  /\ update[u].at = "applied"
  /\ update' = [update EXCEPT ![u].at = "settling"]
  /\ fetch' = [fetch EXCEPT ![update[u].page] = AskedBy(u)]
  /\ UNCHANGED <<rules, cache, failing, dialog, pending, unseen, astray>>

\* The fetch ended, one way or the other, or gave way to a later one: the caller
\* goes on and closes the dialog of its kind, whichever that is by now.
Settles(u) ==
  /\ update[u].at = "settling" /\ fetch[update[u].page].by # u
  /\ LET p == update[u].page
         mine == (update[u].of.kind = "delete") <=> (dialog[p].kind = "delete") IN
       /\ dialog' = IF mine THEN [dialog EXCEPT ![p] = NoDialog] ELSE dialog
       /\ pending' = IF mine THEN [pending EXCEPT ![p] = None] ELSE pending
  /\ update' = [update EXCEPT ![u] = NoUpdate]
  /\ UNCHANGED <<rules, cache, failing, fetch, unseen, astray>>

Next ==
  \/ \E p \in Pages :
       \/ Polls(p) \/ FetchServed(p) \/ FetchArrives(p) \/ FetchFails(p)
       \/ (\E d \in Dirs : OpensDialog(p, "add", d, 0))
       \/ (\E k \in {"edit", "delete"}, d \in Dirs, i \in 1..MaxRules :
             OpensDialog(p, k, d, i))
       \/ ClosesDialog(p) \/ ClosesEarly(p)
       \/ (\E u \in Updates, r \in Rules \cup {None} : Submits(p, u, r))
  \/ \E u \in Updates :
       Serve(u) \/ Refused(u) \/ AnswerLost(u) \/ AnswerArrives(u) \/ Settles(u)

Spec == Init /\ [][Next]_vars

-------------------------------------------------------------------------------
(* Correctness. *)

\* What the user of a dialog means to make of the lists l, with the rule r.
Intended(l, g, r) ==
  [l EXCEPT ![g.dir] =
     CASE g.kind = "add" -> Append(@, r)
       [] g.kind = "edit" -> ReplaceAll(@, g.target, r)
       [] OTHER -> RemoveFirst(@, g.target)]

Applies(u) == update[u].at = "sent" /\ update'[u].at = "applied"

\* An update does to the service's lists what its user meant and no more
\* (SecurityGroupRuleModal handleSubmit, securityGroupWithoutRule), unless another
\* page changed them behind the dialog or this page went astray: neither a poll nor
\* a failed fetch nor an earlier update of this page makes an index or a list stale.
TargetedOnly ==
  [][\A u \in Updates :
       LET p == update[u].page IN
       Applies(u) /\ p \notin astray /\ update[u].of.met \subseteq {p}
         => rules' = Intended(rules, update[u].of, update[u].rule)]_vars

\* A page never offers a dialog on data that lacks an update it was told has
\* succeeded, whatever happened to the fetch after it
\* (invalidateSecurityGroupsQueries, ListPageBody).
ReadYourWrites ==
  [][\A p \in Pages \ astray :
       dialog[p] = NoDialog /\ dialog'[p] # NoDialog => p \notin unseen[p]]_vars

\* A delete "removes the targeted ingress rule and keeps the rest"
\* (SecurityGroupDetailPage.test.tsx): what it sends is the list the page shows,
\* without the rule its dialog was opened on.
DeleteRemovesItsRule ==
  [][\A p \in Pages, u \in Updates :
       pending[p] = None /\ pending'[p] = u /\ dialog[p].kind = "delete"
         => update'[u].lists = Intended(cache[p], dialog[p], None)]_vars
===============================================================================
