----------------------------- MODULE ProjectFilter -----------------------------
(***************************************************************************)
(* The project selection of the application's frame: it is kept in the     *)
(* session's state, in localStorage and in the URL.  The URL is written by *)
(* an effect, and by the page filters, from the parameters of the last     *)
(* render; router and state are updated first and rendered later.          *)
(***************************************************************************)
CONSTANTS
  Projects,
  Filters  \* the values of one page filter

VARIABLES
  selected,  \* the session's projects
  saved,     \* what localStorage holds for the user
  url,       \* the router's location: its project and filter parameters
  list,      \* the query of all projects: its stage and what it knows
  view,      \* what was last rendered of all these
  filterRef, \* the page filter's latest value
  due        \* what is scheduled: the last render's effects "url" and "prune",
             \* another "render"

filterVars == <<selected, saved, url, list, view, filterRef, due>>

Urls == [project : SUBSET Projects, filter : SUBSET Filters]
ProjectLists == [stage : {"loading", "loaded", "failed"}, known : SUBSET Projects]

Effects == {"url", "prune"}

ProjectFilterTypeOK ==
  /\ selected \subseteq Projects /\ saved \subseteq Projects
  /\ url \in Urls /\ list \in ProjectLists
  /\ view \in [selected : SUBSET Projects, url : Urls, list : ProjectLists]
  /\ filterRef \subseteq Filters
  /\ due \subseteq Effects \cup {"render"}

NothingListed == [stage |-> "loading", known |-> {}]

\* The parameter wins over what was saved, an empty one (?project=) too.
ProjectFilterInit ==
  /\ saved \in SUBSET Projects
  /\ url \in [project : SUBSET Projects, filter : {{}}]
  /\ selected \in {url.project} \cup (IF url.project = {} THEN {saved} ELSE {})
  /\ list = NothingListed
  /\ view = [selected |-> selected, url |-> url, list |-> list]
  /\ filterRef = {} /\ due = Effects

\* Whatever changes state, location or query has the component rendered again.
Rerender == due' = due \cup {"render"}

\* setProjects
SetProjects(s) == selected' = s /\ saved' = s

\* The menu toggles a project of the list, or selects all by selecting none.
Choose ==
  /\ \/ \E p \in view.list.known : SetProjects((view.selected \cup {p}) \ (view.selected \cap {p}))
     \/ SetProjects({})
  /\ Rerender /\ UNCHANGED <<url, list, view, filterRef>>

\* useArrayPageFilter: consecutive toggles compose, on the parameters last rendered.
ToggleFilter(f) ==
  /\ filterRef' = (filterRef \cup {f}) \ (filterRef \cap {f})
  /\ url' = [view.url EXCEPT !.filter = filterRef']
  /\ Rerender /\ UNCHANGED <<selected, saved, list, view>>

\* A link to another page, without parameters; the history's entries have been
\* replaced and may have any.
Navigate(u) ==
  /\ u # url /\ url' = u
  /\ Rerender /\ UNCHANGED <<selected, saved, list, view, filterRef>>

\* The query's retries are over, a poll brings another list.
ListEnds(l) ==
  /\ l \in ProjectLists /\ l.stage # "loading" /\ (l.stage = "failed" => l.known = list.known)
  /\ list' = l
  /\ Rerender /\ UNCHANGED <<selected, saved, url, view, filterRef>>

Knows(v) == v.selected \subseteq v.list.known
Loading(v) == v.list.stage = "loading"

Current == [selected |-> selected, url |-> url, list |-> list]

\* (Bug: the URL is written when the URL changes only.)
RenderUrlOnly ==
  /\ due = {"render"}
  /\ view' = Current
  /\ filterRef' = url.filter
  /\ due' = {e \in Effects :
       IF e = "url" THEN view.url # url
       ELSE Knows(view) # Knows(Current) \/ Loading(view) # Loading(Current)}
  /\ UNCHANGED <<selected, saved, url, list>>

\* React runs the effects of one render before it renders again; an effect is due
\* when its dependencies changed.
Render ==
  /\ due = {"render"}
  /\ view' = Current
  /\ filterRef' = url.filter
  /\ due' = {e \in Effects :
       IF e = "url" THEN view.selected # selected \/ view.url # url
       ELSE Knows(view) # Knows(Current) \/ Loading(view) # Loading(Current)}
  /\ UNCHANGED <<selected, saved, url, list>>

\* The first effect.
WriteUrl ==
  /\ "url" \in due /\ due' = (due \ {"url"}) \cup {"render"}
  /\ url' = [view.url EXCEPT !.project = view.selected]
  /\ UNCHANGED <<selected, saved, list, view, filterRef>>

\* The second: once the query has ended, with a list or without, what it does not
\* know is taken out of the selection.
Prune ==
  /\ "prune" \in due /\ "url" \notin due
  /\ due' = (due \ {"prune"}) \cup {"render"}
  /\ IF ~Loading(view) /\ ~Knows(view)
     THEN SetProjects(view.selected \cap view.list.known)
     ELSE UNCHANGED <<selected, saved>>
  /\ UNCHANGED <<url, list, view, filterRef>>

ProjectFilterNext ==
  \/ Choose \/ (\E f \in Filters : ToggleFilter(f)) \/ (\E u \in Urls : Navigate(u))
  \/ (\E l \in ProjectLists : ListEnds(l)) \/ Render \/ WriteUrl \/ Prune

ProjectFilterSpec == ProjectFilterInit /\ [][ProjectFilterNext]_filterVars

\* React runs what is scheduled.
FilterFairness ==
  WF_filterVars(Render) /\ WF_filterVars(WriteUrl) /\ WF_filterVars(Prune)

-------------------------------------------------------------------------------
\* The effect that keeps the URL is the only way a selection gets there, among links
\* and page filters that write the parameters they last saw: every new selection
\* reaches the URL, unless it is changed first.
SelectionReachesUrl ==
  \A s \in SUBSET Projects :
    (selected = s /\ view.selected # s) ~> (url.project = s \/ selected # s)
===============================================================================
