----------------------------- MODULE LiveViews -----------------------------
(***************************************************************************)
(* The two pages that poll: the log viewer (logs.svelte), whose search box *)
(* restarts the poll, and the statistics (stats.svelte), whose first       *)
(* answer draws the chart.  A page that was left still gets its answers.   *)
(* The loads that mounting the log viewer starts at once are one here.     *)
(***************************************************************************)
EXTENDS Naturals, Console

CONSTANT Searches   \* texts of the search box; the empty one is Null

VARIABLES
  view,      \* the page that is open, "other" for one that does not poll
  search,    \* the text in the search box
  rendered,  \* logsToRender: the search its entries answer, "none" before the first
  polling,   \* is the timer that interval names running?
  chart,     \* has the open statistics page its chart?
  charts,    \* charts that were drawn and not destroyed
  vnet,      \* requests in flight: those of a page that was left are of "other"
  hasty      \* history: "search": the box changed while an answer was out, or one was
             \* lost; "leave": the statistics were left before their first answer

viewVars == <<view, search, rendered, polling, chart, charts, vnet, hasty>>

Texts == Searches \cup {Null}
NoVRequest == [phase |-> "idle", of |-> "other", search |-> Null]

ViewTypeOK ==
  /\ view \in {"logs", "stats", "other"}
  /\ search \in Texts /\ rendered \in Texts \cup {"none"}
  /\ polling \in BOOLEAN /\ chart \in BOOLEAN
  /\ charts \in Nat
  /\ vnet \in [Slots -> [phase : {"idle", "asked", "answered"}, of : {"logs", "stats", "early", "other"},
                         search : Texts]]
  /\ hasty \subseteq {"search", "leave"}

ViewInit ==
  /\ view = "other" /\ search = Null /\ rendered = "none"
  /\ polling = FALSE
  /\ chart = FALSE /\ charts = 0
  /\ vnet = [s \in Slots |-> NoVRequest]
  /\ hasty = {}

VQuiet == \A s \in Slots : vnet[s] = NoVRequest
MayHurry == hasty = {} \/ Beyond = "yes"

\* Mutation: the search is not sent.
AskAll(v, text, s) ==
  /\ vnet[s] = NoVRequest
  /\ vnet' = [vnet EXCEPT ![s] = [phase |-> "asked", of |-> v, search |-> Null]]

\* loadAPIData with queryParams, updateChartData: the request.
Ask(v, text, s) ==
  /\ vnet[s] = NoVRequest
  /\ vnet' = [vnet EXCEPT ![s] = [phase |-> "asked", of |-> v, search |-> text]]

\* startInterval clears the timer interval names, if any, and sets a new one.
StartInterval == polling' = TRUE

-----------------------------------------------------------------------------
\* The script of logs.svelte with its reactive statement, and onMount.
OpenLogs(s) ==
  /\ MayHurry /\ view = "other"
  /\ view' = "logs" /\ search' = Null /\ rendered' = "none"
  /\ Ask("logs", Null, s) /\ StartInterval
  /\ UNCHANGED <<chart, charts, hasty>>

\* onMount of stats.svelte.
OpenStats(s) ==
  /\ MayHurry /\ view = "other"
  /\ view' = "stats" /\ chart' = FALSE
  /\ Ask("stats", Null, s) /\ StartInterval
  /\ UNCHANGED <<search, rendered, charts, hasty>>

\* The text changes: the reactive statement.  clearSearch also draws the entries it has.
Search(text, s) ==
  /\ MayHurry /\ view = "logs" /\ text # search
  /\ search' = text
  /\ Ask("logs", text, s) /\ StartInterval
  /\ hasty' = IF VQuiet THEN hasty ELSE hasty \cup {"search"}
  /\ UNCHANGED <<view, rendered, chart, charts>>

\* The timer.
Poll(s) ==
  /\ polling /\ view # "other" /\ Ask(view, search, s)
  /\ UNCHANGED <<view, search, rendered, polling, chart, charts, hasty>>

\* Mutation: a chart that was never drawn is counted as destroyed.
LeaveViewBlindly ==
  /\ view # "other"
  /\ view' = "other" /\ polling' = FALSE /\ search' = Null
  /\ charts' = charts - 1 /\ chart' = FALSE
  /\ UNCHANGED <<rendered, vnet, hasty>>

\* onDestroy of either page; with no chart to destroy it throws, the timer cleared.
LeaveView ==
  /\ view # "other"
  /\ view' = "other" /\ polling' = FALSE /\ search' = Null
  /\ charts' = IF view = "stats" /\ chart THEN charts - 1 ELSE charts
  /\ chart' = FALSE
  /\ vnet' = [s \in Slots |-> IF vnet[s] = NoVRequest THEN NoVRequest
                              ELSE [vnet[s] EXCEPT !.of = IF view = "stats" /\ ~chart THEN "early" ELSE "other"]]
  /\ hasty' = IF view = "stats" /\ ~chart THEN hasty \cup {"leave"} ELSE hasty
  /\ UNCHANGED rendered

\* ApiLogsGET, ApiLogsSearchGET and the statistics.
ServeView(s) ==
  /\ vnet[s].phase = "asked"
  /\ vnet' = [vnet EXCEPT ![s].phase = "answered"]
  /\ UNCHANGED <<view, search, rendered, polling, chart, charts, hasty>>

\* Mutation: every answer draws a chart.
RenderAnew(s) ==
  /\ vnet[s].phase = "answered"
  /\ vnet' = [vnet EXCEPT ![s] = NoVRequest]
  /\ rendered' = IF vnet[s].of = "logs" THEN vnet[s].search ELSE rendered
  /\ chart' = (chart \/ vnet[s].of = "stats")
  /\ charts' = IF vnet[s].of \in {"stats", "early"} THEN charts + 1 ELSE charts
  /\ UNCHANGED <<view, search, polling, hasty>>

\* The answer: entries are rendered; a chart is drawn if there is none, or given its
\* data.  A page left early draws one where nobody sees it.
Render(s) ==
  /\ vnet[s].phase = "answered"
  /\ vnet' = [vnet EXCEPT ![s] = NoVRequest]
  /\ rendered' = IF vnet[s].of = "logs" THEN vnet[s].search ELSE rendered
  /\ chart' = (chart \/ vnet[s].of = "stats")
  /\ charts' = IF vnet[s].of = "early" \/ (vnet[s].of = "stats" /\ ~chart) THEN charts + 1 ELSE charts
  /\ UNCHANGED <<view, search, polling, hasty>>

ViewFails(s) ==
  /\ vnet[s].phase # "idle"
  /\ vnet' = [vnet EXCEPT ![s] = NoVRequest]
  /\ hasty' = hasty \cup {"search"}
  /\ UNCHANGED <<view, search, rendered, polling, chart, charts>>

ViewNext ==
  \/ \E s \in Slots :
       \/ OpenLogs(s) \/ OpenStats(s) \/ Poll(s) \/ ServeView(s) \/ Render(s) \/ ViewFails(s)
       \/ \E text \in Texts : Search(text, s)
  \/ LeaveView

ViewSpec == ViewInit /\ [][ViewNext]_viewVars

-----------------------------------------------------------------------------
(* Properties.                                                             *)

\* With every answer in, the rows are those of the text in the box, unless it changed
\* while an answer was out.
RowsOfSearch == view = "logs" /\ VQuiet /\ "search" \notin hasty => rendered = search

\* The statistics have one chart however many answers are out, and leave none behind,
\* unless they were left before the first answer.
OneChart == "leave" \notin hasty => charts = IF view = "stats" /\ chart THEN 1 ELSE 0
=============================================================================
