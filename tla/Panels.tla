------------------------------- MODULE Panels -------------------------------
(***************************************************************************)
(* What a report panel fetches and when: the useEffect of every panel of   *)
(* web/src/panels, with the request api/client.ts builds for it.           *)
(*                                                                         *)
(* A panel renders in the microtask after the task that changed a signal   *)
(* it reads.  The render compares the effect's dependencies with those of  *)
(* the render before and, when one changed, leaves an effect due.  The     *)
(* effect runs after the next paint or at the start of the next render,    *)
(* whichever comes first; it aborts the request of the effect before it    *)
(* and sends the signals' values of that moment, which may be later ones   *)
(* than the render saw.                                                    *)
(***************************************************************************)
EXTENDS DashboardSignals

CONSTANTS NoData

(* What a request may depend on: the site, the window, the filters with    *)
(* their own dates, the row limit, the realtime tick and the dimension and *)
(* goal of a comparison.                                                   *)
Sent == Text \cup Scopes \cup {"site", "from", "to", "urlFrom", "urlTo", "limit", "tick", "pick"}

(* One record per panel: deps are the effect's dependencies, closure what  *)
(* it takes from the render instead of the signals, limits the row limits  *)
(* it starts with and can be raised to, debounced whether a timer delays   *)
(* the request, flagged whether the server may answer 501.                 *)
Plain == [deps |-> {"site", "from", "to"}, closure |-> {}, limits |-> <<0>>,
          debounced |-> FALSE, flagged |-> FALSE]

With(keys) == [Plain EXCEPT !.deps = @ \cup keys]

(* Mutant of OverviewPanel: a dependency is forgotten. *)
OverviewPanelNoPath == With({"device", "channel", "country"})

OverviewPanel == With({"device", "channel", "country", "path"})

TrendChartPanel == [With({"device", "channel", "country", "path"}) EXCEPT !.closure = {"from", "to"}]

SourcesPanel == With({"channel", "device", "country", "path", "sort", "dir"})

PagesPanel ==
    [With({"path", "channel", "device", "country", "sort", "dir", "limit"}) EXCEPT !.limits = <<20, 100>>]

SEOPanel == With({"device", "country", "path"})

CampaignsPanel == With({"channel", "device", "country", "sort", "dir"})

GeoPanel ==
    [With({"country", "sort", "dir", "limit"}) EXCEPT !.limits = <<50, 200>>, !.flagged = TRUE]

RealtimePanel == [Plain EXCEPT !.deps = {"tick", "site", "channel"}]

(* The comparison sends no window of its own: the dates are the filters'. *)
ComparePanel ==
    [Plain EXCEPT !.deps = {"site", "pick", "urlFrom", "urlTo"} \cup Text \cup Scopes,
                  !.debounced = TRUE]

Panel ==
    [overview |-> OverviewPanel, trend |-> TrendChartPanel, sources |-> SourcesPanel,
     pages |-> PagesPanel, seo |-> SEOPanel, campaigns |-> CampaignsPanel,
     geo |-> GeoPanel, realtime |-> RealtimePanel, compare |-> ComparePanel]

---------------------------------------------------------------------------
NoError == ""

(* A mounted panel: the values its last render saw, whether an effect is   *)
(* due or its timer armed, the requests not aborted, the query its data    *)
(* answers and its error.  missed is a ghost: the filters edited since the *)
(* effect last ran or sent its request.                                    *)
Gone == [on |-> "none", seen |-> <<>>, due |-> FALSE, armed |-> FALSE, reqs |-> {},
         data |-> NoData, err |-> NoError, limit |-> 0, pick |-> 0, missed |-> {}]

(* The values in force for panel f (apiGet's parameters). *)
View(s, siteId, tick, f) ==
    [k \in Sent |->
        CASE k = "site"    -> siteId
          [] k = "from"    -> s.range.from
          [] k = "to"      -> s.range.to
          [] k = "urlFrom" -> s.filters["from"]
          [] k = "urlTo"   -> s.filters["to"]
          [] k = "limit"   -> f.limit
          [] k = "tick"    -> tick
          [] k = "pick"    -> f.pick
          [] OTHER         -> s.filters[k]]

Fresh(p, s, siteId, tick) ==
    LET f == [Gone EXCEPT !.on = p, !.due = TRUE, !.limit = Panel[p].limits[1]]
    IN [f EXCEPT !.seen = View(s, siteId, tick, f)]

(* The parameters of the request: what apiGet sends, the panel's own       *)
(* parameters winning over the filters.                                    *)
apiGet(f, v) == [k \in Sent |-> IF k \in Panel[f.on].closure THEN f.seen[k] ELSE v[k]]

(* Mutant of Run: the request of the effect before is not aborted. *)
RunNoAbort(f, v) ==
    IF Panel[f.on].debounced THEN [f EXCEPT !.due = FALSE, !.armed = TRUE, !.missed = {}]
    ELSE [f EXCEPT !.due = FALSE, !.err = NoError, !.reqs = @ \cup {apiGet(f, v)}, !.missed = {}]

Run(f, v) ==
    IF Panel[f.on].debounced
      THEN [f EXCEPT !.due = FALSE, !.armed = TRUE, !.reqs = {}, !.missed = {}]
      ELSE [f EXCEPT !.due = FALSE, !.err = NoError, !.reqs = {apiGet(f, v)}, !.missed = {}]

Render(f, v) ==
    LET edited == {k \in Text \cup Scopes : v[k] # f.seen[k]}
        g == IF f.due THEN Run(f, v) ELSE [f EXCEPT !.missed = @ \cup edited]
    IN [g EXCEPT !.seen = v, !.due = \E k \in Panel[f.on].deps : v[k] # f.seen[k]]

(* The debounce timer of the comparison. *)
Fire(f, v) ==
    [f EXCEPT !.armed = FALSE, !.err = NoError, !.reqs = {apiGet(f, v)}, !.missed = {}]

(* Mutant of Answered: every failure is taken for an abort. *)
AnsweredSilently(f, q, outcome) ==
    IF outcome = "ok" THEN [f EXCEPT !.reqs = @ \ {q}, !.data = q]
    ELSE [f EXCEPT !.reqs = @ \ {q}]

(* An answer is taken when its request was not aborted. *)
Answered(f, q, outcome) ==
    IF outcome = "ok" THEN [f EXCEPT !.reqs = @ \ {q}, !.data = q]
    ELSE [f EXCEPT !.reqs = @ \ {q},
                   !.err = IF outcome = "disabled" THEN "disabled" ELSE "error"]

Settled(f) == ~f.due /\ ~f.armed /\ f.reqs = {}
=============================================================================
