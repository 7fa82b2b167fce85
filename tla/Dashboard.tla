----------------------------- MODULE Dashboard -----------------------------
(***************************************************************************)
(* The dashboard page: sign-in (main.tsx, App.tsx, state/auth.ts, Login),  *)
(* the site switcher and the active site (state/site.ts), the lazily       *)
(* loaded panels (LazyPanel) and the fetching panel on screen (Panels),    *)
(* with the Overview's trend chart, driven by the shared signals.          *)
(*                                                                         *)
(* One action is one browser task and the renders it causes.               *)
(***************************************************************************)
EXTENDS Panels

CONSTANTS
    Tabs,            \* panels the operator visits
    BootTabs,        \* panels the page may open on
    Edits,           \* [key, value]: a filter a control sets
    Windows,         \* windows the date picker sets
    Sites, Disabled, \* sites of the server, the disabled ones
    Bearer,          \* the page carries a bearer token
    BootSites,       \* what sessionStorage may hold: site ids or NoSite
    BootGrants,      \* the grants a session may start with
    Picks,           \* dimensions and goals of a comparison
    Failures,        \* which requests may fail
    MaxEdits, MaxTicks,
    MaxFaults        \* failed requests, changes of grants and logouts

ASSUME DashboardConstants ==
    /\ Tabs \subseteq DOMAIN Panel /\ BootTabs \subseteq Tabs
    /\ Sites \subseteq Nat \ {0} /\ Disabled \subseteq Sites /\ BootSites \subseteq Nat
    /\ BootGrants \subseteq SUBSET Sites
    /\ MaxEdits \in Nat /\ MaxTicks \in Nat /\ MaxFaults \in Nat

NoSite == 0
NoName == ""             \* no chunk is waited for

VARIABLES
    sig,             \* hash, filters, range
    site,            \* id (siteSignal), active, list, stored (sessionStorage)
    auth,            \* checked, user, bearer, form, leaving (logout sent)
    switcher,        \* SiteSwitcher: due, req, err
    lazy,            \* LazyPanel: on, name, due, comp, err, want
    cache, loads,    \* chunks loaded and loading
    main, trend,     \* the fetching panel on screen, the Overview's chart
    clock,           \* tick, hidden: realtimeTickSignal and the tab's visibility
    grants,          \* the sites the server grants the user
    used             \* what the operator and the server did so far

dashVars == <<sig, site, auth, switcher, lazy, cache, loads, main, trend, clock, grants, used>>

authenticated == auth.user \/ auth.bearer
Shell == auth.checked /\ authenticated       \* the AppShell is on screen

NoSwitcher == [on |-> FALSE, due |-> FALSE, req |-> FALSE, err |-> FALSE]
NoLazy == [on |-> FALSE, name |-> NoName, due |-> FALSE, comp |-> "none", err |-> FALSE, want |-> NoName]

(* renderPanel: what the main area shows. *)
renderPanel(shell, panel, lz) ==
    IF ~shell THEN "none" ELSE IF panel = "overview" THEN "overview"
    ELSE IF lz.err THEN "none" ELSE lz.comp

TrendShown(m) == m.on = "overview" /\ m.data # NoData /\ m.err = NoError

---------------------------------------------------------------------------
(* LazyPanel.  One instance serves every panel but the Overview: its       *)
(* effect takes a loaded chunk at once or waits for it, and a change of    *)
(* name cancels the wait.  A failed load leaves an error no later name     *)
(* clears.                                                                 *)
LazyEffect(lz) ==
    IF lz.name \in cache THEN [lz EXCEPT !.due = FALSE, !.comp = lz.name, !.want = NoName]
    ELSE [lz EXCEPT !.due = FALSE, !.want = lz.name]

LazyLoads(lz) == IF lz.due /\ lz.name \notin cache THEN {lz.name} ELSE {}

(* The lazy panel under the primed hash and sign-in. *)
LazyRender ==
    LET panel == sig'.hash.panel
        fresh == [NoLazy EXCEPT !.on = TRUE, !.name = panel, !.due = TRUE,
                                !.comp = IF panel \in cache THEN panel ELSE "none"]
        moved == lazy.on /\ lazy.name # panel
        gone  == ~Shell' \/ panel = "overview"
        ran   == IF lazy.due THEN LazyEffect(lazy) ELSE lazy
    IN /\ lazy' = IF gone THEN NoLazy ELSE IF ~lazy.on THEN fresh
                  ELSE IF moved THEN [ran EXCEPT !.name = panel, !.due = TRUE] ELSE lazy
       /\ loads' = IF ~gone /\ moved THEN loads \cup LazyLoads(lazy) ELSE loads
       /\ UNCHANGED cache

(* The panels under the primed signals, m and t being the panels as the    *)
(* task left them.                                                         *)
Mount(f, p) ==
    IF p = "none" THEN Gone
    ELSE IF f.on # p THEN Fresh(p, sig', site'.id, clock'.tick)
    ELSE Render(f, View(sig', site'.id, clock'.tick, f))

Paint(m, t) ==
    /\ main' = Mount(m, renderPanel(Shell', sig'.hash.panel, lazy'))
    /\ trend' = Mount(t, IF TrendShown(main') THEN "trend" ELSE "none")

(* The AppShell appears or goes with everything in it. *)
AuthRender ==
    /\ switcher' = IF ~Shell' THEN NoSwitcher
                   ELSE IF switcher.on THEN switcher ELSE [NoSwitcher EXCEPT !.on = TRUE, !.due = TRUE]
    /\ LazyRender
    /\ Paint(main, trend)

Signals == <<sig, site, clock>>
Server == <<grants, used>>
Chunks == <<cache, loads>>

Init ==
    \E stored \in BootSites, b \in Bearer, tab \in BootTabs :
        /\ sig = BootSignals([panel |-> tab, params |-> filtersToQuery(EmptyFilters)], 100)
        /\ site = [id |-> IF stored = NoSite THEN 1 ELSE stored,
                   active |-> NoSite, list |-> {}, stored |-> stored]
        /\ auth = [checked |-> FALSE, user |-> FALSE, bearer |-> b, form |-> "idle", leaving |-> FALSE]
        /\ switcher = NoSwitcher /\ lazy = NoLazy /\ cache = {} /\ loads = {}
        /\ main = Gone /\ trend = Gone
        /\ clock = [tick |-> 0, hidden |-> FALSE]
        /\ grants \in BootGrants
        /\ used = [edits |-> 0, faults |-> 0]

---------------------------------------------------------------------------
Fault == used.faults < MaxFaults /\ used' = [used EXCEPT !.faults = @ + 1]

(* Sign-in.  A page with a bearer token skips the round trip of /api/user. *)
Boot ==
    /\ ~auth.checked
    /\ \E ok \in BOOLEAN :
           /\ ok => ~auth.bearer
           /\ auth' = [auth EXCEPT !.checked = TRUE, !.user = ok]
    /\ UNCHANGED <<Signals, Server>>
    /\ AuthRender

(* Submitting twice is refused while the first is under way. *)
LoginSubmit ==
    /\ auth.checked /\ ~authenticated /\ auth.form = "idle"
    /\ auth' = [auth EXCEPT !.form = "posted"]
    /\ UNCHANGED <<sig, site, switcher, lazy, cache, loads, main, trend, clock, grants, used>>

(* The answer to /api/login, then the one to /api/user. *)
LoginAnswer(ok) ==
    /\ auth.form = "posted"
    /\ auth' = IF ok THEN [auth EXCEPT !.form = "profile", !.bearer = FALSE]
               ELSE [auth EXCEPT !.form = "idle"]
    /\ UNCHANGED <<sig, site, switcher, lazy, cache, loads, main, trend, clock, grants, used>>

ProfileAnswer(ok) ==
    /\ auth.form = "profile"
    /\ auth' = [auth EXCEPT !.form = "idle", !.user = ok]
    /\ UNCHANGED <<Signals, Server>>
    /\ AuthRender

(* The page stays usable until the server has answered. *)
Logout ==
    /\ Shell /\ auth.user /\ ~auth.leaving
    /\ auth' = [auth EXCEPT !.leaving = TRUE]
    /\ Fault
    /\ UNCHANGED <<sig, site, switcher, lazy, cache, loads, main, trend, clock, grants>>

LogoutAnswer ==
    /\ auth.leaving
    /\ auth' = [auth EXCEPT !.leaving = FALSE, !.user = FALSE, !.bearer = FALSE]
    /\ UNCHANGED <<Signals, Server>>
    /\ AuthRender

---------------------------------------------------------------------------
(* The operator.  A control writes the signals (UrlState); the page        *)
(* renders in the same task.                                               *)
Operate == Shell /\ used.edits < MaxEdits /\ used' = [used EXCEPT !.edits = @ + 1]

Change(s) ==
    /\ Operate
    /\ sig' = s
    /\ UNCHANGED <<site, auth, switcher, clock, grants>>
    /\ LazyRender
    /\ Paint(main, trend)

Edit(e) == Change(updateFilters(sig, [sig.filters EXCEPT ![e.key] = e.value]))

ChangeWindow(w) == Change(setRange(sig, w))

ClearAll == AnyFilter(sig.filters) /\ Change(clearFilters(sig))

Navigate(panel) == Change(WriteHash(sig, [sig.hash EXCEPT !.panel = panel]))

(* "Show all" under a table, the pickers of the comparison. *)
Own(f) ==
    /\ Operate
    /\ UNCHANGED <<Signals, auth, switcher, lazy, Chunks, grants>>
    /\ Paint(f, trend)

ShowAll ==
    /\ main.on # "none" /\ Len(Panel[main.on].limits) = 2
    /\ main.data # NoData /\ main.err = NoError /\ main.limit < Panel[main.on].limits[2]
    /\ Own([main EXCEPT !.limit = Panel[main.on].limits[2]])

PickComparison(p) == main.on = "compare" /\ p # main.pick /\ Own([main EXCEPT !.pick = p])

(* Mutant of SelectSite: the choice is not persisted. *)
SelectSiteUnsaved(id) ==
    /\ Operate
    /\ switcher.on /\ ~switcher.due /\ ~switcher.req /\ ~switcher.err
    /\ Cardinality(site.list) >= 2 /\ id \in site.list \ Disabled
    /\ site' = [site EXCEPT !.active = id, !.id = id]
    /\ UNCHANGED <<sig, auth, switcher, lazy, Chunks, clock, grants>>
    /\ Paint(main, trend)

(* The site switcher: a menu of two sites or more, the disabled greyed. *)
SelectSite(id) ==
    /\ Operate
    /\ switcher.on /\ ~switcher.due /\ ~switcher.req /\ ~switcher.err
    /\ Cardinality(site.list) >= 2 /\ id \in site.list \ Disabled
    /\ site' = [site EXCEPT !.active = id, !.id = id, !.stored = id]
    /\ UNCHANGED <<sig, auth, switcher, lazy, Chunks, clock, grants>>
    /\ Paint(main, trend)

(* Hovering a tab warms its chunk. *)
prefetchPanel(name) ==
    /\ Operate
    /\ name # "overview" /\ name \notin cache
    /\ loads' = loads \cup {name}
    /\ UNCHANGED <<Signals, auth, switcher, lazy, cache, main, trend, grants>>

---------------------------------------------------------------------------
(* Effects. *)
Effects(m, t) ==
    /\ UNCHANGED <<Signals, auth, switcher, lazy, Chunks, Server>>
    /\ main' = m
    /\ trend' = IF TrendShown(m) /\ t.on = "none" THEN Fresh("trend", sig, site.id, clock.tick) ELSE t

PanelEffect == main.due /\ Effects(Run(main, View(sig, site.id, clock.tick, main)), trend)

TrendEffect == trend.due /\ Effects(main, Run(trend, View(sig, site.id, clock.tick, trend)))

CompareTimer == main.armed /\ Effects(Fire(main, View(sig, site.id, clock.tick, main)), trend)

LazyPanelEffect ==
    /\ lazy.due
    /\ lazy' = LazyEffect(lazy)
    /\ loads' = loads \cup LazyLoads(lazy)
    /\ UNCHANGED <<Signals, auth, switcher, cache, Server>>
    /\ Paint(main, trend)

(* The effect of the switcher runs once per mount. *)
SwitcherEffect ==
    /\ switcher.due
    /\ switcher' = [switcher EXCEPT !.due = FALSE, !.req = TRUE]
    /\ UNCHANGED <<Signals, auth, lazy, Chunks, main, trend, Server>>

---------------------------------------------------------------------------
(* The network. *)

(* Mutant of ChunkLoaded: the wait of an earlier name is not cancelled. *)
ChunkLoadedLate(name) ==
    /\ name \in loads
    /\ loads' = loads \ {name} /\ cache' = cache \cup {name}
    /\ lazy' = IF lazy.on THEN [lazy EXCEPT !.comp = name, !.want = NoName] ELSE lazy
    /\ UNCHANGED <<Signals, auth, switcher, Server>>
    /\ Paint(main, trend)

ChunkLoaded(name) ==
    /\ name \in loads
    /\ loads' = loads \ {name} /\ cache' = cache \cup {name}
    /\ lazy' = IF lazy.want = name THEN [lazy EXCEPT !.comp = name, !.want = NoName] ELSE lazy
    /\ UNCHANGED <<Signals, auth, switcher, Server>>
    /\ Paint(main, trend)

ChunkFailed(name) ==
    /\ "chunk" \in Failures /\ Fault
    /\ name \in loads
    /\ loads' = loads \ {name}
    /\ lazy' = IF lazy.want = name THEN [lazy EXCEPT !.err = TRUE, !.want = NoName] ELSE lazy
    /\ UNCHANGED <<Signals, auth, switcher, cache, grants>>
    /\ Paint(main, trend)

(* The answer to /api/sites: the persisted site when it is listed, else    *)
(* the first enabled one, else the first.                                  *)
First(ids) == CHOOSE id \in ids : \A other \in ids : id <= other

ChosenSite(list) ==
    IF list = {} THEN NoSite
    ELSE IF site.stored \in list THEN site.stored
    ELSE IF list \ Disabled # {} THEN First(list \ Disabled) ELSE First(list)

SwitcherAnswer ==
    /\ switcher.req
    /\ switcher' = [switcher EXCEPT !.req = FALSE]
    /\ site' = [site EXCEPT !.list = grants, !.active = ChosenSite(grants),
                            !.id = IF grants = {} THEN @ ELSE ChosenSite(grants)]
    /\ UNCHANGED <<sig, auth, lazy, Chunks, clock, Server>>
    /\ Paint(main, trend)

SwitcherFails ==
    /\ "sites" \in Failures /\ Fault
    /\ switcher.req
    /\ switcher' = [switcher EXCEPT !.req = FALSE, !.err = TRUE]
    /\ UNCHANGED <<Signals, auth, lazy, Chunks, main, trend, grants>>

(* A refused site drops the selection: signals and sessionStorage. *)
clearStaleActiveSite(st) == [st EXCEPT !.active = NoSite, !.list = {}, !.stored = NoSite]

(* What the server may answer to query q of panel p. *)
Outcomes(p, q) ==
    (IF q["site"] \notin grants THEN {"forbidden"}
     ELSE {"ok"} \cup (IF Panel[p].flagged THEN {"disabled"} \cap Failures ELSE {}))
      \cup ({"error"} \cap Failures)

PanelAnswer ==
    \E q \in main.reqs : \E outcome \in Outcomes(main.on, q) :
        /\ site' = IF outcome = "forbidden" THEN clearStaleActiveSite(site) ELSE site
        /\ IF outcome \in {"error", "disabled"} THEN Fault ELSE UNCHANGED used
        /\ UNCHANGED <<sig, auth, switcher, lazy, Chunks, clock, grants>>
        /\ Paint(Answered(main, q, outcome), trend)

TrendAnswer ==
    \E q \in trend.reqs : \E outcome \in Outcomes("trend", q) :
        /\ site' = IF outcome = "forbidden" THEN clearStaleActiveSite(site) ELSE site
        /\ IF outcome \in {"error", "disabled"} THEN Fault ELSE UNCHANGED used
        /\ UNCHANGED <<sig, auth, switcher, lazy, Chunks, clock, grants>>
        /\ Paint(main, Answered(trend, q, outcome))

(* An admin grants or revokes a site. *)
ChangeGrant(id) ==
    /\ Fault
    /\ grants' = IF id \in grants THEN grants \ {id} ELSE grants \cup {id}
    /\ UNCHANGED <<Signals, auth, switcher, lazy, Chunks, main, trend>>

---------------------------------------------------------------------------
(* The realtime clock ticks while the tab is visible, and at once when it  *)
(* becomes visible again.                                                  *)
Clock(c) ==
    /\ clock' = c
    /\ UNCHANGED <<sig, site, auth, switcher, lazy, Chunks, Server>>
    /\ Paint(main, trend)

Tick == ~clock.hidden /\ clock.tick < MaxTicks /\ Clock([clock EXCEPT !.tick = @ + 1])

Hide == ~clock.hidden /\ clock.tick < MaxTicks /\ Clock([clock EXCEPT !.hidden = TRUE])

Unhide == clock.hidden /\ Clock([tick |-> clock.tick + 1, hidden |-> FALSE])

---------------------------------------------------------------------------
Answers ==
    \/ PanelAnswer \/ TrendAnswer \/ SwitcherAnswer
    \/ \E name \in loads : ChunkLoaded(name)

Runs == PanelEffect \/ TrendEffect \/ CompareTimer \/ LazyPanelEffect \/ SwitcherEffect

Next ==
    \/ Boot \/ LoginSubmit \/ Logout \/ LogoutAnswer
    \/ \E ok \in BOOLEAN : LoginAnswer(ok) \/ ProfileAnswer(ok)
    \/ \E e \in Edits : Edit(e)
    \/ \E w \in Windows : ChangeWindow(w)
    \/ ClearAll
    \/ \E panel \in Tabs : Navigate(panel) \/ prefetchPanel(panel)
    \/ ShowAll
    \/ \E p \in Picks : PickComparison(p)
    \/ \E id \in Sites : SelectSite(id) \/ ChangeGrant(id)
    \/ Runs \/ Answers
    \/ \E name \in loads : ChunkFailed(name)
    \/ SwitcherFails
    \/ Tick \/ Hide \/ Unhide

Spec == Init /\ [][Next]_dashVars

(* The browser runs effects and timers, the server or the fetch's own      *)
(* failure answers every request.                                          *)
FairSpec == Spec /\ WF_dashVars(Runs) /\ WF_dashVars(Answers)

---------------------------------------------------------------------------
(* Properties. *)

(* What stands on screen above a panel's numbers and is sent with its      *)
(* request: the site and every filter, the panel's dates, and the sort,    *)
(* limit, tick and pick of the panels that have them.                      *)
Narrowing == {"site", "device", "channel", "country", "path"} \cup Scopes

Selection(p) ==
    CASE p \in {"overview", "trend", "seo"}  -> Narrowing \cup {"from", "to"}
      [] p \in {"sources", "campaigns"}      -> Narrowing \cup {"from", "to", "sort", "dir"}
      [] p \in {"pages", "geo"}              -> Narrowing \cup {"from", "to", "sort", "dir", "limit"}
      [] p = "realtime"                      -> Narrowing \cup {"tick"}
      [] p = "compare"                       -> Narrowing \cup {"urlFrom", "urlTo", "pick"}

(* The filters an edit of which does not make the panel ask again.  They   *)
(* are on screen (the property filters in SegmentCaption's line above the  *)
(* numbers) and every request carries them, so this is a defect of the     *)
(* page, stated here panel by panel.                                       *)
Overlooked(p) ==
    CASE p \in {"overview", "trend", "sources", "pages"} -> Scopes
      [] p = "seo"       -> Scopes \cup {"channel"}
      [] p = "campaigns" -> Scopes \cup {"path"}
      [] p = "geo"       -> Scopes \cup {"channel", "device", "path"}
      [] p = "realtime"  -> Scopes \cup {"device", "country", "path"}
      [] p = "compare"   -> {}

(* When a panel has nothing due, armed or in flight and shows no error,    *)
(* its numbers answer a request for the selection on screen, whatever      *)
(* overtook what: answers, renders and effects run late (the useEffect,    *)
(* its dependencies and the AbortController of a panel).  The one          *)
(* exception is a filter the panel overlooks that was edited after its     *)
(* last request was sent: until something else makes the panel ask again,  *)
(* the numbers stand under a selection they are not the numbers of.        *)
SettledData ==
    \A f \in {main, trend} :
        f.on # "none" /\ Settled(f) /\ f.err = NoError /\ f.data # NoData
          => LET shown == View(sig, site.id, clock.tick, f)
             IN \A k \in Selection(f.on) :
                    f.data[k] = shown[k] \/ k \in Overlooked(f.on) \cap f.missed

(* A lazy panel that has nothing due and waits for no chunk shows the tab  *)
(* that is selected, although chunks arrive in any order, for tabs left    *)
(* meanwhile too, and prefetched ones as well (LazyPanel's cancelled flag  *)
(* and cache).                                                             *)
TabIsShown ==
    lazy.on /\ ~lazy.due /\ ~lazy.err /\ lazy.want = NoName => lazy.comp = lazy.name

(* A reload with the same grants opens the site that is active: what the   *)
(* switcher would choose from its list and sessionStorage is what it shows *)
(* (SiteSwitcher's effect and onChange, clearStaleActiveSite), and         *)
(* requests go to that site.                                               *)
ReloadKeepsSite ==
    site.active # NoSite => /\ ChosenSite(site.list) = site.active
                            /\ site.id = site.active

(* A panel that is shown comes to show numbers or an error: no order of    *)
(* edits, aborted requests and late effects leaves it loading for ever.    *)
PanelSettles ==
    []<>(main.on = "none" \/ main.data # NoData \/ main.err # NoError)
=============================================================================
