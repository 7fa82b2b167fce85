---------------------------- MODULE DashboardProofs ----------------------------
(***************************************************************************)
(* Proofs about the dashboard page: a settled panel shows the numbers of   *)
(* the selection on screen but for the filters it overlooks, the lazily    *)
(* loaded panel is the selected tab, and a reload opens the active site.   *)
(*                                                                         *)
(* The argument about a panel is one about renders. Every task that        *)
(* changes a signal renders both panels, so the values a panel last        *)
(* rendered with are always those in force (Seen). Against these values a  *)
(* panel keeps two promises (Current): with no effect due, every request   *)
(* still in flight asks for them, and with nothing due, armed or in flight *)
(* and no error, its data answers them. To ask for them is to agree on the *)
(* effect's dependencies and on every filter that was not edited since     *)
(* (AskedFor). SelectionDeps shows that the dependencies are the selection *)
(* on screen without the filters listed as overlooked, and nothing else is *)
(* listed: a dependency missing in one more panel would break the proof.   *)
(*                                                                         *)
(* The lazy panel's promise (LazyOK) is that with no effect due it waits   *)
(* for the chunk of its own name, shows it, or has failed.                 *)
(***************************************************************************)
EXTENDS Dashboard, TLAPS

(* The dependencies of every panel's effect are values in force. *)
LEMMA DepsSent == \A p \in DOMAIN Panel : Panel[p].deps \subseteq Sent
<1>1. SUFFICES ASSUME NEW p \in DOMAIN Panel PROVE Panel[p].deps \subseteq Sent
    OBVIOUS
<1>2. /\ OverviewPanel.deps \subseteq Sent /\ TrendChartPanel.deps \subseteq Sent
      /\ SourcesPanel.deps \subseteq Sent /\ PagesPanel.deps \subseteq Sent
      /\ SEOPanel.deps \subseteq Sent /\ CampaignsPanel.deps \subseteq Sent
      /\ GeoPanel.deps \subseteq Sent /\ RealtimePanel.deps \subseteq Sent
      /\ ComparePanel.deps \subseteq Sent
    BY DEF OverviewPanel, TrendChartPanel, SourcesPanel, PagesPanel, SEOPanel, CampaignsPanel,
           GeoPanel, RealtimePanel, ComparePanel, With, Plain, Sent, Text, Scopes
<1> QED
    BY <1>2 DEF Panel

(* What a panel overlooks is exactly what is on screen above its numbers   *)
(* without being a dependency of its effect, and only filters are.         *)
LEMMA SelectionDeps ==
    \A p \in DOMAIN Panel : /\ Overlooked(p) = Selection(p) \ Panel[p].deps
                            /\ Overlooked(p) \subseteq Text \cup Scopes
<1> DEFINE Split(shown, deps, rest) == rest = shown \ deps /\ rest \subseteq Text \cup Scopes
<1>1. Split(Narrowing \cup {"from", "to"}, OverviewPanel.deps, Scopes)
    BY DEF Narrowing, OverviewPanel, With, Plain, Text, Scopes
<1>2. Split(Narrowing \cup {"from", "to"}, TrendChartPanel.deps, Scopes)
    BY DEF Narrowing, TrendChartPanel, With, Plain, Text, Scopes
<1>3. Split(Narrowing \cup {"from", "to", "sort", "dir"}, SourcesPanel.deps, Scopes)
    BY DEF Narrowing, SourcesPanel, With, Plain, Text, Scopes
<1>4. Split(Narrowing \cup {"from", "to", "sort", "dir", "limit"}, PagesPanel.deps, Scopes)
    BY DEF Narrowing, PagesPanel, With, Plain, Text, Scopes
<1>5. Split(Narrowing \cup {"from", "to"}, SEOPanel.deps, Scopes \cup {"channel"})
    BY DEF Narrowing, SEOPanel, With, Plain, Text, Scopes
<1>6. Split(Narrowing \cup {"from", "to", "sort", "dir"}, CampaignsPanel.deps, Scopes \cup {"path"})
    BY DEF Narrowing, CampaignsPanel, With, Plain, Text, Scopes
<1>7. Split(Narrowing \cup {"from", "to", "sort", "dir", "limit"}, GeoPanel.deps,
            Scopes \cup {"channel", "device", "path"})
    BY DEF Narrowing, GeoPanel, With, Plain, Text, Scopes
<1>8. Split(Narrowing \cup {"tick"}, RealtimePanel.deps, Scopes \cup {"device", "country", "path"})
    BY DEF Narrowing, RealtimePanel, Plain, Text, Scopes
<1>9. Split(Narrowing \cup {"urlFrom", "urlTo", "pick"}, ComparePanel.deps, {})
    BY DEF Narrowing, ComparePanel, Plain, Text, Scopes
<1>10. SUFFICES ASSUME NEW p \in DOMAIN Panel
                PROVE  Split(Selection(p), Panel[p].deps, Overlooked(p))
    OBVIOUS
<1> HIDE DEF Split
<1> QED
    BY <1>1, <1>2, <1>3, <1>4, <1>5, <1>6, <1>7, <1>8, <1>9 DEF Panel, Selection, Overlooked

(* The fields of a mounted panel. *)
PanelFields == {"on", "seen", "due", "armed", "reqs", "data", "err", "limit", "pick", "missed"}

(* Request x of panel p asks for the values w: it agrees on the effect's   *)
(* dependencies, and on every filter but the edited ones.                  *)
AskedFor(p, w, edited, x) ==
    /\ \A k \in Panel[p].deps : x[k] = w[k]
    /\ \A k \in Text \cup Scopes : x[k] = w[k] \/ k \in edited

(* x asks for the values f last rendered with. *)
Matches(f, x) == AskedFor(f.on, f.seen, f.missed, x)

(* What a panel promises between tasks; one that is off has nothing under  *)
(* way.                                                                    *)
Current(f) ==
    /\ DOMAIN f = PanelFields
    /\ f.on = "none" => ~f.due /\ ~f.armed /\ f.reqs = {}
    /\ f.on # "none" =>
         /\ f.on \in DOMAIN Panel
         /\ ~f.due => \A q \in f.reqs : Matches(f, q)
         /\ Settled(f) /\ f.err = NoError /\ f.data # NoData => Matches(f, f.data)

(* The panel's own part of the values in force is unchanged. *)
SameView(f, g) == g.on = f.on /\ g.limit = f.limit /\ g.pick = f.pick

(* A panel takes no filter from its closure. *)
LEMMA ClosureDates ==
    \A p \in DOMAIN Panel : Panel[p].closure \cap (Text \cup Scopes) = {}
<1>1. /\ OverviewPanel.closure = {} /\ SourcesPanel.closure = {} /\ PagesPanel.closure = {}
      /\ SEOPanel.closure = {} /\ CampaignsPanel.closure = {} /\ GeoPanel.closure = {}
      /\ RealtimePanel.closure = {} /\ ComparePanel.closure = {}
    BY DEF OverviewPanel, SourcesPanel, PagesPanel, SEOPanel, CampaignsPanel, GeoPanel,
           RealtimePanel, ComparePanel, With, Plain
<1>2. TrendChartPanel.closure \cap (Text \cup Scopes) = {}
    BY DEF TrendChartPanel, With, Plain, Text, Scopes
<1> QED
    BY <1>1, <1>2 DEF Panel

(* A request sent when the dependencies are those of the last render asks  *)
(* for the values of the moment, whether it takes one from the signals or  *)
(* from the closure.                                                       *)
LEMMA RequestMatches ==
    ASSUME NEW f, f.on \in DOMAIN Panel, NEW v,
           \A k \in Panel[f.on].deps : v[k] = f.seen[k]
    PROVE  AskedFor(f.on, v, {}, apiGet(f, v))
<1>1. \A k \in Panel[f.on].deps : k \in Sent
    BY DepsSent
<1>2. \A k \in Text \cup Scopes : k \in Sent /\ k \notin Panel[f.on].closure
    BY ClosureDates DEF Sent
<1> QED
    BY <1>1, <1>2 DEF AskedFor, apiGet

(* An effect sends one request, or arms the timer, and aborts what was in  *)
(* flight.                                                                 *)
LEMMA RunFacts ==
    ASSUME NEW f, DOMAIN f = PanelFields, NEW v
    PROVE  LET g == Run(f, v)
           IN /\ DOMAIN g = PanelFields /\ SameView(f, g)
              /\ g.seen = f.seen /\ g.data = f.data /\ ~g.due /\ g.missed = {}
              /\ (g.armed /\ g.reqs = {}) \/ (g.reqs = {apiGet(f, v)} /\ g.err = NoError)
<1>1. PICK q : q = apiGet(f, v)
    OBVIOUS
<1>2. CASE Panel[f.on].debounced
    BY <1>2 DEF Run, PanelFields, SameView
<1>3. CASE ~Panel[f.on].debounced
    <2>1. Run(f, v) = [f EXCEPT !.due = FALSE, !.err = NoError, !.reqs = {q}, !.missed = {}]
        BY <1>1, <1>3 DEF Run
    <2> QED
        BY <1>1, <2>1 DEF PanelFields, SameView
<1> QED
    BY <1>2, <1>3

(* An effect that runs after the paint keeps the promises. *)
LEMMA RunCurrent ==
    ASSUME NEW f, Current(f), f.on # "none"
    PROVE  LET g == Run(f, f.seen) IN Current(g) /\ SameView(f, g) /\ g.seen = f.seen
<1>1. PICK g : g = Run(f, f.seen)
    OBVIOUS
<1>2. /\ DOMAIN g = PanelFields /\ SameView(f, g) /\ g.seen = f.seen /\ g.missed = {}
      /\ (g.armed /\ g.reqs = {}) \/ g.reqs = {apiGet(f, f.seen)}
    BY <1>1, RunFacts DEF Current
<1>3. f.on \in DOMAIN Panel /\ AskedFor(f.on, f.seen, {}, apiGet(f, f.seen))
    BY RequestMatches DEF Current
<1>4. Current(g)
    BY <1>2, <1>3 DEF Current, Settled, SameView, Matches
<1> QED
    BY <1>1, <1>2, <1>4

(* A render that changes no dependency adds the filters it finds changed   *)
(* to the edited ones.                                                     *)
LEMMA EditedSince ==
    ASSUME NEW p, NEW w, NEW v, NEW m, NEW x, AskedFor(p, w, m, x),
           \A k \in Panel[p].deps : v[k] = w[k]
    PROVE  AskedFor(p, v, m \cup {k \in Text \cup Scopes : v[k] # w[k]}, x)
BY DEF AskedFor

(* So does a render with any values, which runs the due effect first. *)
LEMMA RenderCurrent ==
    ASSUME NEW f, Current(f), f.on # "none", NEW v
    PROVE  LET g == Render(f, v) IN Current(g) /\ SameView(f, g) /\ g.seen = v
<1>0. PICK m : m = f.missed \cup {k \in Text \cup Scopes : v[k] # f.seen[k]}
    OBVIOUS
<1>1. PICK r : r = IF f.due THEN Run(f, v) ELSE [f EXCEPT !.missed = m]
    OBVIOUS
<1>2. PICK due : due = \E k \in Panel[f.on].deps : v[k] # f.seen[k]
    OBVIOUS
<1>3. PICK g : g = [r EXCEPT !.seen = v, !.due = due]
    OBVIOUS
<1>4. g = Render(f, v)
    BY <1>0, <1>1, <1>2, <1>3 DEF Render
<1>5. DOMAIN f = PanelFields /\ f.on \in DOMAIN Panel
    BY DEF Current
<1>r. ~f.due => /\ DOMAIN r = PanelFields /\ SameView(f, r) /\ r.missed = m /\ r.due = f.due
                /\ r.armed = f.armed /\ r.reqs = f.reqs /\ r.data = f.data /\ r.err = f.err
    BY <1>1, <1>5 DEF PanelFields, SameView
<1>6. DOMAIN r = PanelFields /\ SameView(f, r)
    BY <1>1, <1>5, <1>r, RunFacts
<1>7. /\ DOMAIN g = PanelFields /\ SameView(f, g) /\ g.seen = v /\ g.due = due /\ g.missed = r.missed
      /\ g.armed = r.armed /\ g.reqs = r.reqs /\ g.data = r.data /\ g.err = r.err
    BY <1>3, <1>6 DEF PanelFields, SameView
<1>8. Current(g)
    <2>1. CASE due
        BY <1>5, <1>7, <2>1 DEF Current, Settled, SameView
    <2>2. CASE ~due
        <3>1. \A k \in Panel[f.on].deps : v[k] = f.seen[k]
            BY <1>2, <2>2
        <3>2. \A x : Matches(g, x) <=> AskedFor(f.on, v, r.missed, x)
            BY <1>7 DEF Matches, SameView
        <3>3. CASE f.due
            <4>1. r.missed = {} /\ ((r.armed /\ r.reqs = {}) \/ r.reqs = {apiGet(f, v)})
                BY <1>1, <1>5, <3>3, RunFacts
            <4>2. AskedFor(f.on, v, {}, apiGet(f, v))
                BY <1>5, <3>1, RequestMatches
            <4> QED
                BY <1>5, <1>7, <3>2, <4>1, <4>2 DEF Current, Settled, SameView
        <3>4. CASE ~f.due
            <4>1. \A x : Matches(f, x) => Matches(g, x)
                BY <1>0, <1>r, <3>1, <3>2, <3>4, EditedSince DEF Matches
            <4> QED
                BY <1>5, <1>7, <1>r, <3>4, <4>1 DEF Current, Settled, SameView
        <3> QED
            BY <3>3, <3>4
    <2> QED
        BY <2>1, <2>2
<1> QED
    BY <1>4, <1>7, <1>8

(* So does the debounce timer of the comparison. *)
LEMMA FireCurrent ==
    ASSUME NEW f, Current(f), f.on # "none"
    PROVE  LET g == Fire(f, f.seen) IN Current(g) /\ SameView(f, g) /\ g.seen = f.seen
<1>1. PICK q : q = apiGet(f, f.seen)
    OBVIOUS
<1>2. PICK g : g = [f EXCEPT !.armed = FALSE, !.err = NoError, !.reqs = {q}, !.missed = {}]
    OBVIOUS
<1>3. g = Fire(f, f.seen)
    BY <1>1, <1>2 DEF Fire
<1>4. f.on \in DOMAIN Panel /\ AskedFor(f.on, f.seen, {}, q)
    BY <1>1, RequestMatches DEF Current
<1>5. /\ DOMAIN g = PanelFields /\ SameView(f, g) /\ g.seen = f.seen /\ g.reqs = {q}
      /\ g.due = f.due /\ g.missed = {}
    BY <1>2 DEF Current, PanelFields, SameView
<1>6. Current(g)
    BY <1>4, <1>5 DEF Current, Settled, SameView, Matches
<1> QED
    BY <1>3, <1>5, <1>6

(* An error on screen is an error. *)
LEMMA ErrorIsError == "error" # NoError /\ "disabled" # NoError
BY Zenon DEF NoError

(* So does an answer, whichever request it belongs to and whatever it      *)
(* says.                                                                   *)
LEMMA AnsweredCurrent ==
    ASSUME NEW f, Current(f), f.on # "none", NEW q \in f.reqs, NEW outcome
    PROVE  LET g == Answered(f, q, outcome) IN Current(g) /\ SameView(f, g) /\ g.seen = f.seen
<1>1. PICK g : g = Answered(f, q, outcome)
    OBVIOUS
<1>2. f.on \in DOMAIN Panel /\ DOMAIN f = PanelFields
    BY DEF Current
<1>3. CASE outcome = "ok"
    <2>1. g = [f EXCEPT !.reqs = f.reqs \ {q}, !.data = q]
        BY <1>1, <1>3 DEF Answered
    <2>2. /\ DOMAIN g = PanelFields /\ SameView(f, g) /\ g.seen = f.seen /\ g.due = f.due
          /\ g.reqs = f.reqs \ {q} /\ g.data = q /\ g.missed = f.missed
        BY <1>2, <2>1 DEF PanelFields, SameView
    <2>3. Current(g)
        BY <1>2, <2>2 DEF Current, Settled, SameView, Matches
    <2> QED
        BY <1>1, <2>2, <2>3
<1>4. CASE outcome # "ok"
    <2>1. PICK e : e = IF outcome = "disabled" THEN "disabled" ELSE "error"
        OBVIOUS
    <2>2. e # NoError
        BY <2>1, ErrorIsError
    <2>3. g = [f EXCEPT !.reqs = f.reqs \ {q}, !.err = e]
        BY <1>1, <1>4, <2>1 DEF Answered
    <2>4. /\ DOMAIN g = PanelFields /\ SameView(f, g) /\ g.seen = f.seen /\ g.due = f.due
          /\ g.reqs = f.reqs \ {q} /\ g.err = e /\ g.missed = f.missed
        BY <1>2, <2>3 DEF PanelFields, SameView
    <2>5. Current(g)
        BY <1>2, <2>2, <2>4 DEF Current, Settled, SameView, Matches
    <2> QED
        BY <1>1, <2>4, <2>5
<1> QED
    BY <1>3, <1>4

(* A panel that is off promises nothing. *)
LEMMA GoneCurrent == Current(Gone) /\ Gone.on = "none"
BY DEF Current, Gone, PanelFields

(* The values in force depend on the panel by its limit and its pick only. *)
LEMMA SameViewView ==
    ASSUME NEW f, NEW g, SameView(f, g), NEW s, NEW id, NEW tick
    PROVE  View(s, id, tick, g) = View(s, id, tick, f)
BY DEF View, SameView

(* A panel that mounts has its effect due. *)
LEMMA FreshCurrent ==
    ASSUME NEW p \in DOMAIN Panel, p # "none", NEW s, NEW id, NEW tick
    PROVE  LET g == Fresh(p, s, id, tick)
           IN Current(g) /\ g.on = p /\ g.seen = View(s, id, tick, g)
<1>1. PICK f : f = [Gone EXCEPT !.on = p, !.due = TRUE, !.limit = Panel[p].limits[1]]
    OBVIOUS
<1>2. PICK v : v = View(s, id, tick, f)
    OBVIOUS
<1>3. PICK g : g = [f EXCEPT !.seen = v]
    OBVIOUS
<1>4. g = Fresh(p, s, id, tick)
    BY <1>1, <1>2, <1>3 DEF Fresh
<1>5. DOMAIN f = PanelFields /\ f.on = p /\ f.due
    BY <1>1 DEF Gone, PanelFields
<1>6. DOMAIN g = PanelFields /\ g.on = p /\ g.due /\ SameView(f, g) /\ g.seen = v
    BY <1>3, <1>5 DEF PanelFields, SameView
<1>7. Current(g)
    BY <1>6 DEF Current, Settled
<1>8. g.seen = View(s, id, tick, g)
    BY <1>2, <1>6, SameViewView
<1> QED
    BY <1>4, <1>6, <1>7, <1>8

(* The panel f was last rendered with the values in force. *)
Seen(f, s, id, tick) == f.on # "none" => f.seen = View(s, id, tick, f)

(* A panel that keeps its promises about the values in force. *)
Shows(f, s, id, tick) == Current(f) /\ Seen(f, s, id, tick)

(* Rendering, mounting or unmounting a panel brings it in step with the    *)
(* signals.                                                                *)
LEMMA MountShows ==
    ASSUME NEW f, Current(f), NEW p, p = "none" \/ (p \in DOMAIN Panel /\ p # "none")
    PROVE  Shows(Mount(f, p), sig', site'.id, clock'.tick)
<1>1. PICK s : s = sig'
    OBVIOUS
<1>2. PICK id : id = site'.id
    OBVIOUS
<1>3. PICK tick : tick = clock'.tick
    OBVIOUS
<1>4. PICK g : g = Mount(f, p)
    OBVIOUS
<1>5. CASE p = "none"
    BY <1>4, <1>5, GoneCurrent DEF Mount, Shows, Seen
<1>6. CASE p # "none" /\ f.on # p
    <2>1. g = Fresh(p, s, id, tick)
        BY <1>1, <1>2, <1>3, <1>4, <1>6 DEF Mount
    <2>2. Current(g) /\ g.seen = View(s, id, tick, g)
        BY <1>6, <2>1, FreshCurrent
    <2> QED
        BY <1>1, <1>2, <1>3, <1>4, <2>2 DEF Shows, Seen
<1>7. CASE p # "none" /\ f.on = p
    <2>1. PICK v : v = View(s, id, tick, f)
        OBVIOUS
    <2>2. g = Render(f, v)
        BY <1>1, <1>2, <1>3, <1>4, <1>7, <2>1 DEF Mount
    <2>3. Current(g) /\ SameView(f, g) /\ g.seen = v
        BY <1>7, <2>2, RenderCurrent
    <2>4. g.seen = View(s, id, tick, g)
        BY <2>1, <2>3, SameViewView
    <2> QED
        BY <1>1, <1>2, <1>3, <1>4, <2>3, <2>4 DEF Shows, Seen
<1> QED
    BY <1>5, <1>6, <1>7

(* The fields of the lazy panel. *)
LazyFields == {"on", "name", "due", "comp", "err", "want"}

(* What the lazy panel promises: with no effect due it waits for its own   *)
(* chunk, shows it or has failed; off, it waits for nothing.               *)
LazyOK(lz) ==
    /\ DOMAIN lz = LazyFields
    /\ ~lz.on => lz = NoLazy
    /\ lz.on => /\ lz.name \in DOMAIN Panel
                /\ ~lz.due => lz.want = lz.name \/ lz.err \/ (lz.want = NoName /\ lz.comp = lz.name)
    /\ lz.comp = "none" \/ lz.comp \in DOMAIN Panel

(* The hash names a panel that can be rendered. *)
SigOK(s) == DOMAIN s = {"hash", "filters", "range"} /\ s.hash.panel \in DOMAIN Panel
                /\ s.hash = [panel |-> s.hash.panel, params |-> s.hash.params]

(* The inductive invariant. *)
DashInv ==
    /\ SigOK(sig)
    /\ LazyOK(lazy) /\ cache \subseteq DOMAIN Panel /\ loads \subseteq DOMAIN Panel
    /\ Shows(main, sig, site.id, clock.tick)
    /\ Shows(trend, sig, site.id, clock.tick)

(* The marks of an absent name are no panel's name. *)
LEMMA NamesNamed == NoName \notin DOMAIN Panel /\ "none" \notin DOMAIN Panel
<1>1. DOMAIN Panel = {"overview", "trend", "sources", "pages", "seo", "campaigns",
                      "geo", "realtime", "compare"}
    BY DEF Panel
<1>2. "none" \notin DOMAIN Panel
    BY <1>1
<1>3. NoName \notin DOMAIN Panel
    BY <1>1, Zenon DEF NoName
<1> QED
    BY <1>2, <1>3

(* The Overview and its chart are panels. *)
LEMMA PanelDomain ==
    /\ "overview" \in DOMAIN Panel /\ "trend" \in DOMAIN Panel /\ "none" \notin DOMAIN Panel
BY DEF Panel

(* A paint brings both panels in step with the primed signals. *)
LEMMA PaintShows ==
    ASSUME SigOK(sig)', LazyOK(lazy)', NEW m, NEW t, Current(m), Current(t), Paint(m, t)
    PROVE  /\ Shows(main, sig, site.id, clock.tick)'
           /\ Shows(trend, sig, site.id, clock.tick)'
<1>1. PICK p : p = renderPanel(Shell', sig'.hash.panel, lazy')
    OBVIOUS
<1>2. p = "none" \/ (p \in DOMAIN Panel /\ p # "none")
    <2>1. p \in {"none", "overview", lazy'.comp}
        BY <1>1 DEF renderPanel
    <2> QED
        BY <2>1, PanelDomain DEF LazyOK
<1>3. main' = Mount(m, p)
    BY <1>1 DEF Paint
<1>4. PICK q : q = IF TrendShown(main') THEN "trend" ELSE "none"
    OBVIOUS
<1>5. q = "none" \/ (q \in DOMAIN Panel /\ q # "none")
    BY <1>4, PanelDomain
<1>6. trend' = Mount(t, q)
    BY <1>4 DEF Paint
<1> QED
    BY <1>2, <1>3, <1>5, <1>6, MountShows, SMTT(30) DEF Shows, Seen, Current, Settled, Matches

(* A task that ends with a paint keeps the invariant when it keeps the     *)
(* rest of it.                                                             *)
LEMMA PaintStep ==
    ASSUME SigOK(sig)', LazyOK(lazy)', cache' \subseteq DOMAIN Panel, loads' \subseteq DOMAIN Panel,
           NEW m, NEW t, Current(m), Current(t), Paint(m, t)
    PROVE  DashInv'
BY PaintShows DEF DashInv

(* The effect of the lazy panel takes the loaded chunk or waits for it. *)
LEMMA LazyEffectOK ==
    ASSUME DashInv, lazy.on
    PROVE  /\ LazyOK(LazyEffect(lazy))
           /\ LazyEffect(lazy).on
           /\ LazyLoads(lazy) \subseteq DOMAIN Panel
<1>1. PICK lz : lz = lazy
    OBVIOUS
<1>2. LazyOK(lz) /\ lz.on /\ DOMAIN lz = LazyFields /\ lz.name \in DOMAIN Panel
    BY <1>1 DEF DashInv, LazyOK
<1>3. LazyLoads(lz) \subseteq DOMAIN Panel
    BY <1>2 DEF LazyLoads
<1>4. CASE lz.name \in cache
    <2>1. PICK e : e = [lz EXCEPT !.due = FALSE, !.comp = lz.name, !.want = NoName]
        OBVIOUS
    <2>2. e = LazyEffect(lz)
        BY <1>4, <2>1 DEF LazyEffect
    <2>3. /\ DOMAIN e = LazyFields /\ e.on = lz.on /\ e.name = lz.name /\ e.comp = lz.name
          /\ e.want = NoName
        BY <1>2, <2>1 DEF LazyFields
    <2> QED
        BY <1>1, <1>2, <1>3, <2>2, <2>3 DEF LazyOK
<1>5. CASE lz.name \notin cache
    <2>1. PICK e : e = [lz EXCEPT !.due = FALSE, !.want = lz.name]
        OBVIOUS
    <2>2. e = LazyEffect(lz)
        BY <1>5, <2>1 DEF LazyEffect
    <2>3. /\ DOMAIN e = LazyFields /\ e.on = lz.on /\ e.name = lz.name /\ e.comp = lz.comp
          /\ e.want = lz.name
        BY <1>2, <2>1 DEF LazyFields
    <2> QED
        BY <1>1, <1>2, <1>3, <2>2, <2>3 DEF LazyOK
<1> QED
    BY <1>4, <1>5

(* No lazy panel, no promise. *)
LEMMA NoLazyOK == LazyOK(NoLazy) /\ ~NoLazy.on
BY DEF LazyOK, NoLazy, LazyFields

(* A render of the lazy panel, with its name changed or not, keeps its     *)
(* promise.                                                                *)
LEMMA LazyRenderOK ==
    ASSUME DashInv, SigOK(sig)', LazyRender
    PROVE  LazyOK(lazy)' /\ cache' \subseteq DOMAIN Panel /\ loads' \subseteq DOMAIN Panel
<1>1. PICK panel : panel = sig'.hash.panel
    OBVIOUS
<1>2. panel \in DOMAIN Panel
    BY <1>1 DEF SigOK
<1>3. LazyOK(lazy) /\ DOMAIN lazy = LazyFields
    BY DEF DashInv, LazyOK
<1>4. PICK fresh : fresh = [NoLazy EXCEPT !.on = TRUE, !.name = panel, !.due = TRUE,
                                          !.comp = IF panel \in cache THEN panel ELSE "none"]
    OBVIOUS
<1>5. PICK ran : ran = IF lazy.due THEN LazyEffect(lazy) ELSE lazy
    OBVIOUS
<1>6. PICK gone : gone = (~Shell' \/ panel = "overview")
    OBVIOUS
<1>7. PICK next : next = [ran EXCEPT !.name = panel, !.due = TRUE]
    OBVIOUS
<1>8. /\ lazy' = IF gone THEN NoLazy ELSE IF ~lazy.on THEN fresh
                 ELSE IF lazy.on /\ lazy.name # panel THEN next ELSE lazy
      /\ loads' = IF ~gone /\ lazy.on /\ lazy.name # panel THEN loads \cup LazyLoads(lazy) ELSE loads
      /\ cache' = cache
    BY <1>1, <1>4, <1>5, <1>6, <1>7 DEF LazyRender
<1>9. LazyOK(fresh)
    <2>1. DOMAIN NoLazy = LazyFields
        BY DEF NoLazy, LazyFields
    <2>2. DOMAIN fresh = LazyFields /\ fresh.on /\ fresh.due /\ fresh.name = panel /\ fresh.comp \in {panel, "none"}
        BY <1>4, <2>1 DEF LazyFields
    <2> QED
        BY <1>2, <2>2 DEF LazyOK
<1>10. ASSUME lazy.on PROVE LazyOK(next)
    <2>1. LazyOK(ran) /\ ran.on
        BY <1>3, <1>5, <1>10, LazyEffectOK
    <2>2. DOMAIN next = LazyFields /\ next.on /\ next.due /\ next.name = panel /\ next.comp = ran.comp
        BY <1>7, <2>1 DEF LazyFields, LazyOK
    <2> QED
        BY <1>2, <2>1, <2>2 DEF LazyOK
<1>11. LazyOK(lazy')
    BY <1>3, <1>8, <1>9, <1>10, NoLazyOK
<1>12. loads' \subseteq DOMAIN Panel
    BY <1>8, LazyEffectOK DEF DashInv
<1> QED
    BY <1>8, <1>11, <1>12 DEF DashInv, LazyOK

(* The effects of the signals leave the hash alone. *)
LEMMA SettleKeepsHash ==
    ASSUME NEW s, DOMAIN s = {"hash", "filters", "range"}
    PROVE  LET t == RangeEffect(FiltersEffect(s))
           IN DOMAIN t = {"hash", "filters", "range"} /\ t.hash = s.hash
<1>1. PICK u : u = FiltersEffect(s)
    OBVIOUS
<1>2. DOMAIN u = {"hash", "filters", "range"} /\ u.hash = s.hash
    <2>1. PICK f : f = queryToFilters(s.hash.params)
        OBVIOUS
    <2>2. u = s \/ u = [s EXCEPT !.filters = f]
        BY <1>1, <2>1 DEF FiltersEffect
    <2> QED
        BY <2>2
<1>3. PICK r : r = Window(u.filters["from"], u.filters["to"])
    OBVIOUS
<1>4. RangeEffect(u) = u \/ RangeEffect(u) = [u EXCEPT !.range = r]
    BY <1>3 DEF RangeEffect
<1> QED
    BY <1>1, <1>2, <1>4

(* A write of a hash of a panel. *)
LEMMA WriteHashOK ==
    ASSUME NEW s, SigOK(s), NEW h,
           h.panel \in DOMAIN Panel, h = [panel |-> h.panel, params |-> h.params]
    PROVE  SigOK(WriteHash(s, h))
<1>1. PICK a : a = [s EXCEPT !.hash = h]
    OBVIOUS
<1>2. DOMAIN a = {"hash", "filters", "range"} /\ a.hash = h
    BY <1>1 DEF SigOK
<1>3. WriteHash(s, h) = RangeEffect(FiltersEffect(a))
    BY <1>1 DEF WriteHash
<1>4. PICK t : t = WriteHash(s, h)
    OBVIOUS
<1>5. DOMAIN t = {"hash", "filters", "range"} /\ t.hash = h
    BY <1>2, <1>3, <1>4, SettleKeepsHash
<1> QED
    BY <1>4, <1>5 DEF SigOK

(* updateFilters keeps the panel of the hash. *)
LEMMA UpdateOK ==
    ASSUME NEW s, SigOK(s), NEW m
    PROVE  SigOK(updateFilters(s, m))
<1>1. PICK a : a = [s EXCEPT !.filters = m]
    OBVIOUS
<1>2. DOMAIN a = {"hash", "filters", "range"} /\ a.hash = s.hash
    BY <1>1 DEF SigOK
<1>3. PICK t : t = WriteFilters(s, m)
    OBVIOUS
<1>4. DOMAIN t = {"hash", "filters", "range"} /\ t.hash = s.hash
    BY <1>1, <1>2, <1>3, SettleKeepsHash DEF WriteFilters
<1>5. PICK h : h = [s.hash EXCEPT !.params = filtersToQuery(m)]
    OBVIOUS
<1>6. h = [panel |-> s.hash.panel, params |-> filtersToQuery(m)]
    BY <1>5 DEF SigOK
<1>7. h = [panel |-> h.panel, params |-> h.params] /\ h.panel \in DOMAIN Panel
    BY <1>6 DEF SigOK
<1>8. SigOK(t)
    BY <1>4 DEF SigOK
<1>9. updateFilters(s, m) = WriteHash(t, h)
    BY <1>3, <1>4, <1>5 DEF updateFilters, ReplaceParams
<1> QED
    BY <1>7, <1>8, <1>9, WriteHashOK

(* So does setRange. *)
LEMMA SetRangeOK ==
    ASSUME NEW s, SigOK(s), NEW r
    PROVE  SigOK(setRange(s, r))
<1>1. CASE ~isValidIrstRange(r.from, r.to)
    BY <1>1 DEF setRange
<1>2. CASE isValidIrstRange(r.from, r.to)
    <2>1. PICK a : a = [s EXCEPT !.range = r]
        OBVIOUS
    <2>2. PICK b : b = RangeEffect(a)
        OBVIOUS
    <2>3. PICK w : w = Window(a.filters["from"], a.filters["to"])
        OBVIOUS
    <2>4. b = a \/ b = [a EXCEPT !.range = w]
        BY <2>2, <2>3 DEF RangeEffect
    <2>5. DOMAIN a = {"hash", "filters", "range"} /\ a.hash = s.hash
        BY <2>1 DEF SigOK
    <2>6. DOMAIN b = {"hash", "filters", "range"} /\ b.hash = s.hash
        BY <2>4, <2>5
    <2>7. SigOK(b)
        BY <2>6 DEF SigOK
    <2>8. PICK m : m = [s.filters EXCEPT !["from"] = r.from, !["to"] = r.to]
        OBVIOUS
    <2>9. setRange(s, r) = updateFilters(b, m)
        BY <1>2, <2>1, <2>2, <2>8 DEF setRange
    <2> QED
        BY <2>7, <2>9, UpdateOK
<1> QED
    BY <1>1, <1>2

(* The invariant holds when the page opens. *)
LEMMA DashInit == Init => DashInv
<1> SUFFICES ASSUME Init PROVE DashInv
    OBVIOUS
<1>1. PICK tab \in BootTabs :
        sig = BootSignals([panel |-> tab, params |-> filtersToQuery(EmptyFilters)], 100)
    BY DEF Init
<1>2. PICK url : url = [panel |-> tab, params |-> filtersToQuery(EmptyFilters)]
    OBVIOUS
<1>3. PICK h : h = parseHash(url)
    OBVIOUS
<1>4. PICK f : f = queryToFilters(h.params)
    OBVIOUS
<1>5. PICK r : r = BootRange(f, 100)
    OBVIOUS
<1>6. sig = [hash |-> h, filters |-> f, range |-> r]
    BY <1>1, <1>2, <1>3, <1>4, <1>5 DEF BootSignals
<1>7. DOMAIN sig = {"hash", "filters", "range"} /\ sig.hash = h
    BY <1>6
<1>8. PICK p : p = IF url.panel \in PanelNames THEN url.panel ELSE "overview"
    OBVIOUS
<1>9. h = [url EXCEPT !.panel = p] /\ p \in {tab, "overview"}
    BY <1>2, <1>3, <1>8 DEF parseHash
<1>10. PICK params : params = filtersToQuery(EmptyFilters)
    OBVIOUS
<1>11. h = [panel |-> p, params |-> params]
    BY <1>2, <1>9, <1>10
<1>12. h.panel \in DOMAIN Panel /\ h = [panel |-> h.panel, params |-> h.params]
    BY <1>9, <1>11, PanelDomain, DashboardConstants
<1>13. SigOK(sig)
    BY <1>7, <1>12 DEF SigOK
<1>14. lazy = NoLazy /\ cache = {} /\ loads = {} /\ main = Gone /\ trend = Gone
    BY DEF Init
<1> QED
    BY <1>13, <1>14, NoLazyOK, GoneCurrent DEF DashInv, Shows, Seen

(* A task that changes neither signals nor panels. *)
LEMMA QuietStep ==
    ASSUME DashInv, UNCHANGED <<sig, site, clock, lazy, cache, main, trend>>,
           loads' \subseteq DOMAIN Panel
    PROVE  DashInv'
<1>1. UNCHANGED sig /\ UNCHANGED site /\ UNCHANGED clock /\ UNCHANGED lazy /\ UNCHANGED cache
      /\ UNCHANGED main /\ UNCHANGED trend
    OBVIOUS
<1>2. SigOK(sig)' /\ LazyOK(lazy)'
    BY <1>1 DEF DashInv, SigOK, LazyOK
<1>3. Shows(main, sig, site.id, clock.tick)' /\ Shows(trend, sig, site.id, clock.tick)'
    BY <1>1 DEF DashInv, Shows, Seen, Current, Settled, Matches
<1> QED
    BY <1>1, <1>2, <1>3 DEF DashInv

(* Both panels keep their promises. *)
LEMMA InvCurrent == DashInv => Current(main) /\ Current(trend)
BY DEF DashInv, Shows

(* A task that renders under the same hash and the same chunks. *)
LEMMA QuietPaint ==
    ASSUME DashInv, UNCHANGED <<sig, lazy, cache, loads>>,
           NEW m, NEW t, Current(m), Current(t), Paint(m, t)
    PROVE  DashInv'
<1>1. SigOK(sig)' /\ LazyOK(lazy)' /\ cache' \subseteq DOMAIN Panel /\ loads' \subseteq DOMAIN Panel
    BY DEF DashInv, SigOK, LazyOK
<1> QED
    BY <1>1, PaintStep

(* Signing in and out, with everything that mounts or goes. *)
LEMMA AuthStep ==
    ASSUME DashInv, UNCHANGED Signals, AuthRender
    PROVE  DashInv'
<1>1. SigOK(sig)'
    BY DEF Signals, DashInv, SigOK
<1>2. LazyOK(lazy)' /\ cache' \subseteq DOMAIN Panel /\ loads' \subseteq DOMAIN Panel
    BY <1>1, LazyRenderOK DEF AuthRender
<1>3. Paint(main, trend)
    BY DEF AuthRender
<1> QED
    BY <1>1, <1>2, <1>3, InvCurrent, PaintStep

(* A control that writes the signals. *)
LEMMA ChangeStep ==
    ASSUME DashInv, NEW s, SigOK(s), Change(s)
    PROVE  DashInv'
<1>1. SigOK(sig)'
    BY DEF Change, SigOK
<1>2. LazyOK(lazy)' /\ cache' \subseteq DOMAIN Panel /\ loads' \subseteq DOMAIN Panel
    BY <1>1, LazyRenderOK DEF Change
<1>3. Paint(main, trend)
    BY DEF Change
<1> QED
    BY <1>1, <1>2, <1>3, InvCurrent, PaintStep

(* Edits of the filters, the window and the tab. *)
LEMMA OperatorSteps ==
    ASSUME DashInv
    PROVE  /\ \A e \in Edits : Edit(e) => DashInv'
           /\ \A w \in Windows : ChangeWindow(w) => DashInv'
           /\ ClearAll => DashInv'
           /\ \A panel \in Tabs : Navigate(panel) => DashInv'
<1>1. SigOK(sig)
    BY DEF DashInv
<1>2. ASSUME NEW e \in Edits, Edit(e) PROVE DashInv'
    BY <1>1, <1>2, UpdateOK, ChangeStep DEF Edit
<1>3. ASSUME NEW w \in Windows, ChangeWindow(w) PROVE DashInv'
    BY <1>1, <1>3, SetRangeOK, ChangeStep DEF ChangeWindow
<1>4. ASSUME ClearAll PROVE DashInv'
    <2>1. clearFilters(sig) = updateFilters(sig, EmptyFilters)
        BY DEF clearFilters, updateFilters
    <2>2. Change(clearFilters(sig))
        BY <1>4 DEF ClearAll
    <2> QED
        BY <1>1, <2>1, <2>2, UpdateOK, ChangeStep
<1>5. ASSUME NEW panel \in Tabs, Navigate(panel) PROVE DashInv'
    <2>1. PICK h : h = [sig.hash EXCEPT !.panel = panel]
        OBVIOUS
    <2>2. h = [panel |-> panel, params |-> sig.hash.params]
        BY <1>1, <2>1 DEF SigOK
    <2>3. h.panel \in DOMAIN Panel /\ h = [panel |-> h.panel, params |-> h.params]
        BY <2>2, DashboardConstants
    <2>4. Change(WriteHash(sig, h))
        BY <1>5, <2>1 DEF Navigate
    <2> QED
        BY <1>1, <2>3, <2>4, WriteHashOK, ChangeStep
<1> QED
    BY <1>2, <1>3, <1>4, <1>5

(* A table's limit and the pickers of the comparison. *)
LEMMA OwnSteps ==
    ASSUME DashInv
    PROVE  /\ ShowAll => DashInv'
           /\ \A p \in Picks : PickComparison(p) => DashInv'
<1>1. ASSUME NEW f, Own(f), Current(f) PROVE DashInv'
    <2>1. UNCHANGED <<sig, lazy, cache, loads>> /\ Paint(f, trend)
        BY <1>1 DEF Own, Signals, Chunks
    <2> QED
        BY <1>1, <2>1, InvCurrent, QuietPaint
<1>2. ASSUME NEW f, DOMAIN f = PanelFields, f.on = main.on, f.due = main.due, f.reqs = main.reqs,
             f.armed = main.armed, f.err = main.err, f.data = main.data, f.seen = main.seen,
             f.missed = main.missed
      PROVE  Current(f)
    BY <1>2, InvCurrent DEF Current, Settled, Matches
<1>3. DOMAIN main = PanelFields
    BY InvCurrent DEF Current
<1>4. ASSUME ShowAll PROVE DashInv'
    <2>1. PICK n : n = Panel[main.on].limits[2]
        OBVIOUS
    <2>2. PICK f : f = [main EXCEPT !.limit = n]
        OBVIOUS
    <2>3. Own(f)
        BY <1>4, <2>1, <2>2 DEF ShowAll
    <2>4. /\ DOMAIN f = PanelFields /\ f.on = main.on /\ f.due = main.due /\ f.reqs = main.reqs
          /\ f.armed = main.armed /\ f.err = main.err /\ f.data = main.data /\ f.seen = main.seen
          /\ f.missed = main.missed
        BY <1>3, <2>2 DEF PanelFields
    <2> QED
        BY <1>1, <1>2, <2>3, <2>4
<1>5. ASSUME NEW p \in Picks, PickComparison(p) PROVE DashInv'
    <2>1. PICK f : f = [main EXCEPT !.pick = p]
        OBVIOUS
    <2>2. Own(f)
        BY <1>5, <2>1 DEF PickComparison
    <2>3. /\ DOMAIN f = PanelFields /\ f.on = main.on /\ f.due = main.due /\ f.reqs = main.reqs
          /\ f.armed = main.armed /\ f.err = main.err /\ f.data = main.data /\ f.seen = main.seen
          /\ f.missed = main.missed
        BY <1>3, <2>1 DEF PanelFields
    <2> QED
        BY <1>1, <1>2, <2>2, <2>3
<1> QED
    BY <1>4, <1>5

(* The effects of the panels and the timer, run after the paint. *)
LEMMA EffectSteps ==
    ASSUME DashInv, PanelEffect \/ TrendEffect \/ CompareTimer
    PROVE  DashInv'
<1> DEFINE Now(f) == Shows(f, sig, site.id, clock.tick)
<1>1. ASSUME NEW m, NEW t, Effects(m, t), Now(m), Now(t) PROVE DashInv'
    <2>1. UNCHANGED sig /\ UNCHANGED site /\ UNCHANGED clock /\ UNCHANGED lazy
          /\ UNCHANGED cache /\ UNCHANGED loads
        BY <1>1 DEF Effects, Signals, Chunks
    <2>2. PICK fresh : fresh = Fresh("trend", sig, site.id, clock.tick)
        OBVIOUS
    <2>3. main' = m /\ trend' \in {fresh, t}
        BY <1>1, <2>2 DEF Effects
    <2>4. Now(fresh)
        <3>1. PICK s : s = sig
            OBVIOUS
        <3>2. PICK id : id = site.id
            OBVIOUS
        <3>3. PICK tick : tick = clock.tick
            OBVIOUS
        <3>4. fresh = Fresh("trend", s, id, tick)
            BY <2>2, <3>1, <3>2, <3>3
        <3>5. Current(fresh) /\ fresh.seen = View(s, id, tick, fresh)
            BY <3>4, PanelDomain, FreshCurrent
        <3> QED
            BY <3>1, <3>2, <3>3, <3>5 DEF Shows, Seen
    <2>5. SigOK(sig)' /\ LazyOK(lazy)'
        BY <2>1 DEF DashInv, SigOK, LazyOK
    <2>6. Shows(main, sig, site.id, clock.tick)'
        BY <1>1, <2>1, <2>3 DEF Shows, Seen, Current, Settled, Matches
    <2>7. Shows(trend, sig, site.id, clock.tick)'
        BY <1>1, <2>1, <2>3, <2>4 DEF Shows, Seen, Current, Settled, Matches
    <2> QED
        BY <2>1, <2>5, <2>6, <2>7 DEF DashInv
<1>2. Now(main) /\ Now(trend)
    BY DEF DashInv
<1>3. ASSUME NEW f, NEW g, Now(f), f.on # "none", Current(g), SameView(f, g), g.seen = f.seen
      PROVE  Now(g)
    <2>1. View(sig, site.id, clock.tick, g) = View(sig, site.id, clock.tick, f)
        BY <1>3 DEF SameView, View
    <2> QED
        BY <1>3, <2>1 DEF Shows, Seen, SameView
<1>4. ASSUME NEW f, Now(f), f.on # "none"
      PROVE  /\ View(sig, site.id, clock.tick, f) = f.seen
             /\ Now(Run(f, f.seen)) /\ Now(Fire(f, f.seen))
    BY <1>3, <1>4, RunCurrent, FireCurrent DEF Shows, Seen
<1>5. CASE PanelEffect
    <2>1. main.on # "none"
        BY <1>5, InvCurrent DEF PanelEffect, Current
    <2>2. Effects(Run(main, main.seen), trend) /\ Now(Run(main, main.seen))
        BY <1>2, <1>4, <1>5, <2>1 DEF PanelEffect
    <2> QED
        BY <1>1, <1>2, <2>2
<1>6. CASE TrendEffect
    <2>1. trend.on # "none"
        BY <1>6, InvCurrent DEF TrendEffect, Current
    <2>2. Effects(main, Run(trend, trend.seen)) /\ Now(Run(trend, trend.seen))
        BY <1>2, <1>4, <1>6, <2>1 DEF TrendEffect
    <2> QED
        BY <1>1, <1>2, <2>2
<1>7. CASE CompareTimer
    <2>1. main.on # "none"
        BY <1>7, InvCurrent DEF CompareTimer, Current
    <2>2. Effects(Fire(main, main.seen), trend) /\ Now(Fire(main, main.seen))
        BY <1>2, <1>4, <1>7, <2>1 DEF CompareTimer
    <2> QED
        BY <1>1, <1>2, <2>2
<1> QED
    BY <1>5, <1>6, <1>7

(* The answers to the panels' requests. *)
LEMMA AnswerSteps ==
    ASSUME DashInv, PanelAnswer \/ TrendAnswer
    PROVE  DashInv'
<1>1. CASE PanelAnswer
    <2>0. PICK q \in main.reqs : \E outcome \in Outcomes(main.on, q) :
            UNCHANGED <<sig, lazy, cache, loads>> /\ Paint(Answered(main, q, outcome), trend)
        BY <1>1 DEF PanelAnswer, Chunks
    <2>1. PICK outcome \in Outcomes(main.on, q) :
            UNCHANGED <<sig, lazy, cache, loads>> /\ Paint(Answered(main, q, outcome), trend)
        BY <2>0
    <2>2. PICK f : f = main
        OBVIOUS
    <2>3. Current(f) /\ Current(trend) /\ f.on # "none" /\ q \in f.reqs
        BY <2>1, <2>2, InvCurrent DEF Current
    <2>4. Current(Answered(f, q, outcome))
        BY <2>3, AnsweredCurrent
    <2> QED
        BY <2>1, <2>2, <2>3, <2>4, QuietPaint
<1>2. CASE TrendAnswer
    <2>0. PICK q \in trend.reqs : \E outcome \in Outcomes("trend", q) :
            UNCHANGED <<sig, lazy, cache, loads>> /\ Paint(main, Answered(trend, q, outcome))
        BY <1>2 DEF TrendAnswer, Chunks
    <2>1. PICK outcome \in Outcomes("trend", q) :
            UNCHANGED <<sig, lazy, cache, loads>> /\ Paint(main, Answered(trend, q, outcome))
        BY <2>0
    <2>2. PICK f : f = trend
        OBVIOUS
    <2>3. Current(f) /\ Current(main) /\ f.on # "none" /\ q \in f.reqs
        BY <2>1, <2>2, InvCurrent DEF Current
    <2>4. Current(Answered(f, q, outcome))
        BY <2>3, AnsweredCurrent
    <2> QED
        BY <2>1, <2>2, <2>3, <2>4, QuietPaint
<1> QED
    BY <1>1, <1>2

(* The lazy panel's effect and the arrival or failure of a chunk, awaited  *)
(* or not.                                                                 *)
LEMMA ChunkSteps ==
    ASSUME DashInv
    PROVE  /\ LazyPanelEffect => DashInv'
           /\ \A name \in loads : ChunkLoaded(name) => DashInv'
           /\ \A name \in loads : ChunkFailed(name) => DashInv'
<1>1. LazyOK(lazy) /\ DOMAIN lazy = LazyFields /\ cache \subseteq DOMAIN Panel /\ loads \subseteq DOMAIN Panel
    BY DEF DashInv, LazyOK
<1>2. ASSUME UNCHANGED sig, LazyOK(lazy'), cache' \subseteq DOMAIN Panel, loads' \subseteq DOMAIN Panel,
             Paint(main, trend)
      PROVE  DashInv'
    <2>1. SigOK(sig)' /\ LazyOK(lazy)'
        BY <1>2 DEF DashInv, SigOK, LazyOK
    <2> QED
        BY <1>2, <2>1, InvCurrent, PaintStep
<1>3. ASSUME LazyPanelEffect PROVE DashInv'
    <2>1. lazy.on
        BY <1>1, <1>3 DEF LazyPanelEffect, LazyOK, NoLazy
    <2>2. LazyOK(LazyEffect(lazy)) /\ LazyLoads(lazy) \subseteq DOMAIN Panel
        BY <2>1, LazyEffectOK
    <2> QED
        BY <1>1, <1>2, <1>3, <2>2 DEF LazyPanelEffect, Signals
<1>4. ASSUME NEW name \in loads, lazy.want = name
      PROVE  /\ LazyOK([lazy EXCEPT !.comp = name, !.want = NoName])
             /\ LazyOK([lazy EXCEPT !.err = TRUE, !.want = NoName])
    <2>1. name \in DOMAIN Panel /\ name # NoName
        BY <1>1, NamesNamed
    <2>2. lazy.on
        BY <1>1, <1>4, <2>1 DEF LazyOK, NoLazy
    <2>3. PICK a : a = [lazy EXCEPT !.comp = name, !.want = NoName]
        OBVIOUS
    <2>4. /\ DOMAIN a = LazyFields /\ a.on = lazy.on /\ a.name = lazy.name /\ a.due = lazy.due
          /\ a.err = lazy.err /\ a.comp = name /\ a.want = NoName
        BY <1>1, <2>3 DEF LazyFields
    <2>5. LazyOK(a)
        BY <1>1, <1>4, <2>1, <2>2, <2>4 DEF LazyOK
    <2>6. PICK b : b = [lazy EXCEPT !.err = TRUE, !.want = NoName]
        OBVIOUS
    <2>7. DOMAIN b = LazyFields /\ b.on = lazy.on /\ b.name = lazy.name /\ b.err /\ b.comp = lazy.comp
        BY <1>1, <2>6 DEF LazyFields
    <2>8. LazyOK(b)
        BY <1>1, <2>2, <2>7 DEF LazyOK
    <2> QED
        BY <2>3, <2>5, <2>6, <2>8
<1>5. ASSUME NEW name \in loads, ChunkLoaded(name) PROVE DashInv'
    <2>1. LazyOK(lazy')
        <3>1. PICK a : a = [lazy EXCEPT !.comp = name, !.want = NoName]
            OBVIOUS
        <3>2. lazy' = IF lazy.want = name THEN a ELSE lazy
            BY <1>5, <3>1, Zenon DEF ChunkLoaded
        <3>3. lazy.want = name => LazyOK(a)
            BY <1>4, <3>1, Zenon
        <3> QED
            BY <1>1, <3>2, <3>3
    <2>2. cache' \subseteq DOMAIN Panel /\ loads' \subseteq DOMAIN Panel
        BY <1>1, <1>5 DEF ChunkLoaded
    <2> QED
        BY <1>2, <1>5, <2>1, <2>2 DEF ChunkLoaded, Signals
<1>6. ASSUME NEW name \in loads, ChunkFailed(name) PROVE DashInv'
    <2>1. LazyOK(lazy')
        <3>1. PICK a : a = [lazy EXCEPT !.err = TRUE, !.want = NoName]
            OBVIOUS
        <3>2. lazy' = IF lazy.want = name THEN a ELSE lazy
            BY <1>6, <3>1, Zenon DEF ChunkFailed
        <3>3. lazy.want = name => LazyOK(a)
            BY <1>4, <3>1, Zenon
        <3> QED
            BY <1>1, <3>2, <3>3
    <2>2. cache' \subseteq DOMAIN Panel /\ loads' \subseteq DOMAIN Panel
        BY <1>1, <1>6 DEF ChunkFailed
    <2> QED
        BY <1>2, <1>6, <2>1, <2>2 DEF ChunkFailed, Signals
<1> QED
    BY <1>3, <1>5, <1>6

(* Every step keeps the invariant. *)
LEMMA DashNext ==
    ASSUME DashInv, [Next]_dashVars
    PROVE  DashInv'
<1>l. loads \subseteq DOMAIN Panel /\ Current(main) /\ Current(trend)
    BY InvCurrent DEF DashInv
<1>1. CASE UNCHANGED dashVars
    BY <1>l, <1>1, QuietStep DEF dashVars
<1>2. CASE Boot
    BY <1>2, AuthStep DEF Boot
<1>3. CASE \E ok \in BOOLEAN : ProfileAnswer(ok)
    BY <1>3, AuthStep DEF ProfileAnswer
<1>4. CASE LogoutAnswer
    BY <1>4, AuthStep DEF LogoutAnswer
<1>5. CASE LoginSubmit
    BY <1>l, <1>5, QuietStep DEF LoginSubmit
<1>6. CASE \E ok \in BOOLEAN : LoginAnswer(ok)
    BY <1>l, <1>6, QuietStep DEF LoginAnswer
<1>7. CASE Logout
    BY <1>l, <1>7, QuietStep DEF Logout
<1>8. CASE \E panel \in Tabs : prefetchPanel(panel)
    <2>1. /\ UNCHANGED <<sig, site, clock, lazy, cache, main, trend>>
          /\ loads' \subseteq DOMAIN Panel
        BY <1>l, <1>8, DashboardConstants DEF prefetchPanel, Signals
    <2> QED
        BY <2>1, QuietStep
<1>9. CASE SwitcherEffect
    BY <1>l, <1>9, QuietStep DEF SwitcherEffect, Signals, Chunks
<1>10. CASE SwitcherFails
    BY <1>l, <1>10, QuietStep DEF SwitcherFails, Signals, Chunks
<1>11. CASE \E id \in Sites : ChangeGrant(id)
    BY <1>l, <1>11, QuietStep DEF ChangeGrant, Signals, Chunks
<1>12. CASE \E id \in Sites : SelectSite(id)
    BY <1>l, <1>12, QuietPaint DEF SelectSite, Chunks
<1>13. CASE SwitcherAnswer
    BY <1>l, <1>13, QuietPaint DEF SwitcherAnswer, Chunks
<1>14. CASE Tick \/ Hide \/ Unhide
    <2>1. UNCHANGED <<sig, lazy, cache, loads>> /\ Paint(main, trend)
        BY <1>14 DEF Tick, Hide, Unhide, Clock, Chunks
    <2> QED
        BY <1>l, <2>1, QuietPaint
<1>15. CASE PanelAnswer \/ TrendAnswer
    BY <1>15, AnswerSteps
<1>16. CASE PanelEffect \/ TrendEffect \/ CompareTimer
    BY <1>16, EffectSteps
<1>17. CASE \/ LazyPanelEffect
            \/ \E name \in loads : ChunkLoaded(name)
            \/ \E name \in loads : ChunkFailed(name)
    BY <1>17, ChunkSteps
<1>18. CASE \/ \E e \in Edits : Edit(e)
            \/ \E w \in Windows : ChangeWindow(w)
            \/ ClearAll
            \/ \E panel \in Tabs : Navigate(panel)
    BY <1>18, OperatorSteps
<1>19. CASE ShowAll \/ \E p \in Picks : PickComparison(p)
    BY <1>19, OwnSteps
<1> QED
    BY <1>1, <1>2, <1>3, <1>4, <1>5, <1>6, <1>7, <1>8, <1>9, <1>10, <1>11, <1>12, <1>13, <1>14,
       <1>15, <1>16, <1>17, <1>18, <1>19 DEF Next, Runs, Answers

(* The invariant holds in every reachable state. *)
THEOREM DashInvariant == Spec => []DashInv
<1>1. DashInv /\ [Next]_dashVars => DashInv'
    BY DashNext
<1> QED
    BY DashInit, <1>1, PTL DEF Spec

(* When a panel has nothing due, armed or in flight and shows no error,    *)
(* its numbers answer a request for the selection on screen, whatever      *)
(* overtook what, but for the filters it overlooks that were edited since  *)
(* (the useEffect of every panel, its dependencies and its                 *)
(* AbortController).                                                       *)
THEOREM PanelsCurrent == Spec => []SettledData
<1>1. DashInv => SettledData
    <2> SUFFICES ASSUME DashInv PROVE SettledData
        OBVIOUS
    <2>1. SUFFICES ASSUME NEW f \in {main, trend}, f.on # "none", Settled(f), f.err = NoError,
                          f.data # NoData, NEW k \in Selection(f.on)
                   PROVE  \/ f.data[k] = View(sig, site.id, clock.tick, f)[k]
                          \/ k \in Overlooked(f.on) \cap f.missed
        BY DEF SettledData
    <2>2. Shows(f, sig, site.id, clock.tick)
        BY DEF DashInv
    <2>3. f.on \in DOMAIN Panel /\ Matches(f, f.data) /\ f.seen = View(sig, site.id, clock.tick, f)
        BY <2>1, <2>2 DEF Shows, Seen, Current
    <2>4. CASE k \in Panel[f.on].deps
        BY <2>3, <2>4 DEF Matches, AskedFor
    <2>5. CASE k \notin Panel[f.on].deps
        <3>1. k \in Overlooked(f.on) /\ k \in Text \cup Scopes
            BY <2>1, <2>3, <2>5, SelectionDeps
        <3> QED
            BY <2>3, <3>1 DEF Matches, AskedFor
    <2> QED
        BY <2>4, <2>5
<1> QED
    BY DashInvariant, <1>1, PTL

(* A lazy panel that has nothing due and waits for no chunk shows the      *)
(* selected tab, in whatever order chunks arrive (LazyPanel's cancelled    *)
(* flag and cache).                                                        *)
THEOREM TabShown == Spec => []TabIsShown
<1>1. DashInv => TabIsShown
    <2>1. ASSUME LazyOK(lazy) PROVE TabIsShown
        BY <2>1, NamesNamed DEF LazyOK, TabIsShown
    <2> QED
        BY <2>1 DEF DashInv
<1> QED
    BY DashInvariant, <1>1, PTL

(* The inductive invariant of the site signals: the property and the       *)
(* record's shape.                                                         *)
SiteInv ==
    /\ DOMAIN site = {"id", "active", "list", "stored"}
    /\ ReloadKeepsSite

(* A reload with the same grants opens the active site, and requests go to *)
(* it, through every choice, answer and refusal (SiteSwitcher,             *)
(* clearStaleActiveSite).                                                  *)
THEOREM ReloadOpensSite == Spec => []ReloadKeepsSite
<1>1. Init => SiteInv
    BY DEF Init, SiteInv, ReloadKeepsSite
<1>2. SiteInv /\ [Next]_dashVars => SiteInv'
    <2> SUFFICES ASSUME SiteInv, [Next]_dashVars PROVE SiteInv'
        OBVIOUS
    <2>1. CASE UNCHANGED site
        BY <2>1 DEF SiteInv, ReloadKeepsSite, ChosenSite
    <2>2. CASE \E id \in Sites : SelectSite(id)
        <3>0. PICK id \in Sites : SelectSite(id)
            BY <2>2
        <3>1. /\ id \in site.list \ Disabled
              /\ site' = [site EXCEPT !.active = id, !.id = id, !.stored = id]
            BY <3>0 DEF SelectSite
        <3>2. /\ DOMAIN site' = {"id", "active", "list", "stored"} /\ site'.list = site.list
              /\ site'.active = id /\ site'.id = id /\ site'.stored = id
            BY <3>1 DEF SiteInv
        <3>3. ChosenSite(site.list)' = id
            BY <3>1, <3>2 DEF ChosenSite
        <3> QED
            BY <3>2, <3>3 DEF SiteInv, ReloadKeepsSite
    <2>3. CASE SwitcherAnswer
        <3>1. PICK chosen : chosen = ChosenSite(grants)
            OBVIOUS
        <3>2. PICK id : id = IF grants = {} THEN site.id ELSE chosen
            OBVIOUS
        <3>3. site' = [site EXCEPT !.list = grants, !.active = chosen, !.id = id]
            BY <2>3, <3>1, <3>2 DEF SwitcherAnswer
        <3>4. /\ DOMAIN site' = {"id", "active", "list", "stored"} /\ site'.list = grants
              /\ site'.active = chosen /\ site'.id = id /\ site'.stored = site.stored
            BY <3>3 DEF SiteInv
        <3>5. ChosenSite(site.list)' = chosen
            BY <3>1, <3>4 DEF ChosenSite
        <3>6. chosen # NoSite => id = chosen
            BY <3>1, <3>2 DEF ChosenSite
        <3> QED
            BY <3>4, <3>5, <3>6 DEF SiteInv, ReloadKeepsSite
    <2>4. CASE site' = clearStaleActiveSite(site)
        <3>1. DOMAIN site' = {"id", "active", "list", "stored"} /\ site'.active = NoSite
            BY <2>4 DEF SiteInv, clearStaleActiveSite
        <3> QED
            BY <3>1 DEF SiteInv, ReloadKeepsSite
    <2>5. CASE PanelAnswer
        BY <2>1, <2>4, <2>5 DEF PanelAnswer
    <2>6. CASE TrendAnswer
        BY <2>1, <2>4, <2>6 DEF TrendAnswer
    <2>7. ASSUME Next, ~PanelAnswer, ~TrendAnswer, ~SwitcherAnswer, ~\E id \in Sites : SelectSite(id)
          PROVE  UNCHANGED site
        <3>1. ASSUME NEW s, Change(s) PROVE UNCHANGED site
            BY <3>1 DEF Change
        <3>2. CASE (\E e \in Edits : Edit(e)) \/ (\E w \in Windows : ChangeWindow(w)) \/ ClearAll
                     \/ (\E panel \in Tabs : Navigate(panel))
            BY <3>1, <3>2, Zenon DEF Edit, ChangeWindow, ClearAll, Navigate
        <3>3. ASSUME NEW f, Own(f) PROVE UNCHANGED site
            BY <3>3 DEF Own, Signals
        <3>4. CASE ShowAll \/ \E p \in Picks : PickComparison(p)
            BY <3>3, <3>4, Zenon DEF ShowAll, PickComparison
        <3>5. ASSUME NEW m, NEW t, Effects(m, t) PROVE UNCHANGED site
            BY <3>5 DEF Effects, Signals
        <3>6. CASE PanelEffect \/ TrendEffect \/ CompareTimer
            BY <3>5, <3>6, Zenon DEF PanelEffect, TrendEffect, CompareTimer
        <3>7. CASE Boot \/ LoginSubmit \/ Logout \/ LogoutAnswer
                     \/ \E ok \in BOOLEAN : LoginAnswer(ok) \/ ProfileAnswer(ok)
            <4>1. Boot => UNCHANGED site
                BY DEF Boot, Signals
            <4>2. LoginSubmit => UNCHANGED site
                BY DEF LoginSubmit
            <4>3. Logout => UNCHANGED site
                BY DEF Logout
            <4>4. LogoutAnswer => UNCHANGED site
                BY DEF LogoutAnswer, Signals
            <4>5. ASSUME NEW ok PROVE LoginAnswer(ok) => UNCHANGED site
                BY DEF LoginAnswer
            <4>6. ASSUME NEW ok PROVE ProfileAnswer(ok) => UNCHANGED site
                BY DEF ProfileAnswer, Signals
            <4> QED
                BY <3>7, <4>1, <4>2, <4>3, <4>4, <4>5, <4>6
        <3>8. ASSUME NEW panel PROVE prefetchPanel(panel) => UNCHANGED site
            BY DEF prefetchPanel, Signals
        <3>9. ASSUME NEW id PROVE ChangeGrant(id) => UNCHANGED site
            BY DEF ChangeGrant, Signals
        <3>10. (LazyPanelEffect => UNCHANGED site) /\ (SwitcherEffect => UNCHANGED site)
               /\ (SwitcherFails => UNCHANGED site)
            BY DEF LazyPanelEffect, SwitcherEffect, SwitcherFails, Signals
        <3>11. ASSUME NEW name PROVE (ChunkLoaded(name) => UNCHANGED site)
                                     /\ (ChunkFailed(name) => UNCHANGED site)
            BY Zenon DEF ChunkLoaded, ChunkFailed, Signals
        <3>12. Tick \/ Hide \/ Unhide => UNCHANGED site
            BY DEF Tick, Hide, Unhide, Clock
        <3> QED
            BY <2>7, <3>2, <3>4, <3>6, <3>7, <3>8, <3>9, <3>10, <3>11, <3>12 DEF Next, Runs, Answers
    <2>8. CASE UNCHANGED dashVars
        BY <2>1, <2>8 DEF dashVars
    <2> QED
        BY <2>1, <2>2, <2>3, <2>5, <2>6, <2>7, <2>8
<1>3. SiteInv => ReloadKeepsSite
    BY DEF SiteInv
<1> QED
    BY <1>1, <1>2, <1>3, PTL DEF Spec

================================================================================
