------------------------------ MODULE UrlState ------------------------------
(***************************************************************************)
(* The operator's view as a URL: the browser's history, the hash and the   *)
(* controls that write it (components/Nav, FilterPanel, SortHeader,        *)
(* PropFilterAdd, PropFilterChip, DatePicker, the metric cards).           *)
(*                                                                         *)
(* A control writes the signals and the URL in one task.  A pasted link,   *)
(* an anchor or the back button changes the URL first; the page learns of  *)
(* it from a later hashchange or popstate event, and controls may be used  *)
(* in between.                                                             *)
(***************************************************************************)
EXTENDS DashboardSignals

CONSTANTS
    Tabs,            \* panels the operator navigates to
    Links,           \* URLs the operator opens
    Channels, Paths, Columns, Metrics,
    PropScopes, PropNames, PropValues,
    Chips,           \* the presets of the date picker in use
    Picks,           \* days picked in the calendar
    FirstDay,        \* the day the page is opened
    MaxDay,          \* the last day it stays open
    MaxHistory,      \* entries of the browser's history
    MaxActions       \* what the operator does in one sitting

ASSUME UrlConstants ==
    /\ Tabs \subseteq PanelNames /\ Chips \subseteq Presets
    /\ \A url \in Links :
           /\ url = [panel |-> url.panel, params |-> url.params]
           /\ \A scope \in Scopes : url.params[scope] \in Seq(Seq(STRING))
    /\ PropScopes \subseteq Scopes /\ NoText \notin Columns
    /\ PropNames \cup PropValues \subseteq Seq(STRING) \ {<<>>}
    /\ FirstDay \in Nat /\ FirstDay > 90 /\ MaxDay \in Nat
    /\ Picks \subseteq Nat \ {0}
    /\ MaxHistory \in Nat \ {0} /\ MaxActions \in Nat

VARIABLES
    hist, pos,       \* session history of URLs and the current entry
    stale,           \* the URL changed and its event has not run yet
    sig,             \* the signals: hash, filters, range
    picker,          \* the date picker's own state
    today,
    asked,           \* ghost: the filters last asked for, by control or URL
    actions          \* steps of the operator so far

urlVars == <<hist, pos, stale, sig, picker, today, asked, actions>>

Url == hist[pos]

matchPreset(r, day) ==
    IF \E p \in Presets : presetToRange(p, day) = r
      THEN CHOOSE p \in Presets : presetToRange(p, day) = r
      ELSE "custom"

(* The date picker as it is mounted: the chip is matched once. *)
Mounted(r, day) ==
    [active |-> matchPreset(r, day), open |-> FALSE, mode |-> "range",
     from |-> r.from, to |-> r.to, err |-> FALSE]

Load(url) ==
    LET s == BootSignals(url, today')
    IN /\ sig' = s
       /\ picker' = Mounted(s.range, today')
       /\ asked' = s.filters
       /\ stale' = FALSE

Init ==
    \E url \in Links :
        /\ hist = <<url>> /\ pos = 1 /\ stale = FALSE
        /\ today = FirstDay
        /\ sig = BootSignals(url, FirstDay)
        /\ picker = Mounted(sig.range, FirstDay)
        /\ asked = sig.filters
        /\ actions = 0

Act == actions < MaxActions /\ actions' = actions + 1

---------------------------------------------------------------------------
(* Navigation. *)
Push(url) ==
    /\ pos < MaxHistory
    /\ hist' = Append(SubSeq(hist, 1, pos), url)
    /\ pos' = pos + 1

(* A tab keeps the parameters; a hash that is already there is not pushed. *)
Navigate(panel) ==
    LET hash == [sig.hash EXCEPT !.panel = panel]
    IN /\ Act
       /\ IF Url = hash THEN UNCHANGED <<hist, pos>> ELSE Push(hash)
       /\ sig' = WriteHash(sig, hash)
       /\ asked' = sig'.filters
       /\ UNCHANGED <<stale, picker, today>>

OpenLink(url) ==
    /\ Act
    /\ url # Url
    /\ Push(url)
    /\ stale' = TRUE
    /\ UNCHANGED <<sig, picker, today, asked>>

Traverse(to) ==
    /\ Act
    /\ to \in DOMAIN hist /\ to # pos
    /\ pos' = to
    /\ stale' = TRUE
    /\ UNCHANGED <<hist, sig, picker, today, asked>>

(* hashchange or popstate. *)
Resync ==
    /\ stale
    /\ stale' = FALSE
    /\ sig' = WriteHash(sig, parseHash(Url))
    /\ asked' = queryToFilters(Url.params)
    /\ UNCHANGED <<hist, pos, picker, today, actions>>

Reload ==
    /\ Act
    /\ today' = today
    /\ Load(Url)
    /\ UNCHANGED <<hist, pos>>

NewDay ==
    /\ today < MaxDay
    /\ today' = today + 1
    /\ UNCHANGED <<hist, pos, stale, sig, picker, asked, actions>>

---------------------------------------------------------------------------
(* Controls: the signals move to s, the current history entry is replaced. *)
Apply(s, wanted) ==
    /\ Act
    /\ sig' = s
    /\ hist' = [hist EXCEPT ![pos] = s.hash]
    /\ asked' = wanted
    /\ UNCHANGED <<pos, stale, today>>

Update(wanted) == Apply(updateFilters(sig, wanted), wanted) /\ UNCHANGED picker

ToggleChannel(c) == sig.hash.panel # "seo" /\ Update(ToggledChannel(sig.filters, c))

SetPath(p) == Update([sig.filters EXCEPT !["path"] = p])

ClearAll ==
    /\ AnyFilter(sig.filters)
    /\ Apply(clearFilters(sig), EmptyFilters)
    /\ UNCHANGED picker

SubmitProp(scope, name, value) ==
    /\ name # <<NoText>> /\ value # <<NoText>>
    /\ Update(WithProp(sig.filters, scope, name, value))

RemoveProp(scope, i) ==
    /\ i \in DOMAIN sig.filters[scope]
    /\ Update(WithoutProp(sig.filters, scope, sig.filters[scope][i].name))

CycleClick(column) == Update(CycledSort(sig.filters, column))

ToggleMetric(id) ==
    LET next == ToggledMetrics(sig.filters, id)
    IN next # <<>> /\ Update([sig.filters EXCEPT !["metrics"] = next])

---------------------------------------------------------------------------
(* The date picker. *)
ApplyRange(r) ==
    LET valid == isValidIrstRange(r.from, r.to)
    IN /\ Act
       /\ sig' = setRange(sig, r)
       /\ hist' = IF valid THEN [hist EXCEPT ![pos] = setRange(sig, r).hash] ELSE hist
       /\ asked' = IF valid THEN [sig.filters EXCEPT !["from"] = r.from, !["to"] = r.to] ELSE asked
       /\ UNCHANGED <<pos, stale, today>>

ApplyPreset(p) ==
    /\ ApplyRange(presetToRange(p, today))
    /\ picker' = [picker EXCEPT !.active = p, !.open = FALSE, !.err = FALSE]

OpenCustom ==
    /\ Act
    /\ picker' = [picker EXCEPT !.active = "custom", !.open = TRUE, !.err = FALSE,
                                !.from = sig.range.from, !.to = sig.range.to]
    /\ UNCHANGED <<hist, pos, stale, sig, today, asked>>

SwitchMode(m) ==
    /\ Act
    /\ picker.open
    /\ picker' = [picker EXCEPT !.mode = m]
    /\ UNCHANGED <<hist, pos, stale, sig, today, asked>>

(* The calendar's last day is inclusive, the window's end is not. *)
PickDays(first, last) ==
    /\ Act
    /\ picker.open
    /\ IF picker.mode = "single" THEN first = last ELSE first <= last
    /\ picker' = [picker EXCEPT !.from = first, !.to = last + 1]
    /\ UNCHANGED <<hist, pos, stale, sig, today, asked>>

(* The guard of applyCustom: the picker keeps its error and stays open. *)
ApplyCustom ==
    LET r == Window(picker.from, picker.to)
    IN /\ picker.open
       /\ ApplyRange(r)
       /\ picker' = IF isValidIrstRange(r.from, r.to)
                      THEN [picker EXCEPT !.err = FALSE, !.open = FALSE,
                                          !.active = matchPreset(r, today)]
                      ELSE [picker EXCEPT !.err = TRUE]

ClosePopover ==
    /\ Act
    /\ picker.open
    /\ picker' = [picker EXCEPT !.open = FALSE]
    /\ UNCHANGED <<hist, pos, stale, sig, today, asked>>

---------------------------------------------------------------------------
Next ==
    \/ \E panel \in Tabs : Navigate(panel)
    \/ \E url \in Links : OpenLink(url)
    \/ \E to \in DOMAIN hist : Traverse(to)
    \/ Resync \/ Reload \/ NewDay
    \/ \E c \in Channels : ToggleChannel(c)
    \/ \E p \in Paths : SetPath(p)
    \/ ClearAll
    \/ \E scope \in PropScopes, name \in PropNames, value \in PropValues :
           SubmitProp(scope, name, value)
    \/ \E scope \in PropScopes : \E i \in DOMAIN sig.filters[scope] : RemoveProp(scope, i)
    \/ \E column \in Columns : CycleClick(column)
    \/ \E id \in Metrics : ToggleMetric(id)
    \/ \E p \in Chips : ApplyPreset(p)
    \/ OpenCustom \/ ApplyCustom \/ ClosePopover
    \/ \E m \in {"single", "range"} : SwitchMode(m)
    \/ \E first, last \in Picks : PickDays(first, last)

Spec == Init /\ [][Next]_urlVars

---------------------------------------------------------------------------
(* Properties. *)

(* The same filters, a property map being the set of its entries. *)
SameFilters(a, b) ==
    /\ \A k \in FilterKeys \ Scopes : a[k] = b[k]
    /\ \A scope \in Scopes :
           {a[scope][i] : i \in DOMAIN a[scope]} = {b[scope][i] : i \in DOMAIN b[scope]}

(* Once the events have run, the view is a function of the URL: the hash   *)
(* signal is the parsed location and the filters are its parameters, so a  *)
(* copied link shows what the operator sees (hash.ts resync, filters.ts    *)
(* effect and updateFilters).                                              *)
UrlDeterminesFilters ==
    ~stale => /\ sig.hash = parseHash(Url)
              /\ SameFilters(queryToFilters(sig.hash.params), sig.filters)

ColonFree(f) == \A scope \in Scopes : \A i \in DOMAIN f[scope] : Len(f[scope][i].name) = 1

(* The filters in force are the ones last asked for, by a control or by a  *)
(* URL, through the write of filtersSignal, the effect that takes it back, *)
(* the encoding in the hash and the decoding of it; a value may contain    *)
(* the separator ':', a name may not (filters.ts updateFilters).           *)
AskedIsShown == ColonFree(asked) => SameFilters(asked, sig.filters)

(* Whenever the filters carry a usable pair of dates the panels' window is *)
(* that pair, and the window is never malformed (range.ts effect,          *)
(* setRange).                                                              *)
RangeFollowsUrl ==
    /\ isValidIrstRange(sig.range.from, sig.range.to)
    /\ isValidIrstRange(sig.filters["from"], sig.filters["to"])
         => sig.range = Window(sig.filters["from"], sig.filters["to"])
=============================================================================
