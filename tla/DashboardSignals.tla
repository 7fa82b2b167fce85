-------------------------- MODULE DashboardSignals --------------------------
(***************************************************************************)
(* The dashboard's shared signals and the conversions between them:        *)
(* state/hash.ts, state/filters.ts and state/range.ts.                     *)
(*                                                                         *)
(* Three signals describe what the operator looks at.  hash is the parsed  *)
(* location.hash, filters its decoded parameters, range the time window.   *)
(* Two effects keep them together: one copies the hash's parameters into   *)
(* filters, one copies the filters' dates into range.  A write to a signal *)
(* runs the effects that read it before it returns, so a function that     *)
(* writes two signals runs them twice.                                     *)
(*                                                                         *)
(* Text is abstract: a scalar is a name or NoText (absent), a date a day   *)
(* number, a list of metrics a sequence of ids.  A string in which ':'     *)
(* matters is the sequence of its parts between the colons, so "a:b" is    *)
(* <<"a", "b">> and the empty string is <<NoText>>.                        *)
(***************************************************************************)
EXTENDS Lists, SequencesExt

NoText == ""             \* the empty text: an absent scalar
NoDay == 0               \* an absent date
BadDay == -1             \* text that is no YYYY-MM-DD date

(* The panels a hash can name; any other text is the Overview. *)
PanelNames ==
    {"overview", "sources", "pages", "seo", "campaigns", "geo", "realtime",
     "admin", "compare", "connect"}

Text == {"device", "channel", "country", "path", "sort", "dir"}
Dates == {"from", "to"}
Scopes == {"hitProps", "sessionProps", "userProps"}

(* The fields of a filter. *)
FilterKeys == Text \cup Dates \cup Scopes \cup {"metrics"}

EmptyFilters ==
    [k \in FilterKeys |-> IF k \in Text THEN NoText ELSE IF k \in Dates THEN NoDay ELSE <<>>]

(* A flat name -> value object, its entries in insertion order. *)
Put(m, name, value) ==
    IF \E i \in DOMAIN m : m[i].name = name
      THEN [i \in DOMAIN m |-> IF m[i].name = name THEN [m[i] EXCEPT !.value = value] ELSE m[i]]
      ELSE Append(m, [name |-> name, value |-> value])

Delete(m, name) == Keep(m, LAMBDA e : e.name # name)

mapsEqual(a, b) == ToSet(a) = ToSet(b)

(* Mutant of filtersEqual: the property maps are not compared. *)
FiltersEqualScalars(a, b) == \A k \in FilterKeys \ Scopes : a[k] = b[k]

filtersEqual(a, b) ==
    /\ \A k \in FilterKeys \ Scopes : a[k] = b[k]
    /\ \A scope \in Scopes : mapsEqual(a[scope], b[scope])

---------------------------------------------------------------------------
(* Parameters carry every scalar that is not empty and, per scope, the     *)
(* list of its "name:value" entries.                                       *)
Entries(m) ==
    LET named == Keep(m, LAMBDA e : e.name # <<NoText>>)
    IN [i \in DOMAIN named |-> named[i].name \o named[i].value]

filtersToQuery(f) ==
    [k \in FilterKeys |-> IF k \in Scopes THEN Entries(f[k]) ELSE f[k]]

(* Mutant of DecodeProps: an entry is split at its last ':'. *)
DecodePropsAtLast(entries) ==
    FoldLeft(LAMBDA m, e : IF Len(e) < 2 \/ e[1] = NoText THEN m
                           ELSE Put(m, SubSeq(e, 1, Len(e) - 1), <<e[Len(e)]>>),
             <<>>, entries)

(* An entry is split at its first ':'; one without a ':' or without a name *)
(* is dropped, and the last of two entries with the same name wins.        *)
DecodeProps(entries) ==
    FoldLeft(LAMBDA m, e : IF Len(e) < 2 \/ e[1] = NoText THEN m
                           ELSE Put(m, <<e[1]>>, Tail(e)),
             <<>>, entries)

(* A direction without the column it applies to is dropped. *)
queryToFilters(p) ==
    [k \in FilterKeys |->
        IF k \in Scopes THEN DecodeProps(p[k])
        ELSE IF k = "dir" /\ p["sort"] = NoText THEN NoText ELSE p[k]]

parseHash(url) ==
    [url EXCEPT !.panel = IF url.panel \in PanelNames THEN url.panel ELSE "overview"]

---------------------------------------------------------------------------
(* Dates.  The window is half open, and tomorrow is the end of a window    *)
(* that includes today.                                                    *)
IsDay(d) == d > 0

isValidIrstRange(from, to) == IsDay(from) /\ IsDay(to) /\ from <= to

Window(from, to) == [from |-> from, to |-> to]

Presets == {"today", "yesterday", "7d", "30d", "90d"}

presetToRange(p, today) ==
    CASE p = "today"     -> Window(today, today + 1)
      [] p = "yesterday" -> Window(today - 1, today)
      [] p = "30d"       -> Window(today - 30, today + 1)
      [] p = "90d"       -> Window(today - 90, today + 1)
      [] OTHER           -> Window(today - 7, today + 1)

defaultRange(today) == presetToRange("7d", today)

(* The window a page opens with. *)
BootRange(f, today) ==
    IF isValidIrstRange(f["from"], f["to"]) THEN Window(f["from"], f["to"])
    ELSE defaultRange(today)

---------------------------------------------------------------------------
(* The effects, and a write followed by the effects it triggers. *)
FiltersEffect(s) ==
    LET fromHash == queryToFilters(s.hash.params)
    IN IF filtersEqual(fromHash, s.filters) THEN s ELSE [s EXCEPT !.filters = fromHash]

RangeEffect(s) ==
    IF isValidIrstRange(s.filters["from"], s.filters["to"])
      THEN [s EXCEPT !.range = Window(s.filters["from"], s.filters["to"])]
      ELSE s

WriteHash(s, hash) == RangeEffect(FiltersEffect([s EXCEPT !.hash = hash]))

WriteFilters(s, f) == RangeEffect(FiltersEffect([s EXCEPT !.filters = f]))

(* The signals when the page has loaded. *)
BootSignals(url, today) ==
    LET hash == parseHash(url)
        f    == queryToFilters(hash.params)
    IN [hash |-> hash, filters |-> f, range |-> BootRange(f, today)]

(* replaceHashParams keeps the panel and replaces the parameters. *)
ReplaceParams(s, params) == WriteHash(s, [s.hash EXCEPT !.params = params])

(* updateFilters writes the merged filters, which the first effect takes   *)
(* back because the hash has not changed yet, and then the hash.           *)
updateFilters(s, merged) ==
    ReplaceParams(WriteFilters(s, merged), filtersToQuery(merged))

clearFilters(s) ==
    ReplaceParams(WriteFilters(s, EmptyFilters), filtersToQuery(EmptyFilters))

(* Mutant of setRange: the filters, and so the URL, keep their dates. *)
SetRangeSignalOnly(s, r) == [s EXCEPT !.range = r]

(* The write to range runs the second effect, which may take it back until *)
(* the new dates have reached the filters.                                 *)
setRange(s, r) ==
    IF isValidIrstRange(r.from, r.to)
      THEN updateFilters(RangeEffect([s EXCEPT !.range = r]),
                         [s.filters EXCEPT !["from"] = r.from, !["to"] = r.to])
      ELSE s

---------------------------------------------------------------------------
(* What a control asks for: the filters it merges. *)
ToggledChannel(f, c) == [f EXCEPT !["channel"] = IF @ = c THEN NoText ELSE c]

WithProp(f, scope, name, value) == [f EXCEPT ![scope] = Put(@, name, value)]

WithoutProp(f, scope, name) == [f EXCEPT ![scope] = Delete(@, name)]

(* A column header cycles unsorted, descending, ascending, unsorted. *)
CycledSort(f, column) ==
    IF f["sort"] # column THEN [f EXCEPT !["sort"] = column, !["dir"] = "desc"]
    ELSE IF f["dir"] = "desc" THEN [f EXCEPT !["dir"] = "asc"]
    ELSE [f EXCEPT !["sort"] = NoText, !["dir"] = NoText]

AllMetrics == {"visitors", "conversion", "revenue", "rpv", "pageviews", "goals"}

selectedMetrics(f) ==
    LET known == Keep(f["metrics"], LAMBDA m : m \in AllMetrics)
    IN IF known = <<>> THEN <<"visitors">> ELSE known

ToggledMetrics(f, id) ==
    LET current == selectedMetrics(f)
    IN IF id \in ToSet(current) THEN Keep(current, LAMBDA m : m # id)
       ELSE Append(current, id)

(* The filter panel offers "Clear all" when one of its own filters is set. *)
hasAnyPropFilter(f) == \E scope \in Scopes : f[scope] # <<>>

AnyFilter(f) == f["channel"] # NoText \/ f["path"] # NoText \/ hasAnyPropFilter(f)
=============================================================================
