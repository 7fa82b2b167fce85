---------------------------- MODULE UrlStateProofs ----------------------------
(***************************************************************************)
(* Proofs about the dashboard's URL state: once the browser's events have  *)
(* run a copied link shows what the operator sees, the panels' window is   *)
(* the filters' own pair of dates, and what the operator asked for last is *)
(* what the filters hold.                                                  *)
(*                                                                         *)
(* The first two rest on one fact about the two effects (SettleFacts):     *)
(* whatever write came before them, they leave the filters equal to the    *)
(* decoded parameters of the hash and the window equal to the filters'     *)
(* dates when these are usable.  The rest is the browser's history: every  *)
(* entry is a hash, and while no event is outstanding the entry in force   *)
(* parses to the hash signal.  What a parameter list decodes to is not     *)
(* unfolded there, so these proofs hold for any decoding of properties.    *)
(*                                                                         *)
(* The last one is about the codec itself: a map of properties is encoded  *)
(* parameter by parameter and decoded by a fold that puts one property at  *)
(* a time, so decoding the first k parameters yields the first k           *)
(* properties, by induction on k.                                          *)
(***************************************************************************)
EXTENDS UrlState, DataLemmas

(* The signals: a record of the hash, the filters and the window. *)
Fields == {"hash", "filters", "range"}

(* The filters are what the hash's parameters decode to. *)
Agree(s) == SameFilters(queryToFilters(s.hash.params), s.filters)

(* The window is well formed and is the filters' when they have one. *)
Ranged(s) ==
    /\ isValidIrstRange(s.range.from, s.range.to)
    /\ isValidIrstRange(s.filters["from"], s.filters["to"])
         => s.range = Window(s.filters["from"], s.filters["to"])

(* What filtersEqual takes for equal are the same filters. *)
LEMMA EqualIsSame ==
    ASSUME NEW a, NEW b, filtersEqual(a, b)
    PROVE  SameFilters(a, b)
BY DEF filtersEqual, SameFilters, mapsEqual, ToSet

(* Filters are the same as themselves. *)
LEMMA SameReflexive ==
    ASSUME NEW a
    PROVE  SameFilters(a, a)
BY DEF SameFilters


(* The effect of range.ts changes the window only, to the filters' pair of *)
(* dates when it is usable.                                                *)
LEMMA RangeEffectFacts ==
    ASSUME NEW s, DOMAIN s = Fields
    PROVE  LET t == RangeEffect(s)
               v == isValidIrstRange(s.filters["from"], s.filters["to"])
           IN /\ DOMAIN t = Fields
              /\ t.hash = s.hash /\ t.filters = s.filters
              /\ v => t.range = Window(s.filters["from"], s.filters["to"])
              /\ ~v => t.range = s.range
BY DEF RangeEffect, Fields

(* The effect of filters.ts changes the filters only and leaves them equal *)
(* to the parameters of the hash.                                          *)
LEMMA FiltersEffectFacts ==
    ASSUME NEW s, DOMAIN s = Fields
    PROVE  LET t == FiltersEffect(s)
           IN /\ DOMAIN t = Fields
              /\ t.hash = s.hash /\ t.range = s.range
              /\ Agree(t)
<1> DEFINE fromHash == queryToFilters(s.hash.params)
<1>1. CASE filtersEqual(fromHash, s.filters)
    BY <1>1, EqualIsSame DEF FiltersEffect, Agree
<1>2. CASE ~filtersEqual(fromHash, s.filters)
    <2> DEFINE t == FiltersEffect(s)
    <2>1. t = [s EXCEPT !.filters = fromHash]
        BY <1>2 DEF FiltersEffect
    <2> HIDE DEF fromHash, t
    <2>2. DOMAIN t = Fields /\ t.hash = s.hash /\ t.range = s.range /\ t.filters = fromHash
        BY <2>1 DEF Fields
    <2> QED
        BY <2>2, SameReflexive DEF fromHash, t, Agree
<1> QED
    BY <1>1, <1>2

(* Both effects after a write. *)
Settle(s) == RangeEffect(FiltersEffect(s))

(* The window is well formed. *)
ValidRange(s) == isValidIrstRange(s.range.from, s.range.to)

(* After both effects the filters are those of the hash, and the window is *)
(* theirs if it was well formed before.                                    *)
LEMMA SettleFacts ==
    ASSUME NEW s, DOMAIN s = Fields
    PROVE  /\ DOMAIN Settle(s) = Fields
           /\ Settle(s).hash = s.hash
           /\ Agree(Settle(s))
           /\ ValidRange(s) => Ranged(Settle(s))
<1> DEFINE u == FiltersEffect(s)
           t == RangeEffect(u)
<1>1. DOMAIN u = Fields /\ u.hash = s.hash /\ u.range = s.range /\ Agree(u)
    BY FiltersEffectFacts
<1> HIDE DEF u
<1>2. /\ DOMAIN t = Fields /\ t.hash = u.hash /\ t.filters = u.filters
      /\ isValidIrstRange(u.filters["from"], u.filters["to"])
           => t.range = Window(u.filters["from"], u.filters["to"])
      /\ ~isValidIrstRange(u.filters["from"], u.filters["to"]) => t.range = u.range
    BY <1>1, RangeEffectFacts
<1> HIDE DEF t
<1>3. Agree(t)
    BY <1>1, <1>2 DEF Agree
<1>4. ValidRange(s) => Ranged(t)
    BY <1>1, <1>2 DEF ValidRange, Ranged, Window
<1> QED
    BY <1>1, <1>2, <1>3, <1>4 DEF t, u, Settle

(* A write to the hash or to the filters, with the effects it runs. *)
LEMMA WriteFacts ==
    ASSUME NEW s, DOMAIN s = Fields, ValidRange(s), NEW h, NEW f
    PROVE  /\ DOMAIN WriteHash(s, h) = Fields
           /\ WriteHash(s, h).hash = h
           /\ Agree(WriteHash(s, h))
           /\ Ranged(WriteHash(s, h))
           /\ DOMAIN WriteFilters(s, f) = Fields
           /\ WriteFilters(s, f).hash = s.hash
           /\ Ranged(WriteFilters(s, f))
<1>1. PICK a : a = [s EXCEPT !.hash = h]
    OBVIOUS
<1>2. DOMAIN a = Fields /\ a.hash = h /\ ValidRange(a)
    BY <1>1 DEF Fields, ValidRange
<1>3. PICK b : b = [s EXCEPT !.filters = f]
    OBVIOUS
<1>4. DOMAIN b = Fields /\ b.hash = s.hash /\ ValidRange(b)
    BY <1>3 DEF Fields, ValidRange
<1>5. WriteHash(s, h) = Settle(a) /\ WriteFilters(s, f) = Settle(b)
    BY <1>1, <1>3 DEF WriteHash, WriteFilters, Settle
<1> QED
    BY <1>2, <1>4, <1>5, SettleFacts

(* updateFilters ends with the hash of the merged filters and everything   *)
(* in step, although the first write is taken back on the way.             *)
LEMMA UpdateFacts ==
    ASSUME NEW s, DOMAIN s = Fields, ValidRange(s), NEW m
    PROVE  /\ DOMAIN updateFilters(s, m) = Fields
           /\ updateFilters(s, m).hash = [s.hash EXCEPT !.params = filtersToQuery(m)]
           /\ Agree(updateFilters(s, m))
           /\ Ranged(updateFilters(s, m))
<1>1. PICK t : t = WriteFilters(s, m)
    OBVIOUS
<1>2. DOMAIN t = Fields /\ t.hash = s.hash /\ ValidRange(t)
    BY <1>1, WriteFacts DEF Ranged, ValidRange
<1>3. PICK q : q = filtersToQuery(m)
    OBVIOUS
<1>4. updateFilters(s, m) = WriteHash(t, [s.hash EXCEPT !.params = q])
    BY <1>1, <1>2, <1>3 DEF updateFilters, ReplaceParams
<1> QED
    BY <1>2, <1>3, <1>4, WriteFacts

(* clearFilters is the update to the empty filters. *)
LEMMA ClearIsUpdate ==
    ASSUME NEW s
    PROVE  clearFilters(s) = updateFilters(s, EmptyFilters)
BY DEF clearFilters, updateFilters

(* setRange with a usable pair ends with everything in step, whatever the  *)
(* window was before.                                                      *)
LEMMA SetRangeFacts ==
    ASSUME NEW s, DOMAIN s = Fields, NEW r, isValidIrstRange(r.from, r.to)
    PROVE  \E m : LET t == setRange(s, r)
                 IN /\ DOMAIN t = Fields
                    /\ t.hash = [s.hash EXCEPT !.params = filtersToQuery(m)]
                    /\ Agree(t) /\ Ranged(t)
<1>1. PICK m : m = [s.filters EXCEPT !["from"] = r.from, !["to"] = r.to]
    OBVIOUS
<1>2. PICK a : a = [s EXCEPT !.range = r]
    OBVIOUS
<1>3. DOMAIN a = Fields /\ a.hash = s.hash /\ a.filters = s.filters /\ a.range = r
    BY <1>2 DEF Fields
<1>4. PICK b : b = RangeEffect(a)
    OBVIOUS
<1>5. DOMAIN b = Fields /\ b.hash = s.hash /\ ValidRange(b)
    <2>1. /\ DOMAIN b = Fields /\ b.hash = a.hash
          /\ isValidIrstRange(a.filters["from"], a.filters["to"])
               => b.range = Window(a.filters["from"], a.filters["to"])
          /\ ~isValidIrstRange(a.filters["from"], a.filters["to"]) => b.range = a.range
        BY <1>3, <1>4, RangeEffectFacts
    <2> QED
        BY <1>3, <2>1 DEF ValidRange, Window
<1>6. setRange(s, r) = updateFilters(b, m)
    BY <1>1, <1>2, <1>4 DEF setRange
<1> QED
    BY <1>5, <1>6, UpdateFacts

(* A hash: a panel's name and parameters. *)
IsUrl(h) == h = [panel |-> h.panel, params |-> h.params]

(* A hash as the page writes it. *)
Parsed(h) == IsUrl(h) /\ h.panel \in PanelNames

(* parseHash yields a hash of a known panel and leaves such a hash alone. *)
LEMMA ParseFacts ==
    ASSUME NEW url, IsUrl(url)
    PROVE  /\ Parsed(parseHash(url))
           /\ Parsed(url) => parseHash(url) = url
<1>1. PICK p : p = IF url.panel \in PanelNames THEN url.panel ELSE "overview"
    OBVIOUS
<1>2. p \in PanelNames
    BY <1>1 DEF PanelNames
<1>3. parseHash(url) = [panel |-> p, params |-> url.params]
    BY <1>1 DEF parseHash, IsUrl
<1>4. Parsed(parseHash(url))
    BY <1>2, <1>3 DEF Parsed, IsUrl
<1>5. ASSUME Parsed(url) PROVE parseHash(url) = url
    BY <1>1, <1>3, <1>5 DEF Parsed, IsUrl
<1> QED
    BY <1>4, <1>5

(* Replacing the parameters, or the panel by a known one, keeps a hash a   *)
(* parsed one.                                                             *)
LEMMA RewriteFacts ==
    ASSUME NEW h, Parsed(h)
    PROVE  /\ \A q : Parsed([h EXCEPT !.params = q])
           /\ \A p \in PanelNames : Parsed([h EXCEPT !.panel = p])
<1>1. ASSUME NEW q PROVE Parsed([h EXCEPT !.params = q])
    <2>1. [h EXCEPT !.params = q] = [panel |-> h.panel, params |-> q]
        BY DEF Parsed, IsUrl
    <2> QED
        BY <2>1 DEF Parsed, IsUrl
<1>2. ASSUME NEW p \in PanelNames PROVE Parsed([h EXCEPT !.panel = p])
    <2>1. [h EXCEPT !.panel = p] = [panel |-> p, params |-> h.params]
        BY DEF Parsed, IsUrl
    <2> QED
        BY <2>1 DEF Parsed, IsUrl
<1> QED
    BY <1>1, <1>2

(* A page opens with its filters and window in step with its URL. *)
LEMMA BootFacts ==
    ASSUME NEW url, IsUrl(url), NEW day \in Nat, day > 90
    PROVE  LET s == BootSignals(url, day)
           IN /\ DOMAIN s = Fields
              /\ s.hash = parseHash(url)
              /\ Agree(s) /\ Ranged(s)
<1>1. PICK f : f = queryToFilters(parseHash(url).params)
    OBVIOUS
<1>2. PICK h : h = parseHash(url)
    OBVIOUS
<1>3. PICK r : r = BootRange(f, day)
    OBVIOUS
<1>4. BootSignals(url, day) = [hash |-> h, filters |-> f, range |-> r]
    BY <1>1, <1>2, <1>3 DEF BootSignals
<1>5. PICK s : s = BootSignals(url, day)
    OBVIOUS
<1>6. DOMAIN s = Fields /\ s.hash = h /\ s.filters = f /\ s.range = r
    BY <1>4, <1>5 DEF Fields
<1>7. Agree(s)
    BY <1>1, <1>2, <1>6, SameReflexive DEF Agree
<1>8. Ranged(s)
    <2>1. CASE isValidIrstRange(f["from"], f["to"])
        BY <1>3, <1>6, <2>1 DEF Ranged, BootRange, Window
    <2>2. CASE ~isValidIrstRange(f["from"], f["to"])
        <3>1. r = Window(day - 7, day + 1)
            BY <1>3, <2>2 DEF BootRange, defaultRange, presetToRange
        <3>2. isValidIrstRange(r.from, r.to)
            BY <3>1 DEF Window, isValidIrstRange, IsDay
        <3> QED
            BY <1>6, <2>2, <3>2 DEF Ranged
    <2> QED
        BY <2>1, <2>2
<1> QED
    BY <1>2, <1>5, <1>6, <1>7, <1>8

(* The signals agree with each other. *)
SigInv ==
    /\ DOMAIN sig = Fields
    /\ Parsed(sig.hash)
    /\ Agree(sig) /\ Ranged(sig)

(* The history is a sequence of hashes and the current entry is one of     *)
(* them.                                                                   *)
HistInv ==
    /\ hist \in Seq({hist[i] : i \in DOMAIN hist})
    /\ pos \in DOMAIN hist
    /\ \A i \in DOMAIN hist : IsUrl(hist[i])

(* With no event outstanding the hash signal is the parsed location. *)
Synced == ~stale => sig.hash = parseHash(Url)

(* The inductive invariant. The day is bounded below for the default       *)
(* window of a reload.                                                     *)
UrlInv == SigInv /\ HistInv /\ Synced /\ today \in Nat /\ today > 90

(* The invariant holds when the page opens. *)
LEMMA UrlInit == Init => UrlInv
<1> SUFFICES ASSUME Init PROVE UrlInv
    OBVIOUS
<1>1. PICK url \in Links :
        /\ hist = <<url>> /\ pos = 1 /\ stale = FALSE
        /\ today = FirstDay
        /\ sig = BootSignals(url, FirstDay)
    BY DEF Init
<1>2. IsUrl(url)
    BY UrlConstants DEF IsUrl
<1>3. today \in Nat /\ today > 90
    BY <1>1, UrlConstants
<1>4. SigInv /\ sig.hash = parseHash(url)
    BY <1>1, <1>2, <1>3, BootFacts, ParseFacts DEF SigInv
<1>5. HistInv
    BY <1>1, <1>2 DEF HistInv
<1>6. Url = url
    BY <1>1 DEF Url
<1> QED
    BY <1>3, <1>4, <1>5, <1>6 DEF UrlInv, Synced

(* A push makes its URL the current entry of a history of hashes. *)
LEMMA PushFacts ==
    ASSUME HistInv, NEW url, IsUrl(url), Push(url)
    PROVE  HistInv' /\ Url' = url
<1>1. PICK S : S = {hist[i] : i \in DOMAIN hist}
    OBVIOUS
<1>2. hist \in Seq(S) /\ pos \in 1 .. Len(hist)
    BY <1>1 DEF HistInv
<1>3. PICK h : h = SubSeq(hist, 1, pos)
    OBVIOUS
<1>4. h \in Seq(S) /\ Len(h) = pos /\ \A i \in 1 .. pos : h[i] = hist[i]
    BY <1>2, <1>3
<1>5. PICK T : T = S \cup {url}
    OBVIOUS
<1>6. hist' = Append(h, url) /\ pos' = pos + 1
    BY <1>3 DEF Push
<1>7. h \in Seq(T) /\ url \in T
    BY <1>4, <1>5
<1>8. /\ hist' \in Seq(T) /\ Len(hist') = pos + 1
      /\ \A i \in 1 .. pos : hist'[i] = hist[i]
      /\ hist'[pos + 1] = url
    BY <1>2, <1>4, <1>6, <1>7
<1>9. DOMAIN hist' = 1 .. (pos + 1) /\ pos \in Nat
    BY <1>2, <1>8
<1>10. \A i \in DOMAIN hist' : IsUrl(hist'[i])
    <2> TAKE i \in DOMAIN hist'
    <2>1. CASE i = pos + 1
        BY <1>8, <2>1
    <2>2. CASE i # pos + 1
        <3>1. i \in 1 .. pos /\ hist'[i] = hist[i]
            BY <1>8, <1>9, <2>2
        <3>2. i \in DOMAIN hist
            BY <1>2, <3>1
        <3>3. IsUrl(hist[i])
            BY <3>2 DEF HistInv
        <3> QED
            BY <3>1, <3>3
    <2> QED
        BY <2>1, <2>2
<1>11. hist' \in Seq({hist'[i] : i \in DOMAIN hist'})
    BY <1>8, <1>9
<1>12. pos' \in DOMAIN hist' /\ hist'[pos'] = url
    BY <1>6, <1>8, <1>9
<1> QED
    BY <1>10, <1>11, <1>12 DEF HistInv, Url

(* So does the replacement of the current entry. *)
LEMMA ReplaceFacts ==
    ASSUME HistInv, NEW url, IsUrl(url), hist' = [hist EXCEPT ![pos] = url], pos' = pos
    PROVE  HistInv' /\ Url' = url
<1>1. PICK n \in Nat : DOMAIN hist = 1 .. n
    <2>1. PICK S : hist \in Seq(S)
        BY DEF HistInv
    <2> QED
        BY <2>1
<1>2. DOMAIN hist' = 1 .. n /\ pos \in 1 .. n /\ hist'[pos] = url
    BY <1>1 DEF HistInv
<1>3. \A i \in DOMAIN hist' : IsUrl(hist'[i])
    BY <1>1, <1>2 DEF HistInv
<1>4. PICK h : h = hist'
    OBVIOUS
<1>5. h = [i \in 1 .. n |-> h[i]]
    BY <1>1, <1>4
<1>6. h \in Seq({h[i] : i \in DOMAIN h})
    <2>1. PICK T : T = {h[i] : i \in 1 .. n}
        OBVIOUS
    <2>2. h \in [1 .. n -> T]
        BY <1>5, <2>1
    <2>3. h \in Seq(T)
        BY <2>2
    <2> QED
        BY <1>2, <1>4, <2>1, <2>3
<1> QED
    BY <1>2, <1>3, <1>4, <1>6 DEF HistInv, Url

(* A control that leaves the signals in step and replaces the current      *)
(* entry by their hash keeps the invariant.                                *)
LEMMA ControlFacts ==
    ASSUME UrlInv, NEW s, DOMAIN s = Fields, Agree(s), Ranged(s),
           NEW q, s.hash = [sig.hash EXCEPT !.params = q],
           sig' = s, hist' = [hist EXCEPT ![pos] = s.hash],
           UNCHANGED <<pos, stale, today>>
    PROVE  UrlInv'
<1>1. Parsed(s.hash)
    BY RewriteFacts DEF UrlInv, SigInv
<1>2. HistInv' /\ Url' = s.hash
    BY <1>1, ReplaceFacts DEF UrlInv, Parsed
<1>3. SigInv'
    BY <1>1 DEF SigInv
<1>4. Synced'
    BY <1>1, <1>2, ParseFacts DEF Synced, Parsed
<1> QED
    BY <1>2, <1>3, <1>4 DEF UrlInv

(* A control of the filter panel, a column header, a chip or a metric      *)
(* card.                                                                   *)
LEMMA UpdateStep ==
    ASSUME UrlInv, NEW wanted, NEW w2, Apply(updateFilters(sig, wanted), w2)
    PROVE  UrlInv'
<1>1. DOMAIN sig = Fields /\ ValidRange(sig)
    BY DEF UrlInv, SigInv, Ranged, ValidRange
<1>2. PICK s : s = updateFilters(sig, wanted)
    OBVIOUS
<1>3. PICK q : q = filtersToQuery(wanted)
    OBVIOUS
<1>4. DOMAIN s = Fields /\ Agree(s) /\ Ranged(s) /\ s.hash = [sig.hash EXCEPT !.params = q]
    BY <1>1, <1>2, <1>3, UpdateFacts
<1>5. sig' = s /\ hist' = [hist EXCEPT ![pos] = s.hash] /\ UNCHANGED <<pos, stale, today>>
    BY <1>2 DEF Apply
<1> QED
    BY <1>4, <1>5, ControlFacts

(* The date picker, with a usable pair of dates or not. *)
LEMMA RangeStep ==
    ASSUME UrlInv, NEW r, ApplyRange(r)
    PROVE  UrlInv'
<1>1. CASE isValidIrstRange(r.from, r.to)
    <2>1. PICK s : s = setRange(sig, r)
        OBVIOUS
    <2>2. PICK m : DOMAIN s = Fields /\ Agree(s) /\ Ranged(s)
                   /\ s.hash = [sig.hash EXCEPT !.params = filtersToQuery(m)]
        BY <1>1, <2>1, SetRangeFacts DEF UrlInv, SigInv
    <2>3. PICK q : q = filtersToQuery(m)
        OBVIOUS
    <2>4. sig' = s /\ hist' = [hist EXCEPT ![pos] = s.hash] /\ UNCHANGED <<pos, stale, today>>
        BY <1>1, <2>1 DEF ApplyRange
    <2> QED
        BY <2>2, <2>3, <2>4, ControlFacts
<1>2. CASE ~isValidIrstRange(r.from, r.to)
    <2>1. UNCHANGED <<sig, hist, pos, stale, today>>
        BY <1>2 DEF ApplyRange, setRange
    <2> QED
        BY <2>1 DEF UrlInv, SigInv, HistInv, Synced, Url
<1> QED
    BY <1>1, <1>2

(* A tab, whether its hash is pushed or is already the location. *)
LEMMA NavigateStep ==
    ASSUME UrlInv, NEW panel \in Tabs, Navigate(panel)
    PROVE  UrlInv'
<1>1. PICK hash : hash = [sig.hash EXCEPT !.panel = panel]
    OBVIOUS
<1>2. Parsed(hash) /\ IsUrl(hash)
    BY <1>1, UrlConstants, RewriteFacts DEF UrlInv, SigInv, Parsed
<1>3. sig' = WriteHash(sig, hash)
    BY <1>1 DEF Navigate
<1>4. DOMAIN sig' = Fields /\ sig'.hash = hash /\ Agree(sig') /\ Ranged(sig')
    BY <1>3, WriteFacts DEF UrlInv, SigInv, Ranged, ValidRange
<1>5. SigInv'
    BY <1>2, <1>4 DEF SigInv, Agree, Ranged
<1>6. HistInv' /\ Url' = hash
    <2>1. CASE Url = hash
        <3>1. UNCHANGED <<hist, pos>>
            BY <1>1, <2>1 DEF Navigate
        <3> QED
            BY <2>1, <3>1 DEF UrlInv, HistInv, Url
    <2>2. CASE Url # hash
        <3>1. Push(hash)
            BY <1>1, <2>2 DEF Navigate
        <3> QED
            BY <1>2, <3>1, PushFacts DEF UrlInv
    <2> QED
        BY <2>1, <2>2
<1>7. Synced'
    BY <1>2, <1>4, <1>6, ParseFacts DEF Synced
<1> QED
    BY <1>5, <1>6, <1>7 DEF UrlInv, Navigate

(* A hashchange or popstate event, and a reload. *)
LEMMA EventStep ==
    ASSUME UrlInv, Resync \/ Reload
    PROVE  UrlInv'
<1>1. IsUrl(Url)
    BY DEF UrlInv, HistInv, Url
<1>2. UNCHANGED <<hist, pos, today>>
    BY DEF Resync, Reload
<1>3. DOMAIN sig' = Fields /\ sig'.hash = parseHash(Url) /\ Agree(sig') /\ Ranged(sig')
    <2>1. CASE Resync
        BY <2>1, WriteFacts DEF Resync, UrlInv, SigInv, Ranged, ValidRange
    <2>2. CASE Reload
        <3>1. sig' = BootSignals(Url, today)
            BY <2>2 DEF Reload, Load
        <3> QED
            BY <1>1, <3>1, BootFacts DEF UrlInv
    <2> QED
        BY <2>1, <2>2
<1>4. SigInv'
    BY <1>1, <1>3, ParseFacts DEF SigInv, Agree, Ranged
<1>5. HistInv' /\ Url' = Url
    BY <1>2 DEF UrlInv, HistInv, Url
<1> QED
    BY <1>2, <1>3, <1>4, <1>5 DEF UrlInv, Synced

(* A link or the back button moves the location only; the event is         *)
(* outstanding from then on.                                               *)
LEMMA LocationStep ==
    ASSUME UrlInv, (\E url \in Links : OpenLink(url)) \/ (\E to \in DOMAIN hist : Traverse(to))
    PROVE  UrlInv'
<1>1. stale' = TRUE /\ UNCHANGED <<sig, today>>
    BY DEF OpenLink, Traverse
<1>2. HistInv'
    <2>1. ASSUME NEW url \in Links, OpenLink(url) PROVE HistInv'
        <3>1. IsUrl(url) /\ Push(url)
            BY <2>1, UrlConstants DEF IsUrl, OpenLink
        <3> QED
            BY <3>1, PushFacts DEF UrlInv
    <2>2. ASSUME NEW to \in DOMAIN hist, Traverse(to) PROVE HistInv'
        BY <2>2 DEF UrlInv, HistInv, Traverse
    <2> QED
        BY <2>1, <2>2
<1> QED
    BY <1>1, <1>2 DEF UrlInv, SigInv, Synced

(* Every step keeps the invariant. *)
LEMMA UrlNext ==
    ASSUME UrlInv, [Next]_urlVars
    PROVE  UrlInv'
<1>1. ASSUME UNCHANGED <<hist, pos, stale, sig>>, today' \in Nat, today' > 90 PROVE UrlInv'
    BY <1>1 DEF UrlInv, SigInv, HistInv, Synced, Url
<1>2. CASE UNCHANGED urlVars
    BY <1>1, <1>2 DEF urlVars, UrlInv
<1>3. CASE NewDay
    BY <1>1, <1>3 DEF NewDay, UrlInv
<1>4. CASE \/ OpenCustom \/ ClosePopover
           \/ \E m \in {"single", "range"} : SwitchMode(m)
           \/ \E first, last \in Picks : PickDays(first, last)
    <2>1. UNCHANGED <<hist, pos, stale, sig, today>>
        <3>1. CASE OpenCustom
            BY <3>1 DEF OpenCustom
        <3>2. CASE ClosePopover
            BY <3>2 DEF ClosePopover
        <3>3. ASSUME NEW m, SwitchMode(m) PROVE UNCHANGED <<hist, pos, stale, sig, today>>
            BY <3>3 DEF SwitchMode
        <3>4. ASSUME NEW first, NEW last, PickDays(first, last)
              PROVE  UNCHANGED <<hist, pos, stale, sig, today>>
            BY <3>4 DEF PickDays
        <3> QED
            BY <1>4, <3>1, <3>2, <3>3, <3>4
    <2> QED
        BY <1>1, <2>1 DEF UrlInv
<1>5. CASE \E panel \in Tabs : Navigate(panel)
    BY <1>5, NavigateStep
<1>6. CASE (\E url \in Links : OpenLink(url)) \/ (\E to \in DOMAIN hist : Traverse(to))
    BY <1>6, LocationStep
<1>7. CASE Resync \/ Reload
    BY <1>7, EventStep
<1>8. ASSUME NEW wanted, Update(wanted) PROVE UrlInv'
    BY <1>8, UpdateStep DEF Update
<1>9. CASE \E c \in Channels : ToggleChannel(c)
    BY <1>8, <1>9 DEF ToggleChannel
<1>10. CASE \E p \in Paths : SetPath(p)
    BY <1>8, <1>10 DEF SetPath
<1>11. CASE ClearAll
    BY <1>11, UpdateStep, ClearIsUpdate DEF ClearAll
<1>12. CASE \E scope \in PropScopes, name \in PropNames, value \in PropValues :
                SubmitProp(scope, name, value)
    <2>1. PICK scope \in PropScopes, name \in PropNames, value \in PropValues :
            Update(WithProp(sig.filters, scope, name, value))
        BY <1>12, Zenon DEF SubmitProp
    <2> QED
        BY <1>8, <2>1
<1>13. CASE \E scope \in PropScopes : \E i \in DOMAIN sig.filters[scope] : RemoveProp(scope, i)
    BY <1>8, <1>13 DEF RemoveProp
<1>14. CASE \E column \in Columns : CycleClick(column)
    BY <1>8, <1>14 DEF CycleClick
<1>15. CASE \E id \in Metrics : ToggleMetric(id)
    BY <1>8, <1>15 DEF ToggleMetric
<1>16. CASE \E p \in Chips : ApplyPreset(p)
    BY <1>16, RangeStep DEF ApplyPreset
<1>17. CASE ApplyCustom
    BY <1>17, RangeStep DEF ApplyCustom
<1> QED
    BY <1>2, <1>3, <1>4, <1>5, <1>6, <1>7, <1>9, <1>10, <1>11, <1>12, <1>13, <1>14, <1>15, <1>16, <1>17
    DEF Next

(* The invariant holds in every reachable state. *)
THEOREM UrlInvariant == Spec => []UrlInv
<1>1. UrlInv /\ [Next]_urlVars => UrlInv'
    BY UrlNext
<1> QED
    BY UrlInit, <1>1, PTL DEF Spec

(* Once the events have run, the view is a function of the URL: the hash   *)
(* signal is the parsed location and the filters are its parameters, for   *)
(* any links, controls and history, whatever is used between a change of   *)
(* the URL and its event (hash.ts resync, filters.ts effect and            *)
(* updateFilters).                                                         *)
THEOREM LinkShowsView == Spec => []UrlDeterminesFilters
<1>1. UrlInv => UrlDeterminesFilters
    BY DEF UrlInv, SigInv, Synced, Agree, UrlDeterminesFilters
<1> QED
    BY UrlInvariant, <1>1, PTL

(* The panels' window is never malformed and is the filters' pair of dates *)
(* whenever that pair is usable, through every order of writes and effects *)
(* (range.ts effect, setRange).                                            *)
THEOREM WindowFollows == Spec => []RangeFollowsUrl
<1>1. UrlInv => RangeFollowsUrl
    BY DEF UrlInv, SigInv, Ranged, RangeFollowsUrl
<1> QED
    BY UrlInvariant, <1>1, PTL

-----------------------------------------------------------------------------
(* What was asked is in force. *)

(* Text cut at its colons, a property, and a map of properties: its names  *)
(* are different and none is empty.                                        *)
Parts == Seq(STRING) \ {<<>>}
Prop == [name : Parts, value : Parts]

Maps ==
    {m \in Seq(Prop) : /\ \A i, j \in DOMAIN m : m[i].name = m[j].name => i = j
                       /\ \A i \in DOMAIN m : m[i].name # <<NoText>>}

(* Putting a property into a map yields a map, longer by the property when *)
(* its name is new.                                                        *)
LEMMA PutFacts ==
    ASSUME NEW m \in Maps, NEW name \in Parts, name # <<NoText>>, NEW value \in Parts
    PROVE  /\ Put(m, name, value) \in Maps
           /\ (\A i \in DOMAIN m : m[i].name # name)
                => Put(m, name, value) = Append(m, [name |-> name, value |-> value])
<1>1. PICK n \in Nat : m \in Seq(Prop) /\ n = Len(m) /\ DOMAIN m = 1 .. n
    BY DEF Maps
<1>2. \A i \in 1 .. n : m[i] \in Prop
    BY <1>1
<1>3. CASE \E i \in DOMAIN m : m[i].name = name
    <2>1. PICK t : t = Put(m, name, value)
        OBVIOUS
    <2>2. t = [i \in 1 .. n |-> IF m[i].name = name THEN [m[i] EXCEPT !.value = value] ELSE m[i]]
        BY <1>1, <1>3, <2>1 DEF Put
    <2>3. \A i \in 1 .. n : t[i] \in Prop /\ t[i].name = m[i].name
        <3>1. SUFFICES ASSUME NEW i \in 1 .. n PROVE t[i] \in Prop /\ t[i].name = m[i].name
            OBVIOUS
        <3>2. m[i] \in Prop
            BY <1>2
        <3>3. t[i] = IF m[i].name = name THEN [m[i] EXCEPT !.value = value] ELSE m[i]
            BY <2>2
        <3> QED
            BY <3>2, <3>3 DEF Prop
    <2>4. t \in Seq(Prop) /\ DOMAIN t = 1 .. n
        <3>1. t \in [1 .. n -> Prop]
            BY <2>2, <2>3
        <3> QED
            BY <3>1
    <2>5. t \in Maps
        BY <1>1, <2>3, <2>4 DEF Maps
    <2> QED
        BY <1>3, <2>1, <2>5
<1>4. CASE \A i \in DOMAIN m : m[i].name # name
    <2>1. PICK p : p = [name |-> name, value |-> value]
        OBVIOUS
    <2>2. p \in Prop /\ p.name = name
        BY <2>1 DEF Prop
    <2>3. PICK t : t = Append(m, p)
        OBVIOUS
    <2>4. Put(m, name, value) = t
        BY <1>4, <2>1, <2>3 DEF Put
    <2>5. /\ t \in Seq(Prop) /\ DOMAIN t = 1 .. (n + 1)
          /\ \A i \in 1 .. n : t[i] = m[i]
          /\ t[n + 1] = p
        BY <1>1, <2>2, <2>3
    <2>6. \A i, j \in 1 .. (n + 1) : t[i].name = t[j].name => i = j
        <3>1. SUFFICES ASSUME NEW i \in 1 .. (n + 1), NEW j \in 1 .. (n + 1), t[i].name = t[j].name
                       PROVE  i = j
            OBVIOUS
        <3>2. CASE i \in 1 .. n /\ j \in 1 .. n
            <4>1. m[i].name = m[j].name
                BY <2>5, <3>1, <3>2
            <4> QED
                BY <1>1, <3>2, <4>1 DEF Maps
        <3>3. CASE i \in 1 .. n /\ j = n + 1
            BY <1>1, <1>4, <2>2, <2>5, <3>1, <3>3
        <3>4. CASE i = n + 1 /\ j \in 1 .. n
            BY <1>1, <1>4, <2>2, <2>5, <3>1, <3>4
        <3>5. CASE i = n + 1 /\ j = n + 1
            BY <3>5
        <3> QED
            BY <3>2, <3>3, <3>4, <3>5
    <2>7. \A i \in 1 .. (n + 1) : t[i].name # <<NoText>>
        <3>1. SUFFICES ASSUME NEW i \in 1 .. (n + 1) PROVE t[i].name # <<NoText>>
            OBVIOUS
        <3>2. CASE i \in 1 .. n
            BY <1>1, <2>5, <3>2 DEF Maps
        <3>3. CASE i = n + 1
            BY <2>2, <2>5, <3>3
        <3> QED
            BY <3>2, <3>3
    <2>8. t \in Maps
        BY <2>5, <2>6, <2>7 DEF Maps
    <2> QED
        BY <2>1, <2>3, <2>4, <2>8
<1> QED
    BY <1>3, <1>4

(* Removing properties leaves a map. *)
LEMMA AtMaps ==
    ASSUME NEW m \in Maps, NEW I \in SUBSET DOMAIN m
    PROVE  At(m, I) \in Maps
<1>1. PICK n \in Nat : m \in Seq(Prop) /\ n = Len(m) /\ DOMAIN m = 1 .. n
    BY DEF Maps
<1>2. I \in SUBSET (1 .. n)
    BY <1>1
<1>3. PICK q : Ascends(q, I) /\ At(m, I) = [k \in 1 .. Cardinality(I) |-> m[q[k]]]
    <2>1. PICK q : Takes(q, At(m, I), m, I)
        BY <1>2, AtFacts
    <2> QED
        BY <2>1 DEF Takes
<1>4. PICK c \in Nat : c = Cardinality(I)
    BY <1>3 DEF Ascends
<1>5. q \in [1 .. c -> I] /\ \A i, j \in 1 .. c : q[i] = q[j] => i = j
    BY <1>3, <1>4 DEF Ascends
<1>6. PICK t : t = At(m, I)
    OBVIOUS
<1>7. t = [k \in 1 .. c |-> m[q[k]]]
    BY <1>3, <1>4, <1>6
<1>8. \A k \in 1 .. c : q[k] \in 1 .. n /\ m[q[k]] \in Prop
    BY <1>1, <1>2, <1>5
<1>9. t \in Seq(Prop) /\ DOMAIN t = 1 .. c /\ \A k \in 1 .. c : t[k] = m[q[k]]
    BY <1>7, <1>8
<1>10. \A i \in 1 .. n : m[i].name # <<NoText>>
    BY <1>1 DEF Maps
<1>11. \A i, j \in 1 .. n : m[i].name = m[j].name => i = j
    BY <1>1 DEF Maps
<1>12. \A i, j \in DOMAIN t : t[i].name = t[j].name => i = j
    BY <1>5, <1>8, <1>9, <1>11
<1>13. \A i \in DOMAIN t : t[i].name # <<NoText>>
    BY <1>8, <1>9, <1>10
<1> QED
    BY <1>6, <1>9, <1>12, <1>13 DEF Maps

(* One entry decoded into a map. *)
DecodeOne(m, e) == IF Len(e) < 2 \/ e[1] = NoText THEN m ELSE Put(m, <<e[1]>>, Tail(e))

(* Decoding an entry yields a map. *)
LEMMA DecodeOneFacts ==
    ASSUME NEW m \in Maps, NEW e \in Seq(STRING)
    PROVE  DecodeOne(m, e) \in Maps
<1>1. CASE Len(e) < 2 \/ e[1] = NoText
    BY <1>1 DEF DecodeOne
<1>2. CASE ~(Len(e) < 2 \/ e[1] = NoText)
    <2>1. Tail(e) \in Seq(STRING) /\ Len(Tail(e)) = Len(e) - 1 /\ Len(e) \in Nat /\ Len(e) >= 2
        BY <1>2
    <2>2. Tail(e) \in Parts
        <3>1. PICK t : t = Tail(e)
            OBVIOUS
        <3>2. t \in Seq(STRING) /\ Len(t) > 0
            BY <2>1, <3>1
        <3>3. t # <<>>
            BY <3>2
        <3> QED
            BY <3>1, <3>2, <3>3 DEF Parts
    <2>3. e[1] \in STRING /\ e[1] # NoText
        BY <1>2, <2>1
    <2>4. <<e[1]>> \in Parts /\ <<e[1]>> # <<NoText>>
        BY <2>3 DEF Parts
    <2>5. Put(m, <<e[1]>>, Tail(e)) \in Maps
        BY <2>2, <2>4, PutFacts
    <2> QED
        BY <1>2, <2>5 DEF DecodeOne
<1> QED
    BY <1>1, <1>2

(* DecodeProps takes one entry after the other. *)
LEMMA DecodeSteps ==
    ASSUME NEW entries \in Seq(Seq(STRING)), NEW n \in Nat, n = Len(entries)
    PROVE  \E h : /\ h[0] = <<>>
                  /\ \A k \in 1 .. n : h[k] = DecodeOne(h[k - 1], entries[k])
                  /\ DecodeProps(entries) = h[n]
<1> DEFINE D == 1 .. n
           g == [i \in D |-> [m \in Maps |-> DecodeOne(m, entries[i])]]
           P(f) == f = [s \in SUBSET D |-> IF s = {} THEN <<>>
                                           ELSE DecodeOne(f[s \ {Max(s)}], entries[Max(s)])]
           it == CHOOSE f : P(f)
<1>1. DOMAIN entries = D /\ \A i \in D : entries[i] \in Seq(STRING)
    OBVIOUS
<1>2. <<>> \in Maps
    BY DEF Maps
<1>3. g \in [D -> [Maps -> Maps]] /\ \A i \in D : \A m \in Maps : g[i][m] = DecodeOne(m, entries[i])
    BY <1>1, DecodeOneFacts
<1> HIDE DEF g
<1>4. PICK f \in [SUBSET D -> Maps] :
        \A s \in SUBSET D : f[s] = IF s = {} THEN <<>> ELSE g[Max(s)][f[s \ {Max(s)}]]
    <2>1. PICK f : IsFoldLeft(f, n, Maps, <<>>, g)
        BY <1>2, <1>3, FoldLeftExists
    <2> QED
        BY <2>1, Zenon DEF IsFoldLeft
<1>5. P(f)
    <2>1. ASSUME NEW s \in SUBSET D
          PROVE  f[s] = IF s = {} THEN <<>> ELSE DecodeOne(f[s \ {Max(s)}], entries[Max(s)])
        <3>1. CASE s = {}
            BY <1>4, <3>1
        <3>2. CASE s # {}
            <4>1. Max(s) \in D
                BY <3>2, MaxFacts
            <4>2. f[s \ {Max(s)}] \in Maps
                BY <1>4
            <4>3. f[s] = g[Max(s)][f[s \ {Max(s)}]]
                BY <1>4, <3>2
            <4> QED
                BY <1>3, <3>2, <4>1, <4>2, <4>3
        <3> QED
            BY <3>1, <3>2
    <2>2. f = [s \in SUBSET D |-> f[s]]
        OBVIOUS
    <2> HIDE DEF D
    <2> QED
        BY <2>1, <2>2
<1>6. P(it)
    <2> HIDE DEF P
    <2> QED
        BY <1>5, Zenon
<1>7. DecodeProps(entries) = it[D]
    BY <1>1, Zenon DEF DecodeProps, FoldLeft, MapThenFoldSet, DecodeOne
<1>8. \A s \in SUBSET D : it[s] = IF s = {} THEN <<>> ELSE DecodeOne(it[s \ {Max(s)}], entries[Max(s)])
    <2> HIDE DEF it
    <2> QED
        BY <1>6, Zenon
<1> HIDE DEF it, P
<1> DEFINE h == [k \in 0 .. n |-> it[1 .. k]]
<1>9. h[0] = <<>>
    <2>1. 1 .. 0 = {} /\ {} \in SUBSET D /\ 0 \in 0 .. n
        OBVIOUS
    <2> QED
        BY <1>8, <2>1, Zenon
<1>10. ASSUME NEW k \in 1 .. n PROVE h[k] = DecodeOne(h[k - 1], entries[k])
    <2>1. /\ 1 .. k \in SUBSET D /\ 1 .. k # {}
          /\ Max(1 .. k) = k /\ (1 .. k) \ {k} = 1 .. (k - 1) 
        BY UpTo
    <2>5. k \in 0 .. n /\ k - 1 \in 0 .. n
        OBVIOUS
    <2>2. it[1 .. k] = DecodeOne(it[(1 .. k) \ {Max(1 .. k)}], entries[Max(1 .. k)])
        BY <1>8, <2>1, Zenon
    <2>3. it[1 .. k] = DecodeOne(it[1 .. (k - 1)], entries[k])
        BY <2>1, <2>2, Zenon
    <2>4. h[k] = it[1 .. k] /\ h[k - 1] = it[1 .. (k - 1)]
        BY <2>5, Zenon
    <2> QED
        BY <2>3, <2>4, Zenon
<1>11. DecodeProps(entries) = h[n]
    <2>1. n \in 0 .. n
        OBVIOUS
    <2> QED
        BY <1>7, <2>1, Zenon
<1> HIDE DEF h
<1> QED
    BY <1>9, <1>10, <1>11, Zenon

(* What a list of entries decodes to is a map. *)
LEMMA DecodeMaps ==
    ASSUME NEW entries \in Seq(Seq(STRING))
    PROVE  DecodeProps(entries) \in Maps
<1>1. PICK n \in Nat : n = Len(entries)
    OBVIOUS
<1>2. PICK h : /\ h[0] = <<>>
               /\ \A k \in 1 .. n : h[k] = DecodeOne(h[k - 1], entries[k])
               /\ DecodeProps(entries) = h[n]
    BY <1>1, DecodeSteps
<1> DEFINE S == {k \in Nat : k <= n => h[k] \in Maps}
<1>3. 0 \in S
    <2>1. <<>> \in Maps
        BY DEF Maps
    <2> QED
        BY <1>2, <2>1
<1>4. ASSUME NEW k \in Nat, k \in S PROVE k + 1 \in S
    <2>1. SUFFICES ASSUME k + 1 <= n PROVE h[k + 1] \in Maps
        OBVIOUS
    <2>2. h[k] \in Maps /\ k + 1 \in 1 .. n /\ (k + 1) - 1 = k /\ entries[k + 1] \in Seq(STRING)
        BY <1>1, <1>4, <2>1
    <2>3. h[k + 1] = DecodeOne(h[k], entries[k + 1])
        BY <1>2, <2>2
    <2> QED
        BY <2>2, <2>3, DecodeOneFacts
<1>5. \A k \in Nat : k \in S
    <2> HIDE DEF S
    <2> QED
        BY <1>3, <1>4, NatInduct
<1> QED
    BY <1>2, <1>5

(* The entries of a map. *)
LEMMA EntriesFacts ==
    ASSUME NEW m \in Maps
    PROVE  /\ Entries(m) = [i \in DOMAIN m |-> m[i].name \o m[i].value]
           /\ Entries(m) \in Seq(Seq(STRING))
<1>1. PICK n \in Nat : m \in Seq(Prop) /\ n = Len(m) /\ DOMAIN m = 1 .. n
    BY DEF Maps
<1>2. {i \in DOMAIN m : m[i].name # <<NoText>>} = DOMAIN m
    BY DEF Maps
<1>3. At(m, DOMAIN m) = m
    BY <1>1, AtAll
<1>4. Keep(m, LAMBDA e : e.name # <<NoText>>) = m
    BY <1>2, <1>3, Zenon DEF Keep
<1>5. Entries(m) = [i \in DOMAIN m |-> m[i].name \o m[i].value]
    BY <1>4, Zenon DEF Entries
<1>6. \A i \in 1 .. n : m[i].name \o m[i].value \in Seq(STRING)
    <2>1. SUFFICES ASSUME NEW i \in 1 .. n PROVE m[i].name \o m[i].value \in Seq(STRING)
        OBVIOUS
    <2>2. m[i] \in Prop
        BY <1>1
    <2>3. m[i].name \in Seq(STRING) /\ m[i].value \in Seq(STRING)
        BY <2>2 DEF Prop, Parts
    <2> QED
        BY <2>3
<1>7. PICK t : t = Entries(m)
    OBVIOUS
<1>8. t \in [1 .. n -> Seq(STRING)]
    BY <1>1, <1>5, <1>6, <1>7
<1>9. t \in Seq(Seq(STRING))
    BY <1>8
<1> QED
    BY <1>5, <1>7, <1>9

(* The elements of two lists put together. *)
LEMMA ConcatFacts ==
    ASSUME NEW X, NEW a \in Seq(X), NEW b \in Seq(X)
    PROVE  /\ a \o b \in Seq(X) /\ Len(a \o b) = Len(a) + Len(b)
           /\ \A i \in 1 .. (Len(a) + Len(b)) : (a \o b)[i] = IF i <= Len(a) THEN a[i] ELSE b[i - Len(a)]
OBVIOUS

(* A list behind one element. *)
LEMMA ConsFacts ==
    ASSUME NEW X, NEW a \in Seq(X), Len(a) = 1, NEW b \in Seq(X), b # <<>>
    PROVE  /\ Len(a \o b) >= 2 /\ (a \o b)[1] = a[1]
           /\ a = <<a[1]>> /\ Tail(a \o b) = b
<1>1. PICK n \in Nat : n = Len(b) /\ n > 0
    OBVIOUS
<1>2. /\ a \o b \in Seq(X) /\ Len(a \o b) = 1 + n
      /\ \A i \in 1 .. (1 + n) : (a \o b)[i] = IF i <= 1 THEN a[i] ELSE b[i - 1]
    <2>1. /\ a \o b \in Seq(X) /\ Len(a \o b) = Len(a) + Len(b)
          /\ \A i \in 1 .. (Len(a) + Len(b)) : (a \o b)[i] = IF i <= Len(a) THEN a[i] ELSE b[i - Len(a)]
        BY ConcatFacts
    <2> QED
        BY <1>1, <2>1, Zenon
<1>3. ASSUME NEW e, e \in Seq(X), Len(e) = 1 + n,
             \A i \in 1 .. (1 + n) : e[i] = IF i <= 1 THEN a[i] ELSE b[i - 1]
      PROVE  Len(e) >= 2 /\ e[1] = a[1] /\ Tail(e) = b
    <2>1. PICK t : t = Tail(e)
        OBVIOUS
    <2>2. t \in Seq(X) /\ Len(t) = n /\ \A i \in 1 .. n : t[i] = e[i + 1]
        BY <1>1, <1>3, <2>1
    <2>3. \A i \in 1 .. n : e[i + 1] = b[i]
        <3>1. SUFFICES ASSUME NEW i \in 1 .. n PROVE e[i + 1] = b[i]
            OBVIOUS
        <3>2. i + 1 \in 1 .. (1 + n) /\ ~(i + 1 <= 1) /\ (i + 1) - 1 = i
            OBVIOUS
        <3>3. e[i + 1] = b[(i + 1) - 1]
            BY <1>3, <3>2, Zenon
        <3> QED
            BY <3>2, <3>3
    <2>4. t = b
        BY <1>1, <2>2, <2>3
    <2>5. e[1] = a[1]
        BY <1>1, <1>3
    <2> QED
        BY <1>1, <1>3, <2>1, <2>4, <2>5
<1>4. a = <<a[1]>>
    OBVIOUS
<1> QED
    BY <1>2, <1>3, <1>4, Zenon

(* An entry of a name without a colon is cut at the end of the name. *)
LEMMA CutFacts ==
    ASSUME NEW p \in Prop, Len(p.name) = 1, p.name # <<NoText>>,
           NEW e, e = p.name \o p.value
    PROVE  Len(e) >= 2 /\ e[1] # NoText /\ <<e[1]>> = p.name /\ Tail(e) = p.value
<1>1. PICK a \in Seq(STRING) : a = p.name /\ Len(a) = 1
    BY DEF Prop, Parts
<1>2. PICK b \in Seq(STRING) : b = p.value /\ b # <<>>
    BY DEF Prop, Parts
<1>3. Len(a \o b) >= 2 /\ (a \o b)[1] = a[1] /\ a = <<a[1]>> /\ Tail(a \o b) = b
    BY <1>1, <1>2, ConsFacts
<1>4. e = a \o b
    BY <1>1, <1>2
<1> QED
    BY <1>1, <1>2, <1>3, <1>4, Zenon

(* The entries of a map whose names hold no colon decode to the map. *)
LEMMA RoundTrip ==
    ASSUME NEW m \in Maps, \A i \in DOMAIN m : Len(m[i].name) = 1
    PROVE  DecodeProps(Entries(m)) = m
<1>1. PICK n \in Nat : m \in Seq(Prop) /\ n = Len(m) /\ DOMAIN m = 1 .. n
    BY DEF Maps
<1>2. PICK entries \in Seq(Seq(STRING)) : entries = Entries(m)
    BY EntriesFacts
<1>3. entries = [i \in 1 .. n |-> m[i].name \o m[i].value]
    BY <1>1, <1>2, EntriesFacts
<1>4. n = Len(entries)
    BY <1>3
<1>5. PICK h : /\ h[0] = <<>>
               /\ \A k \in 1 .. n : h[k] = DecodeOne(h[k - 1], entries[k])
               /\ DecodeProps(entries) = h[n]
    BY <1>4, DecodeSteps
<1> DEFINE S == {k \in Nat : k <= n => h[k] = SubSeq(m, 1, k)}
<1>6. 0 \in S
    <2>1. SubSeq(m, 1, 0) = <<>>
        BY <1>1
    <2> QED
        BY <1>5, <2>1
<1>7. ASSUME NEW j \in Nat, j \in S PROVE j + 1 \in S
    <2>1. SUFFICES ASSUME j + 1 <= n PROVE h[j + 1] = SubSeq(m, 1, j + 1)
        OBVIOUS
    <2>2. j + 1 \in 1 .. n /\ (j + 1) - 1 = j /\ h[j] = SubSeq(m, 1, j) /\ j \in 0 .. n
        BY <1>7, <2>1
    <2>3. PICK p \in Prop : p = m[j + 1]
        BY <1>1, <2>2
    <2>4. PICK e : e = entries[j + 1]
        OBVIOUS
    <2>5. e = p.name \o p.value
        BY <1>3, <2>2, <2>3, <2>4
    <2>6. Len(p.name) = 1 /\ p.name # <<NoText>>
        BY <1>1, <2>2, <2>3 DEF Maps
    <2>7. Len(e) >= 2 /\ e[1] # NoText /\ <<e[1]>> = p.name /\ Tail(e) = p.value
        BY <2>5, <2>6, CutFacts
    <2>8. PICK t : t = SubSeq(m, 1, j)
        OBVIOUS
    <2>9. t \in Seq(Prop) /\ DOMAIN t = 1 .. j /\ Len(t) = j /\ \A i \in 1 .. j : t[i] = m[i]
        BY <1>1, <2>2, <2>8
    <2>10. \A i \in 1 .. j : i \in DOMAIN m /\ j + 1 \in DOMAIN m /\ i # j + 1
        BY <1>1, <2>2
    <2>11. t \in Maps /\ \A i \in DOMAIN t : t[i].name # p.name
        BY <2>3, <2>9, <2>10 DEF Maps
    <2>12. h[j + 1] = Put(t, p.name, p.value)
        <3>1. h[j + 1] = DecodeOne(t, e)
            BY <1>5, <2>2, <2>4, <2>8
        <3>2. Len(e) \in Nat
            BY <1>2, <1>4, <2>2, <2>4
        <3>3. ~(Len(e) < 2)
            BY <2>7, <3>2
        <3> QED
            BY <2>7, <3>1, <3>3 DEF DecodeOne
    <2>13. p.name \in Parts /\ p.value \in Parts /\ p = [name |-> p.name, value |-> p.value]
        BY DEF Prop
    <2>14. Put(t, p.name, p.value) = Append(t, p)
        BY <2>6, <2>11, <2>13, PutFacts
    <2>15. SubSeq(m, 1, j + 1) = Append(t, p)
        BY <1>1, <2>2, <2>3, <2>8, <2>9
    <2> QED
        BY <2>12, <2>14, <2>15
<1>8. \A k \in Nat : k \in S
    <2> HIDE DEF S
    <2> QED
        BY <1>6, <1>7, NatInduct
<1>9. h[n] = SubSeq(m, 1, n)
    BY <1>8
<1>10. SubSeq(m, 1, n) = m
    BY <1>1
<1> QED
    BY <1>2, <1>5, <1>9, <1>10

(* Parameters whose properties are lists of texts. *)
ParamsOK(p) == \A scope \in Scopes : p[scope] \in Seq(Seq(STRING))

(* Filters: a value for every key, the properties maps, and no direction   *)
(* without a column.                                                       *)
FiltersOK(f) ==
    /\ f = [k \in FilterKeys |-> f[k]]
    /\ \A scope \in Scopes : f[scope] \in Maps
    /\ f["sort"] = NoText => f["dir"] = NoText

(* The keys that are not scopes. *)
LEMMA KeyFacts ==
    /\ Scopes \subseteq FilterKeys
    /\ {"sort", "dir", "from", "to", "channel", "path", "metrics"} \subseteq FilterKeys \ Scopes
BY DEF FilterKeys, Text, Dates, Scopes

(* Decoded parameters are filters. *)
LEMMA QueryOK ==
    ASSUME NEW p, ParamsOK(p)
    PROVE  FiltersOK(queryToFilters(p))
<1>1. PICK f : f = queryToFilters(p)
    OBVIOUS
<1>2. f = [k \in FilterKeys |->
             IF k \in Scopes THEN DecodeProps(p[k])
             ELSE IF k = "dir" /\ p["sort"] = NoText THEN NoText ELSE p[k]]
    BY <1>1 DEF queryToFilters
<1>3. f = [k \in FilterKeys |-> f[k]]
    BY <1>2
<1>4. \A scope \in Scopes : f[scope] \in Maps
    <2>1. \A scope \in Scopes : f[scope] = DecodeProps(p[scope])
        BY <1>2, KeyFacts
    <2>2. \A scope \in Scopes : p[scope] \in Seq(Seq(STRING))
        BY DEF ParamsOK
    <2> QED
        BY <2>1, <2>2, DecodeMaps
<1>5. f["sort"] = NoText => f["dir"] = NoText
    <2>1. "sort" \in FilterKeys /\ "sort" \notin Scopes /\ "dir" \in FilterKeys /\ "dir" \notin Scopes /\ "sort" # "dir"
        BY KeyFacts
    <2>2. f["sort"] = p["sort"]
        BY <1>2, <2>1
    <2>3. f["dir"] = IF p["sort"] = NoText THEN NoText ELSE p["dir"]
        BY <1>2, <2>1
    <2> QED
        BY <2>2, <2>3
<1> QED
    BY <1>1, <1>3, <1>4, <1>5 DEF FiltersOK

(* Encoded filters are parameters. *)
LEMMA EncodedOK ==
    ASSUME NEW f, FiltersOK(f)
    PROVE  ParamsOK(filtersToQuery(f))
<1>1. \A scope \in Scopes : filtersToQuery(f)[scope] = Entries(f[scope])
    BY KeyFacts DEF filtersToQuery
<1>2. \A scope \in Scopes : f[scope] \in Maps
    BY DEF FiltersOK
<1>3. \A scope \in Scopes : Entries(f[scope]) \in Seq(Seq(STRING))
    BY <1>2, EntriesFacts
<1> QED
    BY <1>1, <1>3 DEF ParamsOK

(* Filters without a colon in a name survive the encoding in the hash and  *)
(* the decoding of it.                                                     *)
LEMMA SameTrip ==
    ASSUME NEW f, FiltersOK(f), ColonFree(f)
    PROVE  SameFilters(f, queryToFilters(filtersToQuery(f)))
<1>1. PICK q : q = filtersToQuery(f)
    OBVIOUS
<1>2. \A k \in FilterKeys : q[k] = IF k \in Scopes THEN Entries(f[k]) ELSE f[k]
    BY <1>1 DEF filtersToQuery
<1>3. PICK g : g = queryToFilters(q)
    OBVIOUS
<1>4. \A k \in FilterKeys : g[k] = IF k \in Scopes THEN DecodeProps(q[k])
                                   ELSE IF k = "dir" /\ q["sort"] = NoText THEN NoText ELSE q[k]
    BY <1>3 DEF queryToFilters
<1>5. ASSUME NEW scope \in Scopes PROVE g[scope] = f[scope]
    <2>1. f[scope] \in Maps /\ \A i \in DOMAIN f[scope] : Len(f[scope][i].name) = 1
        BY DEF FiltersOK, ColonFree
    <2>2. DecodeProps(Entries(f[scope])) = f[scope]
        BY <2>1, RoundTrip
    <2>3. scope \in FilterKeys
        BY KeyFacts
    <2>4. q[scope] = Entries(f[scope])
        BY <1>2, <2>3
    <2>5. g[scope] = DecodeProps(q[scope])
        BY <1>4, <2>3
    <2> QED
        BY <2>2, <2>4, <2>5
<1>6. ASSUME NEW k \in FilterKeys \ Scopes PROVE g[k] = f[k]
    <2>1. q[k] = f[k] /\ q["sort"] = f["sort"]
        BY <1>2, KeyFacts
    <2>2. g[k] = IF k = "dir" /\ q["sort"] = NoText THEN NoText ELSE q[k]
        BY <1>4
    <2> QED
        BY <2>1, <2>2 DEF FiltersOK
<1> QED
    BY <1>1, <1>3, <1>5, <1>6 DEF SameFilters

(* Filters that are the same as the same are the same. *)
LEMMA SameTransitive ==
    ASSUME NEW a, NEW b, NEW c, SameFilters(a, b), SameFilters(b, c)
    PROVE  SameFilters(a, c)
BY DEF SameFilters

(* The effects leave filters. *)
LEMMA SettleOK ==
    ASSUME NEW s, DOMAIN s = Fields, FiltersOK(s.filters), ParamsOK(s.hash.params)
    PROVE  FiltersOK(Settle(s).filters)
<1>1. PICK u : u = FiltersEffect(s)
    OBVIOUS
<1>2. DOMAIN u = Fields
    BY <1>1, FiltersEffectFacts
<1>3. FiltersOK(u.filters)
    <2>1. PICK f : f = queryToFilters(s.hash.params)
        OBVIOUS
    <2>2. FiltersOK(f)
        BY <2>1, QueryOK
    <2>3. u = s \/ u = [s EXCEPT !.filters = f]
        BY <1>1, <2>1 DEF FiltersEffect
    <2>4. u.filters = s.filters \/ u.filters = f
        BY <2>3 DEF Fields
    <2> QED
        BY <2>2, <2>4
<1>4. RangeEffect(u).filters = u.filters
    BY <1>2, RangeEffectFacts
<1> QED
    BY <1>1, <1>3, <1>4 DEF Settle

(* So do the writes. *)
LEMMA WriteOK ==
    ASSUME NEW s, DOMAIN s = Fields
    PROVE  /\ \A h : FiltersOK(s.filters) /\ ParamsOK(h.params) => FiltersOK(WriteHash(s, h).filters)
           /\ \A f : FiltersOK(f) /\ ParamsOK(s.hash.params) => FiltersOK(WriteFilters(s, f).filters)
<1>1. ASSUME NEW h, FiltersOK(s.filters), ParamsOK(h.params) PROVE FiltersOK(WriteHash(s, h).filters)
    <2>1. PICK a : a = [s EXCEPT !.hash = h]
        OBVIOUS
    <2>2. DOMAIN a = Fields /\ a.hash = h /\ a.filters = s.filters
        BY <2>1 DEF Fields
    <2>3. WriteHash(s, h) = Settle(a)
        BY <2>1 DEF WriteHash, Settle
    <2> QED
        BY <1>1, <2>2, <2>3, SettleOK
<1>2. ASSUME NEW f, FiltersOK(f), ParamsOK(s.hash.params) PROVE FiltersOK(WriteFilters(s, f).filters)
    <2>1. PICK a : a = [s EXCEPT !.filters = f]
        OBVIOUS
    <2>2. DOMAIN a = Fields /\ a.hash = s.hash /\ a.filters = f
        BY <2>1 DEF Fields
    <2>3. WriteFilters(s, f) = Settle(a)
        BY <2>1 DEF WriteFilters, Settle
    <2> QED
        BY <1>2, <2>2, <2>3, SettleOK
<1> QED
    BY <1>1, <1>2

(* updateFilters ends with the filters it was asked for, although the      *)
(* first write is taken back on the way.                                   *)
LEMMA UpdateOK ==
    ASSUME NEW s, DOMAIN s = Fields, ValidRange(s), Parsed(s.hash), ParamsOK(s.hash.params),
           NEW m, FiltersOK(m)
    PROVE  /\ FiltersOK(updateFilters(s, m).filters)
           /\ ParamsOK(updateFilters(s, m).hash.params)
           /\ ColonFree(m) => SameFilters(m, updateFilters(s, m).filters)
<1>1. PICK t : t = WriteFilters(s, m)
    OBVIOUS
<1>2. DOMAIN t = Fields /\ t.hash = s.hash /\ FiltersOK(t.filters)
    BY <1>1, WriteFacts, WriteOK
<1>3. PICK q : q = filtersToQuery(m)
    OBVIOUS
<1>4. ParamsOK(q)
    BY <1>3, EncodedOK
<1>5. PICK h : h = [s.hash EXCEPT !.params = q]
    OBVIOUS
<1>6. h.params = q
    BY <1>5 DEF Parsed, IsUrl
<1>7. PICK u : u = updateFilters(s, m)
    OBVIOUS
<1>8. u = WriteHash(t, h)
    BY <1>1, <1>2, <1>3, <1>5, <1>7 DEF updateFilters, ReplaceParams
<1>9. FiltersOK(u.filters)
    BY <1>2, <1>4, <1>6, <1>8, WriteOK
<1>10. u.hash = h /\ Agree(u)
    BY <1>3, <1>5, <1>7, UpdateFacts
<1>11. SameFilters(queryToFilters(q), u.filters)
    BY <1>6, <1>10 DEF Agree
<1>12. ColonFree(m) => SameFilters(m, u.filters)
    BY <1>3, <1>11, SameTrip, SameTransitive
<1> QED
    BY <1>4, <1>6, <1>7, <1>9, <1>10, <1>12

(* A key that is neither a scope nor part of the sort may get any value. *)
LEMMA ExceptOK ==
    ASSUME NEW f, FiltersOK(f), NEW k \in {"channel", "path", "metrics", "from", "to"}, NEW v
    PROVE  FiltersOK([f EXCEPT ![k] = v])
<1>1. PICK g : g = [f EXCEPT ![k] = v]
    OBVIOUS
<1>2. k \in FilterKeys /\ k \notin Scopes /\ k # "sort" /\ k # "dir"
    BY KeyFacts
<1>3. g = [x \in FilterKeys |-> IF x = k THEN v ELSE f[x]]
    BY <1>1, <1>2 DEF FiltersOK
<1>4. g = [x \in FilterKeys |-> g[x]]
    BY <1>3
<1>5. \A x \in FilterKeys : x # k => g[x] = f[x]
    BY <1>3
<1>6. \A scope \in Scopes : g[scope] = f[scope]
    BY <1>2, <1>5, KeyFacts
<1>7. g["sort"] = f["sort"] /\ g["dir"] = f["dir"]
    BY <1>2, <1>5, KeyFacts
<1> QED
    BY <1>1, <1>4, <1>6, <1>7 DEF FiltersOK

(* A scope may get any map. *)
LEMMA ScopeOK ==
    ASSUME NEW f, FiltersOK(f), NEW scope \in Scopes, NEW m \in Maps
    PROVE  FiltersOK([f EXCEPT ![scope] = m])
<1>1. PICK g : g = [f EXCEPT ![scope] = m]
    OBVIOUS
<1>2. scope \in FilterKeys /\ "sort" \in FilterKeys /\ "dir" \in FilterKeys
      /\ scope # "sort" /\ scope # "dir"
    BY KeyFacts
<1>3. g = [x \in FilterKeys |-> IF x = scope THEN m ELSE f[x]]
    BY <1>1, <1>2 DEF FiltersOK
<1>4. g = [x \in FilterKeys |-> g[x]]
    BY <1>3
<1>5. \A x \in Scopes : g[x] \in Maps
    BY <1>3, KeyFacts DEF FiltersOK
<1>6. g["sort"] = f["sort"] /\ g["dir"] = f["dir"]
    BY <1>2, <1>3
<1> QED
    BY <1>1, <1>4, <1>5, <1>6 DEF FiltersOK

(* A property is put in and taken out. *)
LEMMA PropOK ==
    ASSUME NEW f, FiltersOK(f), NEW scope \in Scopes
    PROVE  /\ \A name \in Parts, value \in Parts :
                 name # <<NoText>> => FiltersOK(WithProp(f, scope, name, value))
           /\ \A name : FiltersOK(WithoutProp(f, scope, name))
<1>1. f[scope] \in Maps
    BY DEF FiltersOK
<1>2. ASSUME NEW name \in Parts, NEW value \in Parts, name # <<NoText>>
      PROVE  FiltersOK(WithProp(f, scope, name, value))
    <2>1. Put(f[scope], name, value) \in Maps
        BY <1>1, <1>2, PutFacts
    <2>2. PICK m \in Maps : m = Put(f[scope], name, value)
        BY <2>1
    <2>3. WithProp(f, scope, name, value) = [f EXCEPT ![scope] = m]
        BY <2>2 DEF WithProp
    <2>4. FiltersOK([f EXCEPT ![scope] = m])
        BY ScopeOK
    <2> QED
        BY <2>3, <2>4
<1>3. ASSUME NEW name PROVE FiltersOK(WithoutProp(f, scope, name))
    <2>1. PICK I : I = {i \in DOMAIN f[scope] : f[scope][i].name # name}
        OBVIOUS
    <2>2. I \in SUBSET DOMAIN f[scope]
        BY <2>1
    <2>3. Delete(f[scope], name) = At(f[scope], I)
        BY <2>1, Zenon DEF Delete, Keep
    <2>4. Delete(f[scope], name) \in Maps
        BY <1>1, <2>2, <2>3, AtMaps
    <2>5. PICK m \in Maps : m = Delete(f[scope], name)
        BY <2>4
    <2>6. WithoutProp(f, scope, name) = [f EXCEPT ![scope] = m]
        BY <2>5 DEF WithoutProp
    <2>7. FiltersOK([f EXCEPT ![scope] = m])
        BY ScopeOK
    <2> QED
        BY <2>6, <2>7
<1> QED
    BY <1>2, <1>3

(* The cycle of a column header. *)
LEMMA SortOK ==
    ASSUME NEW f, FiltersOK(f), NEW column, column # NoText
    PROVE  FiltersOK(CycledSort(f, column))
<1>1. PICK g : g = CycledSort(f, column)
    OBVIOUS
<1>2. "sort" \in FilterKeys /\ "dir" \in FilterKeys /\ "sort" \notin Scopes /\ "dir" \notin Scopes
    BY KeyFacts
<1>3. f = [k \in FilterKeys |-> f[k]]
    BY DEF FiltersOK
<1>4. PICK a, b : /\ g = [k \in FilterKeys |-> IF k = "sort" THEN a ELSE IF k = "dir" THEN b ELSE f[k]]
                  /\ a = NoText => b = NoText
    <2>1. CASE f["sort"] # column
        <3>1. g = [k \in FilterKeys |-> IF k = "sort" THEN column ELSE IF k = "dir" THEN "desc" ELSE f[k]]
            BY <1>1, <1>2, <1>3, <2>1 DEF CycledSort
        <3> QED
            BY <3>1
    <2>2. CASE f["sort"] = column /\ f["dir"] = "desc"
        <3>1. g = [k \in FilterKeys |-> IF k = "sort" THEN column ELSE IF k = "dir" THEN "asc" ELSE f[k]]
            BY <1>1, <1>2, <1>3, <2>2 DEF CycledSort
        <3> QED
            BY <3>1
    <2>3. CASE f["sort"] = column /\ f["dir"] # "desc"
        <3>1. g = [k \in FilterKeys |-> IF k = "sort" THEN NoText ELSE IF k = "dir" THEN NoText ELSE f[k]]
            BY <1>1, <1>2, <1>3, <2>3 DEF CycledSort
        <3> QED
            BY <3>1
    <2> QED
        BY <2>1, <2>2, <2>3
<1>5. g = [k \in FilterKeys |-> g[k]]
    BY <1>4
<1>6. \A scope \in Scopes : g[scope] \in Maps
    BY <1>2, <1>4, KeyFacts DEF FiltersOK
<1>7. g["sort"] = a /\ g["dir"] = b
    BY <1>2, <1>4
<1> QED
    BY <1>1, <1>4, <1>5, <1>6, <1>7 DEF FiltersOK

(* The empty filters. *)
LEMMA EmptyOK == FiltersOK(EmptyFilters)
<1>1. EmptyFilters = [k \in FilterKeys |-> EmptyFilters[k]]
    BY DEF EmptyFilters
<1>2. <<>> \in Maps
    BY DEF Maps
<1>3. \A scope \in Scopes : scope \notin Text /\ scope \notin Dates
    BY DEF Scopes, Text, Dates
<1>4. \A scope \in Scopes : EmptyFilters[scope] = <<>>
    BY <1>3, KeyFacts DEF EmptyFilters
<1>5. EmptyFilters["dir"] = NoText
    BY KeyFacts DEF EmptyFilters, Text
<1> QED
    BY <1>1, <1>2, <1>4, <1>5 DEF FiltersOK

(* The inductive strengthening of AskedIsShown: the filters are filters    *)
(* and every URL of the history carries parameters.                        *)
HistOK == \A i \in DOMAIN hist : ParamsOK(hist[i].params)

AskedInv ==
    /\ FiltersOK(sig.filters) /\ ParamsOK(sig.hash.params)
    /\ HistOK
    /\ AskedIsShown

(* A push and a replacement keep the history's parameters. *)
LEMMA HistStepOK ==
    ASSUME HistInv, HistOK, NEW url, ParamsOK(url.params),
           Push(url) \/ hist' = [hist EXCEPT ![pos] = url]
    PROVE  HistOK'
<1>1. CASE hist' = [hist EXCEPT ![pos] = url]
    BY <1>1 DEF HistOK
<1>2. CASE Push(url)
    <2>1. PICK S : hist \in Seq(S) /\ pos \in 1 .. Len(hist)
        BY DEF HistInv
    <2>2. PICK h : h = SubSeq(hist, 1, pos)
        OBVIOUS
    <2>3. h \in Seq(S) /\ Len(h) = pos /\ \A i \in 1 .. pos : h[i] = hist[i]
        BY <2>1, <2>2
    <2>4. PICK T : T = S \cup {url}
        OBVIOUS
    <2>5. h \in Seq(T) /\ url \in T
        BY <2>3, <2>4
    <2>6. hist' = Append(h, url)
        BY <1>2, <2>2 DEF Push
    <2>7. /\ DOMAIN hist' = 1 .. (pos + 1)
          /\ \A i \in 1 .. pos : hist'[i] = hist[i]
          /\ hist'[pos + 1] = url
        BY <2>1, <2>3, <2>5, <2>6
    <2>8. ASSUME NEW i \in 1 .. (pos + 1) PROVE ParamsOK(hist'[i].params)
        <3>1. CASE i = pos + 1
            BY <2>7, <3>1
        <3>2. CASE i # pos + 1
            <4>1. i \in 1 .. pos /\ i \in DOMAIN hist
                BY <2>1, <3>2
            <4> QED
                BY <2>7, <4>1 DEF HistOK
        <3> QED
            BY <3>1, <3>2
    <2> QED
        BY <2>7, <2>8 DEF HistOK
<1> QED
    BY <1>1, <1>2

(* The first signals of a page. *)
LEMMA BootOK ==
    ASSUME NEW url, IsUrl(url), ParamsOK(url.params), NEW day
    PROVE  LET s == BootSignals(url, day)
           IN FiltersOK(s.filters) /\ ParamsOK(s.hash.params)
<1>1. parseHash(url).params = url.params
    BY DEF parseHash, IsUrl
<1>2. BootSignals(url, day).filters = queryToFilters(url.params)
    BY <1>1 DEF BootSignals
<1>3. BootSignals(url, day).hash.params = url.params
    BY <1>1 DEF BootSignals
<1> QED
    BY <1>2, <1>3, QueryOK

(* The filters asked for are in force when the page opens. *)
LEMMA AskedInit == Init => AskedInv
<1> SUFFICES ASSUME Init PROVE AskedInv
    OBVIOUS
<1>1. PICK url \in Links : hist = <<url>> /\ sig = BootSignals(url, FirstDay) /\ asked = sig.filters
    BY DEF Init
<1>2. IsUrl(url) /\ ParamsOK(url.params)
    BY UrlConstants DEF IsUrl, ParamsOK
<1>3. FiltersOK(sig.filters) /\ ParamsOK(sig.hash.params)
    BY <1>1, <1>2, BootOK
<1>4. HistOK
    BY <1>1, <1>2 DEF HistOK
<1>5. AskedIsShown
    BY <1>1, SameReflexive DEF AskedIsShown
<1> QED
    BY <1>3, <1>4, <1>5 DEF AskedInv

(* A control: the filters in force are those it asks for. *)
LEMMA AskedUpdate ==
    ASSUME UrlInv, AskedInv, NEW wanted, FiltersOK(wanted), Apply(updateFilters(sig, wanted), wanted)
    PROVE  AskedInv'
<1>1. DOMAIN sig = Fields /\ ValidRange(sig) /\ Parsed(sig.hash)
    BY DEF UrlInv, SigInv, Ranged, ValidRange
<1>2. PICK s : s = updateFilters(sig, wanted)
    OBVIOUS
<1>3. FiltersOK(s.filters) /\ ParamsOK(s.hash.params) /\ (ColonFree(wanted) => SameFilters(wanted, s.filters))
    BY <1>1, <1>2, UpdateOK DEF AskedInv
<1>4. sig' = s /\ hist' = [hist EXCEPT ![pos] = s.hash] /\ asked' = wanted
    BY <1>2 DEF Apply
<1>5. HistOK'
    BY <1>3, <1>4, HistStepOK DEF UrlInv, AskedInv
<1>6. AskedIsShown'
    BY <1>3, <1>4 DEF AskedIsShown
<1> QED
    BY <1>3, <1>4, <1>5, <1>6 DEF AskedInv

(* The date picker. *)
LEMMA AskedRange ==
    ASSUME UrlInv, AskedInv, NEW r, ApplyRange(r)
    PROVE  AskedInv'
<1>1. CASE isValidIrstRange(r.from, r.to)
    <2>1. PICK m : m = [sig.filters EXCEPT !["from"] = r.from, !["to"] = r.to]
        OBVIOUS
    <2>2. FiltersOK(m)
        <3>1. PICK g : g = [sig.filters EXCEPT !["from"] = r.from]
            OBVIOUS
        <3>2. FiltersOK(g)
            BY <3>1, ExceptOK DEF AskedInv
        <3>3. m = [g EXCEPT !["to"] = r.to]
            BY <2>1, <3>1
        <3>4. FiltersOK([g EXCEPT !["to"] = r.to])
            BY <3>2, ExceptOK
        <3> QED
            BY <3>3, <3>4
    <2>3. PICK a : a = [sig EXCEPT !.range = r]
        OBVIOUS
    <2>4. DOMAIN a = Fields /\ a.hash = sig.hash /\ a.filters = sig.filters /\ a.range = r
        BY <2>3 DEF Fields, UrlInv, SigInv
    <2>5. PICK b : b = RangeEffect(a)
        OBVIOUS
    <2>6. DOMAIN b = Fields /\ b.hash = sig.hash /\ ValidRange(b)
        <3>1. /\ DOMAIN b = Fields /\ b.hash = a.hash
              /\ isValidIrstRange(a.filters["from"], a.filters["to"])
                   => b.range = Window(a.filters["from"], a.filters["to"])
              /\ ~isValidIrstRange(a.filters["from"], a.filters["to"]) => b.range = a.range
            BY <2>4, <2>5, RangeEffectFacts
        <3> QED
            BY <1>1, <2>4, <3>1 DEF ValidRange, Window
    <2>7. PICK s : s = updateFilters(b, m)
        OBVIOUS
    <2>8. setRange(sig, r) = s
        BY <1>1, <2>1, <2>3, <2>5, <2>7 DEF setRange
    <2>9. FiltersOK(s.filters) /\ ParamsOK(s.hash.params) /\ (ColonFree(m) => SameFilters(m, s.filters))
        BY <2>2, <2>6, <2>7, UpdateOK DEF UrlInv, SigInv, AskedInv
    <2>10. sig' = s /\ hist' = [hist EXCEPT ![pos] = s.hash] /\ asked' = m
        BY <1>1, <2>1, <2>8 DEF ApplyRange
    <2>11. HistOK'
        BY <2>9, <2>10, HistStepOK DEF UrlInv, AskedInv
    <2>12. AskedIsShown'
        BY <2>9, <2>10 DEF AskedIsShown
    <2> QED
        BY <2>9, <2>10, <2>11, <2>12 DEF AskedInv
<1>2. CASE ~isValidIrstRange(r.from, r.to)
    <2>1. UNCHANGED <<sig, hist, asked>>
        BY <1>2 DEF ApplyRange, setRange
    <2> QED
        BY <2>1 DEF AskedInv, HistOK, AskedIsShown
<1> QED
    BY <1>1, <1>2

(* A tab. *)
LEMMA AskedNavigate ==
    ASSUME UrlInv, AskedInv, NEW panel \in Tabs, Navigate(panel)
    PROVE  AskedInv'
<1>1. PICK hash : hash = [sig.hash EXCEPT !.panel = panel]
    OBVIOUS
<1>2. hash.params = sig.hash.params
    BY <1>1 DEF UrlInv, SigInv, Parsed, IsUrl
<1>3. ParamsOK(hash.params)
    BY <1>2 DEF AskedInv
<1>4. sig' = WriteHash(sig, hash) /\ asked' = sig'.filters
    BY <1>1 DEF Navigate
<1>5. sig'.hash = hash
    BY <1>4, WriteFacts DEF UrlInv, SigInv, Ranged, ValidRange
<1>6. FiltersOK(sig'.filters)
    BY <1>3, <1>4, WriteOK DEF UrlInv, SigInv, AskedInv
<1>7. HistOK'
    <2>1. CASE Url = hash
        <3>1. UNCHANGED hist
            BY <1>1, <2>1 DEF Navigate
        <3> QED
            BY <3>1 DEF AskedInv, HistOK
    <2>2. CASE Url # hash
        <3>1. Push(hash)
            BY <1>1, <2>2 DEF Navigate
        <3> QED
            BY <1>3, <3>1, HistStepOK DEF UrlInv, AskedInv
    <2> QED
        BY <2>1, <2>2
<1>8. AskedIsShown'
    BY <1>4, SameReflexive DEF AskedIsShown
<1> QED
    BY <1>3, <1>5, <1>6, <1>7, <1>8 DEF AskedInv

(* A hashchange or popstate event, and a reload. *)
LEMMA AskedEvent ==
    ASSUME UrlInv, AskedInv, Resync \/ Reload
    PROVE  AskedInv'
<1>1. IsUrl(Url) /\ ParamsOK(Url.params)
    BY DEF UrlInv, HistInv, Url, AskedInv, HistOK
<1>2. HistOK'
    BY DEF AskedInv, HistOK, Resync, Reload
<1>3. CASE Resync
    <2>1. PICK h : h = parseHash(Url)
        OBVIOUS
    <2>2. h.params = Url.params
        BY <1>1, <2>1 DEF parseHash, IsUrl
    <2>3. sig' = WriteHash(sig, h) /\ asked' = queryToFilters(Url.params)
        BY <1>3, <2>1 DEF Resync
    <2>4. sig'.hash = h /\ Agree(sig')
        BY <2>3, WriteFacts DEF UrlInv, SigInv, Ranged, ValidRange
    <2>5. FiltersOK(sig'.filters)
        BY <1>1, <2>2, <2>3, WriteOK DEF UrlInv, SigInv, AskedInv
    <2>6. AskedIsShown'
        BY <2>2, <2>3, <2>4 DEF AskedIsShown, Agree
    <2> QED
        BY <1>1, <1>2, <2>2, <2>4, <2>5, <2>6 DEF AskedInv
<1>4. CASE Reload
    <2>1. sig' = BootSignals(Url, today) /\ asked' = sig'.filters
        BY <1>4 DEF Reload, Load
    <2>2. FiltersOK(sig'.filters) /\ ParamsOK(sig'.hash.params)
        BY <1>1, <2>1, BootOK
    <2>3. AskedIsShown'
        BY <2>1, SameReflexive DEF AskedIsShown
    <2> QED
        BY <1>2, <2>2, <2>3 DEF AskedInv
<1> QED
    BY <1>3, <1>4

(* Every step keeps the filters asked for in force. *)
LEMMA AskedNext ==
    ASSUME UrlInv, AskedInv, [Next]_urlVars
    PROVE  AskedInv'
<1>1. ASSUME UNCHANGED <<hist, sig, asked>> PROVE AskedInv'
    BY <1>1 DEF AskedInv, HistOK, AskedIsShown
<1>2. CASE UNCHANGED urlVars
    BY <1>1, <1>2 DEF urlVars
<1>3. CASE NewDay
    BY <1>1, <1>3 DEF NewDay
<1>4. CASE \/ OpenCustom \/ ClosePopover
           \/ \E m \in {"single", "range"} : SwitchMode(m)
           \/ \E first, last \in Picks : PickDays(first, last)
    <2>1. UNCHANGED <<hist, sig, asked>>
        <3>1. CASE OpenCustom
            BY <3>1 DEF OpenCustom
        <3>2. CASE ClosePopover
            BY <3>2 DEF ClosePopover
        <3>3. ASSUME NEW m, SwitchMode(m) PROVE UNCHANGED <<hist, sig, asked>>
            BY <3>3 DEF SwitchMode
        <3>4. ASSUME NEW first, NEW last, PickDays(first, last) PROVE UNCHANGED <<hist, sig, asked>>
            BY <3>4 DEF PickDays
        <3> QED
            BY <1>4, <3>1, <3>2, <3>3, <3>4
    <2> QED
        BY <1>1, <2>1
<1>5. CASE \E panel \in Tabs : Navigate(panel)
    BY <1>5, AskedNavigate
<1>6. CASE \E url \in Links : OpenLink(url)
    <2>1. PICK url \in Links : OpenLink(url)
        BY <1>6
    <2>2. ParamsOK(url.params)
        BY UrlConstants DEF ParamsOK
    <2>3. HistOK' /\ UNCHANGED <<sig, asked>>
        BY <2>1, <2>2, HistStepOK DEF UrlInv, AskedInv, OpenLink
    <2> QED
        BY <2>3 DEF AskedInv, AskedIsShown
<1>7. CASE \E to \in DOMAIN hist : Traverse(to)
    BY <1>1, <1>7 DEF Traverse
<1>8. CASE Resync \/ Reload
    BY <1>8, AskedEvent
<1>9. ASSUME NEW wanted, FiltersOK(wanted), Update(wanted) PROVE AskedInv'
    BY <1>9, AskedUpdate DEF Update
<1>10. FiltersOK(sig.filters)
    BY DEF AskedInv
<1>11. CASE \E c \in Channels : ToggleChannel(c)
    <2>1. PICK c \in Channels : Update(ToggledChannel(sig.filters, c))
        BY <1>11 DEF ToggleChannel
    <2>2. PICK v : v = IF sig.filters["channel"] = c THEN NoText ELSE c
        OBVIOUS
    <2>3. ToggledChannel(sig.filters, c) = [sig.filters EXCEPT !["channel"] = v]
        BY <2>2 DEF ToggledChannel
    <2>4. FiltersOK([sig.filters EXCEPT !["channel"] = v])
        BY <1>10, ExceptOK
    <2> QED
        BY <1>9, <2>1, <2>3, <2>4
<1>12. CASE \E p \in Paths : SetPath(p)
    <2>1. PICK p \in Paths : Update([sig.filters EXCEPT !["path"] = p])
        BY <1>12 DEF SetPath
    <2>2. FiltersOK([sig.filters EXCEPT !["path"] = p])
        BY <1>10, ExceptOK
    <2> QED
        BY <1>9, <2>1, <2>2
<1>13. CASE ClearAll
    BY <1>13, AskedUpdate, ClearIsUpdate, EmptyOK DEF ClearAll
<1>14. CASE \E scope \in PropScopes, name \in PropNames, value \in PropValues :
                SubmitProp(scope, name, value)
    <2>1. PICK scope \in PropScopes, name \in PropNames, value \in PropValues :
            name # <<NoText>> /\ Update(WithProp(sig.filters, scope, name, value))
        BY <1>14, Zenon DEF SubmitProp
    <2>2. scope \in Scopes /\ name \in Parts /\ value \in Parts
        BY UrlConstants DEF Parts
    <2>3. FiltersOK(WithProp(sig.filters, scope, name, value))
        BY <1>10, <2>1, <2>2, PropOK
    <2> QED
        BY <1>9, <2>1, <2>3
<1>15. CASE \E scope \in PropScopes : \E i \in DOMAIN sig.filters[scope] : RemoveProp(scope, i)
    <2>1. PICK scope \in PropScopes : \E i \in DOMAIN sig.filters[scope] : RemoveProp(scope, i)
        BY <1>15
    <2>2. PICK name : Update(WithoutProp(sig.filters, scope, name))
        BY <2>1 DEF RemoveProp
    <2>3. FiltersOK(WithoutProp(sig.filters, scope, name))
        BY <1>10, UrlConstants, PropOK
    <2> QED
        BY <1>9, <2>2, <2>3
<1>16. CASE \E column \in Columns : CycleClick(column)
    <2>1. PICK column \in Columns : Update(CycledSort(sig.filters, column))
        BY <1>16 DEF CycleClick
    <2>2. column # NoText
        BY UrlConstants
    <2>3. FiltersOK(CycledSort(sig.filters, column))
        BY <1>10, <2>2, SortOK
    <2> QED
        BY <1>9, <2>1, <2>3
<1>17. CASE \E id \in Metrics : ToggleMetric(id)
    <2>1. PICK next : Update([sig.filters EXCEPT !["metrics"] = next])
        BY <1>17 DEF ToggleMetric
    <2>2. FiltersOK([sig.filters EXCEPT !["metrics"] = next])
        BY <1>10, ExceptOK
    <2> QED
        BY <1>9, <2>1, <2>2
<1>18. CASE \E p \in Chips : ApplyPreset(p)
    BY <1>18, AskedRange DEF ApplyPreset
<1>19. CASE ApplyCustom
    BY <1>19, AskedRange DEF ApplyCustom
<1> QED
    BY <1>2, <1>3, <1>4, <1>5, <1>6, <1>7, <1>8, <1>11, <1>12, <1>13, <1>14, <1>15, <1>16, <1>17, <1>18, <1>19
    DEF Next

(* The filters in force are always the ones last asked for, by a control   *)
(* or by a URL: the write of the signal, the effect that takes it back,    *)
(* the encoding in the hash and the decoding of it lose nothing, in any    *)
(* order of controls, links and events, and whatever a value contains, as  *)
(* long as no property's name holds the separator (filters.ts              *)
(* updateFilters, filtersToQuery, queryToFilters).                         *)
THEOREM AskedIsInForce == Spec => []AskedIsShown
<1>1. Init => UrlInv /\ AskedInv
    BY UrlInit, AskedInit
<1>2. (UrlInv /\ AskedInv) /\ [Next]_urlVars => (UrlInv /\ AskedInv)'
    BY UrlNext, AskedNext
<1>3. UrlInv /\ AskedInv => AskedIsShown
    BY DEF AskedInv
<1> QED
    BY <1>1, <1>2, <1>3, PTL DEF Spec
=============================================================================
