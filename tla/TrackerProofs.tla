---------------------------- MODULE TrackerProofs ----------------------------
(***************************************************************************)
(* What holds of the tracker for every number of tabs, pages and tasks.    *)
(***************************************************************************)
EXTENDS Tracker, FiniteSetTheorems, TLAPS

DocType ==
    [id : Nat, api : {"none", "noop", "live"}, url : Pages, q : {Tag(u) : u \in Pages},
     uid : BOOLEAN, hooks : {0, 1}, popping : BOOLEAN, viewed : BOOLEAN, navs : Nat, views : Nat]

OutType ==
    [name : {"", "pageview", "custom"}, url : Pages \cup {0}, q : {Tag(u) : u \in Pages} \cup {0},
     uid : BOOLEAN, epoch : Nat, user : Nat, session : Nat]

(* The variables' types. *)
Types ==
    /\ jar \in [consent : {"", "resolved", "withdrawn"}, user : Nat]
    /\ session \in [Tabs -> Nat]
    /\ doc \in [Tabs -> DocType]
    /\ reqs \subseteq [id : Nat, tab : Tabs, doc : Nat, action : {"give", "withdraw"}]
    /\ epoch \in Nat /\ ops \in Nat
    /\ out \in OutType

(* One wrapper is installed exactly where the script runs, its first       *)
(* pageview was sent with it, and every navigation since sent one more.    *)
DocOK(d) ==
    /\ d.api = "live" => d.hooks = 1 /\ d.viewed = TRUE
    /\ d.api # "live" => d.hooks = 0 /\ d.viewed = FALSE /\ d.views = 0
    /\ d.views = d.navs

(* The cookie holds nothing older than the last withdrawal. *)
JarCurrent == jar.user # None => jar.user = epoch + 1

IInv == Types /\ (\A t \in Tabs : DocOK(doc[t])) /\ JarCurrent /\ OneViewPerNavigation /\ UserPropsCurrent

---------------------------------------------------------------------------
(* A new document is well formed. *)
LEMMA DocumentOK ==
    ASSUME NEW i \in Nat, NEW u \in Pages
    PROVE  Document(i, u) \in DocType /\ DocOK(Document(i, u))
BY DEF Document, DocType, DocOK

(* pageview() marks the document and counts what it sends. *)
LEMMA ViewedShape ==
    ASSUME NEW d \in DocType
    PROVE  LET e == Viewed(d) IN
           /\ e \in DocType /\ e.viewed = TRUE
           /\ d.viewed = TRUE => e.views = d.views
           /\ d.viewed = FALSE => e.views = d.views + 1
           /\ e.hooks = d.hooks /\ e.api = d.api /\ e.navs = d.navs /\ e.q = d.q /\ e.url = d.url
<1>. DEFINE n == d.views + (IF d.viewed THEN 0 ELSE 1)
<1>1. n \in Nat /\ (d.viewed = TRUE => n = d.views) /\ (d.viewed = FALSE => n = d.views + 1)
  BY DEF DocType
<1>2. Viewed(d) = [d EXCEPT !.viewed = TRUE, !.views = n]
  BY DEF Viewed
<1>. HIDE DEF n
<1>3. [d EXCEPT !.viewed = TRUE, !.views = n] \in DocType
  BY <1>1 DEF DocType
<1>. QED  BY <1>1, <1>2, <1>3 DEF DocType

(* pageview() sends nothing once the script has run. *)
LEMMA ViewedOK ==
    ASSUME NEW d \in DocType, DocOK(d), d.api = "live"
    PROVE  Viewed(d) \in DocType /\ DocOK(Viewed(d)) /\ Viewed(d).views = d.views
<1>1. d.viewed = TRUE
  BY DEF DocOK
<1>. QED  BY <1>1, ViewedShape DEF DocOK

(* The script's first run sends one pageview. *)
LEMMA EvaluatedOK ==
    ASSUME NEW d \in DocType, DocOK(d), d.api = "none"
    PROVE  LET f == [d EXCEPT !.api = "live", !.hooks = 1, !.q = Tag(d.url), !.navs = 1]
               e == Viewed(f)
           IN e \in DocType /\ DocOK(e) /\ e.q = Tag(e.url)
<1>. DEFINE f == [d EXCEPT !.api = "live", !.hooks = 1, !.q = Tag(d.url), !.navs = 1]
<1>1. /\ f \in DocType /\ f.api = "live" /\ f.hooks = 1 /\ f.q = Tag(f.url) /\ f.navs = 1
      /\ f.views = 0 /\ f.viewed = FALSE
  BY DEF DocType, DocOK
<1>. HIDE DEF f
<1>2. Viewed(f) \in DocType /\ DocOK(Viewed(f)) /\ Viewed(f).q = Tag(Viewed(f).url)
  <2>1. /\ Viewed(f) \in DocType /\ Viewed(f).viewed = TRUE /\ Viewed(f).views = 1
        /\ Viewed(f).hooks = 1 /\ Viewed(f).api = "live" /\ Viewed(f).navs = 1
        /\ Viewed(f).q = f.q /\ Viewed(f).url = f.url
    <3>1. f \in DocType /\ f.viewed = FALSE
      BY <1>1
    <3>2. Viewed(f).views = f.views + 1
      BY <3>1, ViewedShape, Zenon
    <3>3. /\ Viewed(f) \in DocType /\ Viewed(f).viewed = TRUE
          /\ Viewed(f).hooks = f.hooks /\ Viewed(f).api = f.api /\ Viewed(f).navs = f.navs
          /\ Viewed(f).q = f.q /\ Viewed(f).url = f.url
      BY <3>1, ViewedShape, Zenon
    <3>. QED  BY <1>1, <3>2, <3>3
  <2>. QED  BY <1>1, <2>1 DEF DocOK
<1>. QED  BY <1>2 DEF f

(* A navigation sends one pageview, for the page arrived at. *)
LEMMA NavigatedOK ==
    ASSUME NEW d \in DocType, DocOK(d), NEW u \in Pages
    PROVE  LET e == Navigated(d, u) IN
           e \in DocType /\ DocOK(e) /\ (e.views > d.views => e.q = Tag(e.url))
<1>1. CASE d.hooks = 0
  <2>1. Navigated(d, u) = [d EXCEPT !.url = u]
    BY <1>1 DEF Navigated
  <2>. QED  BY <2>1 DEF DocType, DocOK
<1>2. CASE d.hooks # 0
  <2>. DEFINE n == d.navs + 1
              m == d.views + 1
              f == [d EXCEPT !.url = u, !.navs = n]
              g == [f EXCEPT !.q = Tag(u), !.viewed = TRUE, !.views = m]
  <2>1. n \in Nat /\ m \in Nat /\ m = n /\ d.hooks = 1 /\ d.api = "live"
    BY <1>2 DEF DocType, DocOK
  <2>2. Navigated(d, u) = Refreshed(f)
    BY <1>2 DEF Navigated
  <2>. HIDE DEF n, m
  <2>3. f \in DocType /\ f.url = u /\ f.navs = n /\ f.views = d.views /\ f.hooks = 1 /\ f.api = "live"
    BY <2>1 DEF DocType
  <2>4. Refreshed(f) = g
    BY <2>3 DEF Refreshed, m
  <2>. HIDE DEF f
  <2>5. /\ g \in DocType /\ g.q = Tag(u) /\ g.url = u /\ g.viewed = TRUE /\ g.views = m /\ g.navs = n
        /\ g.hooks = 1 /\ g.api = "live"
    BY <2>1, <2>3 DEF DocType
  <2>. QED  BY <2>1, <2>2, <2>4, <2>5 DEF DocOK
<1>. QED  BY <1>1, <1>2

(* What is sent carries the document's parameters and the jar's            *)
(* properties.                                                             *)
LEMMA EventOK ==
    ASSUME Types, JarCurrent, NEW t \in Tabs, NEW d \in DocType, NEW name \in {"pageview", "custom"}
    PROVE  LET e == Event(t, d, name) IN
           /\ e \in OutType
           /\ e.user # None => e.user = e.epoch + 1
           /\ e.name = name /\ e.url = d.url /\ e.q = d.q
BY DEF Types, JarCurrent, DocType, OutType, Event, None

(* Storing a well-formed document, with the pageview its counter tells of, *)
(* preserves the invariant.                                                *)
LEMMA PutOK ==
    ASSUME IInv, NEW t \in Tabs, NEW d \in DocType, DocOK(d),
           d.views > doc[t].views => d.q = Tag(d.url),
           Put(t, d), ops' \in Nat, UNCHANGED <<jar, session, reqs, epoch>>
    PROVE  IInv'
<1>1. doc' \in [Tabs -> DocType] /\ \A s \in Tabs : DocOK(doc'[s])
  BY DEF IInv, Types, Put
<1>2. /\ out' \in OutType
      /\ out'.user # None => out'.user = out'.epoch + 1
      /\ out'.name = "pageview" => out'.q = Tag(out'.url)
  <2>1. CASE d.views > doc[t].views
    <3>1. out' = Event(t, d, "pageview")
      BY <2>1 DEF Put
    <3>. QED  BY <2>1, <3>1, EventOK DEF IInv
  <2>2. CASE ~(d.views > doc[t].views)
    BY <2>2 DEF Put, IInv, Types, OneViewPerNavigation, UserPropsCurrent
  <2>. QED  BY <2>1, <2>2
<1>3. Types' /\ JarCurrent'
  BY <1>1, <1>2 DEF IInv, Types, JarCurrent
<1>4. OneViewPerNavigation' /\ UserPropsCurrent'
  BY <1>1, <1>2 DEF OneViewPerNavigation, UserPropsCurrent, DocOK
<1>. QED  BY <1>1, <1>3, <1>4 DEF IInv

(* Storing a well-formed document without sending anything. *)
LEMMA StoreOK ==
    ASSUME IInv, NEW t \in Tabs, NEW d \in DocType, DocOK(d), doc' = [doc EXCEPT ![t] = d],
           ops' \in Nat, UNCHANGED <<jar, session, reqs, epoch, out>>
    PROVE  IInv'
<1>1. doc' \in [Tabs -> DocType] /\ \A s \in Tabs : DocOK(doc'[s])
  BY DEF IInv, Types
<1>2. Types' /\ JarCurrent' /\ UserPropsCurrent'
  BY <1>1 DEF IInv, Types, JarCurrent, UserPropsCurrent
<1>3. OneViewPerNavigation'
  BY <1>1 DEF IInv, OneViewPerNavigation, DocOK
<1>. QED  BY <1>1, <1>2, <1>3 DEF IInv

(* No document and nothing sent: only the stores have to be looked at. *)
LEMMA StoresOK ==
    ASSUME IInv, Types', JarCurrent', UNCHANGED <<doc, out>>
    PROVE  IInv'
BY DEF IInv, OneViewPerNavigation, UserPropsCurrent

(* A browser that has not opened the site. *)
LEMMA InitOK == Init => IInv
<1>. SUFFICES ASSUME Init PROVE IInv
  OBVIOUS
<1>. DEFINE u == CHOOSE p \in Pages : TRUE
<1>1. u \in Pages
  BY TrackerConstants
<1>. HIDE DEF u
<1>2. Document(0, u) \in DocType /\ DocOK(Document(0, u))
  BY <1>1, DocumentOK
<1>4. doc = [t \in Tabs |-> Document(0, u)]
  BY DEF Init, u
<1>5. Types
  BY <1>2, <1>4 DEF Init, Types, OutType, NoEvent, None
<1>6. JarCurrent /\ OneViewPerNavigation /\ UserPropsCurrent
  BY <1>2, <1>4 DEF Init, JarCurrent, OneViewPerNavigation, UserPropsCurrent, NoEvent, None, DocOK
<1>. QED  BY <1>2, <1>4, <1>5, <1>6 DEF IInv

(* Every task of the browser, action by action. *)
LEMMA NextOK == IInv /\ [Next]_vars => IInv'
<1>. SUFFICES ASSUME IInv, [Next]_vars PROVE IInv'
  OBVIOUS
<1>. USE DEF NoDocument
<1>0. Types /\ ops \in Nat /\ (Task => ops' \in Nat)
  <2>1. Types /\ ops \in Nat
    BY DEF IInv, Types
  <2>2. ASSUME Task PROVE ops' \in Nat
    BY <2>1, <2>2 DEF Task
  <2>. QED  BY <2>1, <2>2
<1>e. epoch \in Nat /\ session \in [Tabs -> Nat]
  BY DEF IInv, Types
<1>f. epoch + 1 \in Nat
  BY <1>e
<1>j. jar \in [consent : {"", "resolved", "withdrawn"}, user : Nat] /\ (jar.user # 0 => jar.user = epoch + 1)
  BY DEF IInv, Types, JarCurrent, None
<1>d. ASSUME NEW t \in Tabs PROVE doc[t] \in DocType /\ DocOK(doc[t])
  BY DEF IInv, Types
<1>1. ASSUME NEW t \in Tabs, NEW u \in Pages, Open(t, u) PROVE IInv'
  <2>1. Document(ops', u) \in DocType /\ DocOK(Document(ops', u))
    BY <1>0, <1>1, DocumentOK DEF Open
  <2>. QED  BY <1>0, <1>1, <2>1, StoreOK DEF Open
<1>2. ASSUME NEW t \in Tabs, NEW u \in Pages, PushState(t, u) PROVE IInv'
  <2>1. LET e == Navigated(doc[t], u) IN
        e \in DocType /\ DocOK(e) /\ (e.views > doc[t].views => e.q = Tag(e.url))
    BY <1>d, NavigatedOK
  <2>. QED  BY <1>0, <1>2, <2>1, PutOK DEF PushState
<1>3. ASSUME NEW t \in Tabs, NEW u \in Pages, Traverse(t, u) PROVE IInv'
  <2>. DEFINE e == [doc[t] EXCEPT !.url = u, !.popping = TRUE]
  <2>1. e \in DocType /\ DocOK(e)
    BY <1>d DEF DocType, DocOK
  <2>2. doc' = [doc EXCEPT ![t] = e]
    BY <1>0, <1>3 DEF Traverse, Types
  <2>. HIDE DEF e
  <2>. QED  BY <1>0, <1>3, <2>1, <2>2, StoreOK DEF Traverse
<1>4. ASSUME NEW t \in Tabs, NEW hushed \in Hushed, Evaluate(t, hushed) PROVE IInv'
  <2>1. CASE hushed
    <3>. DEFINE e == [doc[t] EXCEPT !.api = "noop"]
    <3>1. e \in DocType /\ DocOK(e)
      BY <1>4, <1>d DEF DocType, DocOK, Evaluate
    <3>2. doc' = [doc EXCEPT ![t] = e]
      BY <1>0, <1>4, <2>1 DEF Evaluate, Types
    <3>. HIDE DEF e
    <3>. QED  BY <1>0, <1>4, <2>1, <3>1, <3>2, StoreOK DEF Evaluate
  <2>2. CASE ~hushed
    <3>. DEFINE e == Viewed([doc[t] EXCEPT !.api = "live", !.hooks = 1, !.q = Tag(doc[t].url), !.navs = 1])
    <3>1. e \in DocType /\ DocOK(e) /\ e.q = Tag(e.url)
      BY <1>4, <1>d, EvaluatedOK DEF Evaluate
    <3>2. Put(t, e)
      BY <1>4, <2>2 DEF Evaluate
    <3>. HIDE DEF e
    <3>. QED  BY <1>0, <1>4, <3>1, <3>2, PutOK DEF Evaluate
  <2>. QED  BY <2>1, <2>2
<1>5. ASSUME NEW t \in Tabs, PopState(t) PROVE IInv'
  <2>. DEFINE e == [doc[t] EXCEPT !.popping = FALSE]
              g == Navigated(e, doc[t].url)
  <2>1. e \in DocType /\ DocOK(e) /\ e.views = doc[t].views /\ doc[t].url \in Pages
    BY <1>d DEF DocType, DocOK
  <2>2. Put(t, g) /\ ops' = ops /\ UNCHANGED <<jar, session, reqs, epoch>>
    BY <1>5 DEF PopState
  <2>. HIDE DEF e
  <2>3. g \in DocType /\ DocOK(g) /\ (g.views > doc[t].views => g.q = Tag(g.url))
    BY <2>1, NavigatedOK
  <2>. HIDE DEF g
  <2>. QED  BY <1>0, <2>2, <2>3, PutOK
<1>6. ASSUME NEW t \in Tabs, PageHide(t) PROVE IInv'
  <2>1. Viewed(doc[t]) \in DocType /\ DocOK(Viewed(doc[t])) /\ Viewed(doc[t]).views = doc[t].views
    BY <1>d, <1>6, ViewedOK DEF PageHide
  <2>2. ~(Viewed(doc[t]).views > doc[t].views)
    BY <1>d, <2>1 DEF DocType
  <2>. QED  BY <1>0, <1>6, <2>1, <2>2, PutOK DEF PageHide
<1>7. ASSUME NEW t \in Tabs, track(t) PROVE IInv'
  <2>1. /\ out' \in OutType /\ (out'.user # None => out'.user = out'.epoch + 1) /\ out'.name = "custom"
    BY <1>7, <1>d, EventOK DEF IInv, track
  <2>2. Types' /\ JarCurrent'
    BY <1>0, <1>7, <2>1 DEF IInv, Types, JarCurrent, track
  <2>3. OneViewPerNavigation' /\ UserPropsCurrent' /\ \A s \in Tabs : DocOK(doc'[s])
    BY <1>7, <2>1 DEF IInv, OneViewPerNavigation, UserPropsCurrent, track
  <2>. QED  BY <2>2, <2>3 DEF IInv
<1>8. ASSUME NEW t \in Tabs, identify(t) PROVE IInv'
  <2>. DEFINE e == [doc[t] EXCEPT !.uid = TRUE]
  <2>1. e \in DocType /\ DocOK(e)
    BY <1>d DEF DocType, DocOK
  <2>2. doc' = [doc EXCEPT ![t] = e]
    BY <1>0, <1>8 DEF identify, Types
  <2>. HIDE DEF e
  <2>3. doc' \in [Tabs -> DocType] /\ \A s \in Tabs : DocOK(doc'[s])
    BY <1>0, <1>d, <2>1, <2>2 DEF Types
  <2>j. jar' \in [consent : {"", "resolved", "withdrawn"}, user : Nat] /\ JarCurrent'
    <3>1. CASE getConsent = "resolved"
      <4>1. jar' = [jar EXCEPT !.user = epoch + 1] /\ epoch' = epoch /\ epoch + 1 \in Nat
        BY <1>f, <1>8, <3>1, Zenon DEF identify, Stamp
      <4>2. jar' \in [consent : {"", "resolved", "withdrawn"}, user : Nat] /\ jar'.user = epoch + 1
        BY <1>0, <4>1 DEF Types
      <4>. QED  BY <4>1, <4>2 DEF JarCurrent
    <3>2. CASE getConsent # "resolved"
      BY <1>0, <1>8, <3>2 DEF identify, Types, IInv, JarCurrent
    <3>. QED  BY <3>1, <3>2
  <2>4. Types' /\ UserPropsCurrent'
    BY <1>0, <1>8, <2>3, <2>j DEF IInv, Types, UserPropsCurrent, identify
  <2>5. OneViewPerNavigation'
    BY <1>8, <2>3 DEF IInv, OneViewPerNavigation, DocOK, identify
  <2>. QED  BY <2>j, <2>3, <2>4, <2>5 DEF IInv
<1>9. ASSUME NEW t \in Tabs, setSession(t) PROVE IInv'
  <2>0. session' \in [Tabs -> Nat]
    <3>2. session' = [session EXCEPT ![t] = epoch + 1]
      BY <1>9, Zenon DEF setSession, Stamp
    <3>. QED  BY <1>e, <1>f, <3>2
  <2>1. Types' /\ JarCurrent'
    BY <1>0, <1>9, <2>0 DEF IInv, Types, JarCurrent, setSession
  <2>. QED  BY <1>9, <2>1, StoresOK DEF setSession
<1>10. ASSUME NEW t \in Tabs, NEW action \in {"give", "withdraw"}, consent(t, action) PROVE IInv'
  <2>1. doc[t].id \in Nat
    BY <1>d DEF DocType
  <2>r. reqs' \subseteq [id : Nat, tab : Tabs, doc : Nat, action : {"give", "withdraw"}]
    <3>1. ops' \in Nat
      BY <1>0, <1>10, Zenon DEF consent
    <3>2. reqs' = reqs \cup {[id |-> ops', tab |-> t, doc |-> doc[t].id, action |-> action]}
      BY <1>10, Zenon DEF consent
    <3>3. reqs \subseteq [id : Nat, tab : Tabs, doc : Nat, action : {"give", "withdraw"}]
      BY <1>0 DEF Types
    <3>. QED  BY <2>1, <3>1, <3>2, <3>3
  <2>2. Types' /\ JarCurrent'
    BY <1>0, <1>10, <2>r DEF IInv, Types, JarCurrent, consent
  <2>. QED  BY <1>10, <2>2, StoresOK DEF consent
<1>11. ASSUME NEW r \in reqs, NEW ok \in BOOLEAN, ConsentAnswer(r, ok) PROVE IInv'
  <2>. DEFINE applied == ok /\ doc[r.tab].id = r.doc
              withdraw == applied /\ r.action = "withdraw"
  <2>a. /\ reqs' = reqs \ {r} /\ UNCHANGED <<doc, out, ops>> /\ r.tab \in Tabs
        /\ session' = IF withdraw THEN [session EXCEPT ![r.tab] = None] ELSE session
        /\ epoch' = IF withdraw THEN epoch + 1 ELSE epoch
        /\ jar' = IF ~applied THEN jar ELSE IF withdraw THEN Withdrawn(jar)
                  ELSE [jar EXCEPT !.consent = "resolved"]
    <3>1. r.tab \in Tabs
      BY <1>0 DEF Types
    <3>. QED  BY <3>1, <1>11, Zenon DEF ConsentAnswer
  <2>b. session' \in [Tabs -> Nat] /\ epoch' \in Nat
    BY <1>e, <1>f, <2>a DEF None
  <2>c. jar' \in [consent : {"", "resolved", "withdrawn"}, user : Nat] /\ JarCurrent'
    <3>1. CASE withdraw
      <4>1. jar' = [jar EXCEPT !.consent = "withdrawn", !.user = 0]
        BY <2>a, <3>1 DEF Withdrawn, None
      <4>2. jar' \in [consent : {"", "resolved", "withdrawn"}, user : Nat] /\ jar'.user = 0
        BY <1>0, <4>1 DEF Types
      <4>. QED  BY <4>2 DEF JarCurrent, None
    <3>2. CASE applied /\ ~withdraw
      <4>1. jar' = [jar EXCEPT !.consent = "resolved"] /\ epoch' = epoch
        BY <2>a, <3>2
      <4>2. jar' \in [consent : {"", "resolved", "withdrawn"}, user : Nat] /\ jar'.user = jar.user
        BY <1>0, <4>1 DEF Types
      <4>. QED  BY <4>1, <4>2 DEF IInv, JarCurrent
    <3>3. CASE ~applied
      BY <1>0, <2>a, <3>3 DEF IInv, Types, JarCurrent
    <3>. QED  BY <3>1, <3>2, <3>3
  <2>1. Types' /\ JarCurrent'
    BY <1>0, <2>a, <2>b, <2>c DEF Types
  <2>. QED  BY <1>11, <2>1, StoresOK DEF ConsentAnswer
<1>12. ASSUME Expire PROVE IInv'
  <2>0. ops' \in Nat /\ UNCHANGED <<session, doc, reqs, epoch, out>>
    BY <1>0, <1>12 DEF Expire
  <2>j. PICK c \in {"", jar.consent}, v \in {None, jar.user} : jar' = [consent |-> c, user |-> v]
    BY <1>12 DEF Expire
  <2>k. jar' \in [consent : {"", "resolved", "withdrawn"}, user : Nat] /\ JarCurrent'
    <3>2. c \in {"", "resolved", "withdrawn"} /\ v \in Nat /\ (v # 0 => v = epoch + 1)
      <4>1. jar.consent \in {"", "resolved", "withdrawn"} /\ jar.user \in Nat
        BY <1>j
      <4>2. (c = "" \/ c = jar.consent) /\ (v = 0 \/ v = jar.user)
        BY <2>j DEF None
      <4>3. v \in Nat /\ (v # 0 => v = epoch + 1)
        <5>1. jar.user # 0 => jar.user = epoch + 1
          BY <1>j, Zenon
        <5>2. CASE v = 0
          BY <5>2
        <5>3. CASE v = jar.user
          BY <4>1, <5>1, <5>3, Zenon
        <5>. QED  BY <4>2, <5>2, <5>3
      <4>. QED  BY <4>1, <4>2, <4>3
    <3>3. jar' \in [consent : {"", "resolved", "withdrawn"}, user : Nat] /\ jar'.user = v
      BY <2>j, <3>2
    <3>. QED  BY <2>0, <3>2, <3>3 DEF JarCurrent, None
  <2>1. Types' /\ JarCurrent'
    BY <1>0, <2>0, <2>k DEF Types
  <2>. QED  BY <1>12, <2>1, StoresOK DEF Expire
<1>13. ASSUME UNCHANGED vars PROVE IInv'
  BY <1>13 DEF vars, IInv, Types, JarCurrent, OneViewPerNavigation, UserPropsCurrent
<1>. QED
  BY <1>1, <1>2, <1>3, <1>4, <1>5, <1>6, <1>7, <1>8, <1>9, <1>10, <1>11, <1>12, <1>13 DEF Next

(* The invariant of the tracker in all its tabs. *)
THEOREM TrackerInvariance == Spec => []IInv
BY InitOK, NextOK, PTL DEF Spec

(* tracker.js refresh and pageview: whatever is loaded, navigated, hidden  *)
(* or traversed, in any number of tabs, a page sends one pageview, with    *)
(* the parameters of its own URL.                                          *)
THEOREM PagesCountedOnce == Spec => []OneViewPerNavigation
<1>1. IInv => OneViewPerNavigation
  BY DEF IInv
<1>. QED  BY <1>1, TrackerInvariance, PTL

(* tracker.js identify, fire and consent: user properties sent were stored *)
(* after the last withdrawal that any tab has applied.                     *)
THEOREM WithdrawalHolds == Spec => []UserPropsCurrent
<1>1. IInv => UserPropsCurrent
  BY DEF IInv
<1>. QED  BY <1>1, TrackerInvariance, PTL

---------------------------------------------------------------------------
(* Stamps never run ahead: a withdrawal is applied once for each request,  *)
(* and a request took a task of its own to send.                           *)
Bounds ==
    /\ IsFiniteSet(reqs)
    /\ epoch + Cardinality(reqs) <= ops
    /\ \A t \in Tabs : session[t] <= epoch + 1

(* A step that keeps requests, withdrawals and sessions keeps the bounds. *)
LEMMA BoundsKept ==
    ASSUME IInv, Bounds, UNCHANGED <<reqs, epoch, session>>, ops' \in Nat, ops' >= ops
    PROVE  Bounds'
<1>1. Cardinality(reqs) \in Nat /\ epoch \in Nat /\ ops \in Nat
  BY FS_CardinalityType DEF Bounds, IInv, Types
<1>2. epoch + Cardinality(reqs) <= ops'
  BY <1>1 DEF Bounds
<1>. QED  BY <1>2 DEF Bounds

(* The bounds are inductive with the invariant. *)
LEMMA BoundsNext == IInv /\ Bounds /\ [Next]_vars => Bounds'
<1> SUFFICES ASSUME IInv, Bounds, [Next]_vars PROVE Bounds'
  OBVIOUS
<1>0. /\ IsFiniteSet(reqs) /\ Cardinality(reqs) \in Nat /\ epoch \in Nat /\ ops \in Nat
      /\ session \in [Tabs -> Nat] /\ epoch + Cardinality(reqs) <= ops
      /\ \A t \in Tabs : session[t] <= epoch + 1
  BY FS_CardinalityType DEF Bounds, IInv, Types
<1>1. ASSUME Task PROVE ops' \in Nat /\ ops' = ops + 1
  BY <1>0, <1>1 DEF Task
<1>2. CASE UNCHANGED vars
  BY <1>0, <1>2, BoundsKept DEF vars
<1>3. ASSUME NEW t \in Tabs, NEW u \in Pages, Open(t, u) \/ PushState(t, u) \/ Traverse(t, u)
      PROVE  Bounds'
  <2>1. Task /\ UNCHANGED <<reqs, epoch, session>>
    BY <1>3 DEF Open, PushState, Traverse
  <2>. QED  BY <1>0, <1>1, <2>1, BoundsKept
<1>4. ASSUME NEW t \in Tabs, NEW hushed \in Hushed, Evaluate(t, hushed) PROVE Bounds'
  <2>1. Task /\ UNCHANGED <<reqs, epoch, session>>
    BY <1>4 DEF Evaluate
  <2>. QED  BY <1>0, <1>1, <2>1, BoundsKept
<1>5. ASSUME NEW t \in Tabs, PopState(t) PROVE Bounds'
  <2>1. UNCHANGED <<reqs, epoch, session, ops>>
    BY <1>5 DEF PopState
  <2>. QED  BY <1>0, <2>1, BoundsKept
<1>6. ASSUME NEW t \in Tabs, PageHide(t) \/ track(t) \/ identify(t) PROVE Bounds'
  <2>1. Task /\ UNCHANGED <<reqs, epoch, session>>
    BY <1>6 DEF PageHide, track, identify
  <2>. QED  BY <1>0, <1>1, <2>1, BoundsKept
<1>7. ASSUME NEW t \in Tabs, setSession(t) PROVE Bounds'
  <2>1. Task /\ UNCHANGED <<reqs, epoch>> /\ session' = [session EXCEPT ![t] = epoch + 1]
    BY <1>7 DEF setSession, Stamp
  <2>2. \A s \in Tabs : session'[s] <= epoch + 1
    BY <1>0, <2>1
  <2>3. epoch + Cardinality(reqs) <= ops'
    BY <1>0, <1>1, <2>1
  <2>. QED  BY <1>0, <2>1, <2>2, <2>3 DEF Bounds
<1>8. ASSUME NEW t \in Tabs, NEW action \in {"give", "withdraw"}, consent(t, action) PROVE Bounds'
  <2>1. PICK r : r = [id |-> ops', tab |-> t, doc |-> doc[t].id, action |-> action]
    OBVIOUS
  <2>2. Task /\ UNCHANGED <<epoch, session>> /\ reqs' = reqs \cup {r}
    BY <1>8, <2>1 DEF consent
  <2>3. IsFiniteSet(reqs') /\ Cardinality(reqs') \in {Cardinality(reqs), Cardinality(reqs) + 1}
    BY <1>0, <2>2, FS_AddElement
  <2>4. epoch + Cardinality(reqs') <= ops'
    BY <1>0, <1>1, <2>2, <2>3
  <2>. QED  BY <1>0, <2>2, <2>3, <2>4 DEF Bounds
<1>9. ASSUME NEW r \in reqs, NEW ok \in BOOLEAN, ConsentAnswer(r, ok) PROVE Bounds'
  <2>1. IsFiniteSet(reqs') /\ Cardinality(reqs') = Cardinality(reqs) - 1
    BY <1>0, <1>9, FS_RemoveElement DEF ConsentAnswer
  <2>2. epoch' \in {epoch, epoch + 1} /\ UNCHANGED ops
    BY <1>9 DEF ConsentAnswer
  <2>3. session' = session \/ session' = [session EXCEPT ![r.tab] = 0]
    BY <1>9 DEF ConsentAnswer, None
  <2>4. \A t \in Tabs : session'[t] <= epoch' + 1
    <3> TAKE t \in Tabs
    <3>1. session'[t] \in {session[t], 0}
      BY <1>0, <2>3
    <3>. QED  BY <1>0, <2>2, <3>1
  <2>5. epoch' + Cardinality(reqs') <= ops'
    BY <1>0, <2>1, <2>2
  <2>. QED  BY <2>1, <2>4, <2>5 DEF Bounds
<1>10. CASE Expire
  <2>1. Task /\ UNCHANGED <<reqs, epoch, session>>
    BY <1>10 DEF Expire
  <2>. QED  BY <1>0, <1>1, <2>1, BoundsKept
<1>. QED
  BY <1>2, <1>3, <1>4, <1>5, <1>6, <1>7, <1>8, <1>9, <1>10 DEF Next

(* tracker.js: in every tab and after every task the cookie and the        *)
(* storage hold no value from after the withdrawals applied so far, a      *)
(* wrapper is installed exactly where the script runs, and no more         *)
(* withdrawals were applied than tasks were done.                          *)
THEOREM TypesHold == Spec => []TypeOK
<1>1. Init => Bounds
  <2> SUFFICES ASSUME Init PROVE Bounds
    OBVIOUS
  <2>1. reqs = {} /\ epoch = 0 /\ ops = 0 /\ session = [t \in Tabs |-> 0]
    BY Zenon DEF Init, None
  <2>2. IsFiniteSet(reqs) /\ Cardinality(reqs) = 0
    BY <2>1, FS_EmptySet
  <2>. QED  BY <2>1, <2>2 DEF Bounds
<1>2. IInv /\ Bounds => TypeOK
  <2> SUFFICES ASSUME IInv, Bounds PROVE TypeOK
    OBVIOUS
  <2>1. /\ epoch \in Nat /\ ops \in Nat /\ session \in [Tabs -> Nat] /\ Cardinality(reqs) \in Nat
    BY FS_CardinalityType DEF IInv, Types, Bounds
  <2>2. jar.consent \in {"", "resolved", "withdrawn"} /\ jar.user \in Nat
    BY Zenon DEF IInv, Types
  <2>3. jar.user \in 0 .. Stamp
    <3>1. jar.user # 0 => jar.user = epoch + 1
      BY Zenon DEF IInv, JarCurrent, None
    <3>2. jar.user \in Nat
      BY <2>2
    <3>. QED  BY <2>1, <3>1, <3>2 DEF Stamp
  <2>4. \A t \in Tabs : session[t] \in 0 .. Stamp
    BY <2>1 DEF Bounds, Stamp
  <2>5. epoch \in 0 .. ops
    BY <2>1 DEF Bounds
  <2>6. \A t \in Tabs : /\ doc[t].url \in Pages /\ doc[t].api \in {"none", "noop", "live"}
                        /\ doc[t].hooks = IF doc[t].api = "live" THEN 1 ELSE 0
    BY DEF IInv, Types, DocType, DocOK
  <2>7. \A r \in reqs : r.tab \in Tabs /\ r.action \in {"give", "withdraw"}
    BY DEF IInv, Types
  <2>. QED  BY <2>2, <2>3, <2>4, <2>5, <2>6, <2>7, Zenon DEF TypeOK
<1>. QED  BY <1>1, <1>2, BoundsNext, TrackerInvariance, PTL DEF Spec
=============================================================================
