------------------------------- MODULE Tracker -------------------------------
(***************************************************************************)
(* The browser tracker (tracker/src/tracker.js) in several tabs of one     *)
(* visitor's browser: pageviews of loads and of navigations inside a page, *)
(* custom events, and the properties it keeps once consent is given.       *)
(*                                                                         *)
(* The tabs share the cookies; sessionStorage is a tab's own and survives  *)
(* its documents; the rest lives as long as the document.  A consent       *)
(* request answered after its document was left has no effect here.  One   *)
(* action is one browser task.                                             *)
(***************************************************************************)
EXTENDS Naturals, FiniteSets

CONSTANTS
    Tabs,
    Pages,       \* URLs of the site
    Tag(_),      \* the utm parameters of a URL
    Hushed,      \* whether a page may ask to honour GPC, or the browser be automated
    MaxOps       \* tasks in a behaviour

ASSUME TrackerConstants == MaxOps \in Nat /\ Hushed \subseteq BOOLEAN /\ Pages # {}

VARIABLES
    jar,         \* cookies: sn_consent ("" unset), sn_user_props
    session,     \* tab -> sessionStorage[sn_sess_props]
    doc,         \* tab -> its document
    reqs,        \* consent requests under way
    epoch,       \* history: withdrawals applied
    out,         \* history: the last event sent
    ops          \* counts to MaxOps, names documents and requests

vars == <<jar, session, doc, reqs, epoch, out, ops>>

(* Properties are told apart by when they were stored: 0 is none, n + 1    *)
(* what was stored after n withdrawals.                                    *)
None == 0
Stamp == epoch + 1

getConsent == IF jar.consent = "" THEN "idle" ELSE jar.consent

(* A document: the api object it exposes, its URL, the parameters in q,    *)
(* whether userId is set, the wrappers around pushState, whether a         *)
(* traversal has yet to raise popstate, the pageviewed sentinel; and, as   *)
(* history, the navigations made since the script ran and the pageviews    *)
(* sent.                                                                   *)
Document(id, u) ==
    [id |-> id, api |-> "none", url |-> u, q |-> Tag(u), uid |-> FALSE, hooks |-> 0,
     popping |-> FALSE, viewed |-> FALSE, navs |-> 0, views |-> 0]

NoDocument(d) == d.id = 0

Task == ops < MaxOps /\ ops' = ops + 1

---------------------------------------------------------------------------
(* fire(): segment properties go out only while consent is resolved. *)
Event(t, d, name) ==
    LET resolved == getConsent = "resolved" IN
    [name |-> name, url |-> d.url, q |-> d.q, uid |-> d.uid, epoch |-> epoch,
     user |-> IF resolved THEN jar.user ELSE None,
     session |-> IF resolved THEN session[t] ELSE None]

(* pageview(): once until refresh resets the sentinel. *)
Viewed(d) == [d EXCEPT !.viewed = TRUE, !.views = @ + (IF d.viewed THEN 0 ELSE 1)]

(* Mutant of Refreshed: the sentinel is left alone. *)
RefreshedOnce(d) == Viewed([d EXCEPT !.q = Tag(d.url)])

(* refresh(), run by every wrapper. *)
Refreshed(d) == [d EXCEPT !.q = Tag(d.url), !.viewed = TRUE, !.views = @ + d.hooks]

Put(t, d) ==
    /\ doc' = [doc EXCEPT ![t] = d]
    /\ out' = IF d.views > doc[t].views THEN Event(t, d, "pageview") ELSE out

(* Before the script has run a navigation is not seen. *)
Navigated(d, u) ==
    IF d.hooks = 0 THEN [d EXCEPT !.url = u]
    ELSE Refreshed([d EXCEPT !.url = u, !.navs = @ + 1])

---------------------------------------------------------------------------
(* The document of the tab is replaced; the one before it is unloaded,     *)
(* and its pagehide finds the pageview sent.                               *)
Open(t, u) ==
    /\ Task
    /\ doc' = [doc EXCEPT ![t] = Document(ops', u)]
    /\ UNCHANGED <<jar, session, reqs, epoch, out>>

(* Mutant of Evaluate: a second script tag installs the tracker again. *)
EvaluateAgain(t, hushed) ==
    /\ Task /\ ~NoDocument(doc[t]) /\ ~hushed
    /\ Put(t, Viewed([doc[t] EXCEPT !.api = "live", !.hooks = @ + 1, !.q = Tag(doc[t].url), !.navs = 1]))
    /\ UNCHANGED <<jar, session, reqs, epoch>>

(* The script runs, once for a document: an automated browser, or a page   *)
(* that honours GPC, gets an api that does nothing.                        *)
Evaluate(t, hushed) ==
    /\ Task /\ ~NoDocument(doc[t]) /\ doc[t].api = "none" /\ ~doc[t].popping
    /\ IF hushed
       THEN /\ doc' = [doc EXCEPT ![t].api = "noop"]
            /\ UNCHANGED out
       ELSE Put(t, Viewed([doc[t] EXCEPT !.api = "live", !.hooks = 1, !.q = Tag(doc[t].url), !.navs = 1]))
    /\ UNCHANGED <<jar, session, reqs, epoch>>

(* history.pushState and replaceState. *)
PushState(t, u) ==
    /\ Task /\ ~NoDocument(doc[t])
    /\ Put(t, Navigated(doc[t], u))
    /\ UNCHANGED <<jar, session, reqs, epoch>>

(* Back and forward within the document: the URL changes first, and        *)
(* listeners of the page may run before the tracker's.                     *)
Traverse(t, u) ==
    /\ Task /\ ~NoDocument(doc[t]) /\ ~doc[t].popping
    /\ doc' = [doc EXCEPT ![t].url = u, ![t].popping = TRUE]
    /\ UNCHANGED <<jar, session, reqs, epoch, out>>

PopState(t) ==
    /\ doc[t].popping
    /\ Put(t, Navigated([doc[t] EXCEPT !.popping = FALSE], doc[t].url))
    /\ UNCHANGED <<jar, session, reqs, epoch, ops>>

PageHide(t) ==
    /\ Task /\ doc[t].api = "live"
    /\ Put(t, Viewed(doc[t]))
    /\ UNCHANGED <<jar, session, reqs, epoch>>

---------------------------------------------------------------------------
(* The public API. *)
track(t) ==
    /\ Task /\ doc[t].api = "live"
    /\ out' = Event(t, doc[t], "custom")
    /\ UNCHANGED <<jar, session, doc, reqs, epoch>>

(* The identifier is kept whatever the consent (the server hashes it, or   *)
(* drops it); the properties only when it is resolved.                     *)
identify(t) ==
    /\ Task /\ doc[t].api = "live"
    /\ doc' = [doc EXCEPT ![t].uid = TRUE]
    /\ jar' = IF getConsent = "resolved" THEN [jar EXCEPT !.user = Stamp] ELSE jar
    /\ UNCHANGED <<session, reqs, epoch, out>>

setSession(t) ==
    /\ Task /\ doc[t].api = "live" /\ getConsent = "resolved"
    /\ session' = [session EXCEPT ![t] = Stamp]
    /\ UNCHANGED <<jar, doc, reqs, epoch, out>>

consent(t, action) ==
    /\ Task /\ doc[t].api = "live"
    /\ reqs' = reqs \cup {[id |-> ops', tab |-> t, doc |-> doc[t].id, action |-> action]}
    /\ UNCHANGED <<jar, session, doc, epoch, out>>

(* Mutant of Withdrawn: the user's properties are left. *)
WithdrawnFlag(j) == [j EXCEPT !.consent = "withdrawn"]
Withdrawn(j) == [j EXCEPT !.consent = "withdrawn", !.user = None]

(* An answer, in any order; only one that is ok changes anything. *)
ConsentAnswer(r, ok) ==
    /\ reqs' = reqs \ {r}
    /\ LET applied == ok /\ doc[r.tab].id = r.doc
           withdraw == applied /\ r.action = "withdraw"
       IN /\ jar' = IF ~applied THEN jar
                    ELSE IF withdraw THEN Withdrawn(jar)
                    ELSE [jar EXCEPT !.consent = "resolved"]
          /\ session' = IF withdraw THEN [session EXCEPT ![r.tab] = None] ELSE session
          /\ epoch' = IF withdraw THEN epoch + 1 ELSE epoch
    /\ UNCHANGED <<doc, out, ops>>

(* Each cookie lives a year from when it was last written. *)
Expire ==
    /\ Task
    /\ \E c \in {"", jar.consent}, u \in {None, jar.user} : jar' = [consent |-> c, user |-> u]
    /\ jar' # jar
    /\ UNCHANGED <<session, doc, reqs, epoch, out>>

---------------------------------------------------------------------------
NoEvent == [name |-> "", url |-> 0, q |-> 0, uid |-> FALSE, epoch |-> 0, user |-> None, session |-> None]

Init ==
    /\ jar = [consent |-> "", user |-> None]
    /\ session = [t \in Tabs |-> None]
    /\ doc = [t \in Tabs |-> Document(0, CHOOSE u \in Pages : TRUE)]
    /\ reqs = {} /\ epoch = 0 /\ ops = 0
    /\ out = NoEvent

Next ==
    \/ \E t \in Tabs, u \in Pages : Open(t, u) \/ PushState(t, u) \/ Traverse(t, u)
    \/ \E t \in Tabs, hushed \in Hushed : Evaluate(t, hushed)
    \/ \E t \in Tabs : PopState(t) \/ PageHide(t) \/ track(t) \/ identify(t) \/ setSession(t)
    \/ \E t \in Tabs, action \in {"give", "withdraw"} : consent(t, action)
    \/ \E r \in reqs, ok \in BOOLEAN : ConsentAnswer(r, ok)
    \/ Expire

Spec == Init /\ [][Next]_vars

---------------------------------------------------------------------------
(* No storage holds a value from after the withdrawals applied so far, a   *)
(* wrapper is installed exactly where the script runs, and no more         *)
(* withdrawals were applied than tasks were done.                          *)
TypeOK ==
    /\ jar.consent \in {"", "resolved", "withdrawn"} /\ jar.user \in 0 .. Stamp
    /\ \A t \in Tabs :
        /\ session[t] \in 0 .. Stamp
        /\ doc[t].url \in Pages /\ doc[t].api \in {"none", "noop", "live"}
        /\ doc[t].hooks = IF doc[t].api = "live" THEN 1 ELSE 0
    /\ \A r \in reqs : r.tab \in Tabs /\ r.action \in {"give", "withdraw"}
    /\ epoch \in 0 .. ops

(* A page is counted once and for its own campaign: a load, and each       *)
(* navigation after it, sends one pageview, whatever hides the page, loads *)
(* the script again or navigates while a traversal is under way, and the   *)
(* parameters sent are those of the URL sent, not the ones the visitor     *)
(* landed with.                                                            *)
OneViewPerNavigation ==
    /\ \A t \in Tabs : doc[t].views = doc[t].navs
    /\ out.name = "pageview" => out.q = Tag(out.url)

(* User properties stored before a withdrawal are never sent after it,     *)
(* even when consent was given again meanwhile, in whichever tab and in    *)
(* whatever order the answers came.                                        *)
UserPropsCurrent == out.user # None => out.user = out.epoch + 1
=============================================================================
