--------------------------- MODULE MCEventHandler ---------------------------
(***************************************************************************)
(* Instances of EventHandler for TLC.                                      *)
(***************************************************************************)
EXTENDS EventHandler, TLC

(* Requests are interchangeable. *)
Perms == Permutations(Reqs)

(* Site 1 is a.com, site 2 is b.com; neither www. variant is registered on *)
(* its own.                                                                *)
AllHosts == {"a", "www.a", "b", "www.b"}

Toggle == [h \in AllHosts |->
             CASE h = "a" -> "www.a" [] h = "www.a" -> "a"
               [] h = "b" -> "www.b" [] h = "www.b" -> "b"]

Row(id, mode) ==
    [id |-> id, gpc |-> FALSE, dnt |-> FALSE, bots |-> TRUE, mode |-> mode,
     allowlist |-> {}, tz |-> 0]

Table(a, b) ==
    [h \in AllHosts |-> CASE h = "a" -> a [] h = "b" -> b [] OTHER -> NoSite]

Event(host) == [host |-> host, valid |-> TRUE, name |-> "pageview", uid |-> FALSE]

Request(events) ==
    [shape |-> "ok", events |-> events, visitor |-> "v", cookie |-> NoCookie,
     header |-> FALSE, gpc |-> FALSE, dnt |-> FALSE, legacy |-> FALSE,
     consents |-> {}, optouts |-> {}]

---------------------------------------------------------------------------
(* Single events of a visitor and of a bot, on a site that drops bots and  *)
(* whose midnights are at ticks 1 and 3.                                   *)
BotSite == Table([Row(1, "permissive") EXCEPT !.bots = FALSE, !.tz = 1], NoSite)

Singles ==
    {Request(<<Event("a")>>),
     [Request(<<Event("a")>>) EXCEPT !.visitor = "bot"]}

---------------------------------------------------------------------------
(* Batches over two sites: one without a consent mode, one hybrid with an  *)
(* allow-list that honours Sec-GPC. The batch of five pageviews is longer  *)
(* than what the burst guard lets pass over two windows.                   *)
Hybrid ==
    [Row(2, "hybrid") EXCEPT !.gpc = TRUE, !.allowlist = {"pageview"}, !.tz = DayLen]

TwoSites == Table(Row(1, "current"), Hybrid)

WithUid(host) == [Event(host) EXCEPT !.uid = TRUE]

Named(host) == [Event(host) EXCEPT !.name = "purchase"]

Malformed(host) == [Event(host) EXCEPT !.valid = FALSE]

Mixed ==
    {<<>>, <<WithUid("b")>>, <<Event("a"), WithUid("b")>>, <<Named("b"), Event("www.a")>>,
     <<Malformed("a"), Event("b")>>, <<Event("a"), Event("www.b"), Event("b")>>,
     [k \in 1..5 |-> Event("a")]}

MixedBatches ==
    {[Request(e) EXCEPT !.cookie = "c", !.consents = s, !.gpc = g] :
        e \in Mixed, s \in {{}, {2}}, g \in BOOLEAN}
    \cup {[Request(<<>>) EXCEPT !.shape = sh] : sh \in {"fast", "large", "invalid"}}
    \cup {[Request(<<WithUid("b")>>) EXCEPT !.legacy = TRUE],
          [Request(<<WithUid("a"), Event("b")>>) EXCEPT !.optouts = {1}]}

Modes ==
    {[Row(2, m) EXCEPT !.gpc = TRUE, !.allowlist = {"pageview"}] :
        m \in {"current", "consent-free", "permissive", "consent-required", "hybrid"}}

=============================================================================
