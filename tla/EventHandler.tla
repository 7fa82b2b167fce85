---------------------------- MODULE EventHandler ----------------------------
(***************************************************************************)
(* POST /api/event: the middlewares in front of it, serve() with its loop  *)
(* over the events of the body, and the enrichment up to the log, run by   *)
(* concurrent requests that share the gates of IngestGates, the registry   *)
(* of sites in ClickHouse and the list of opt-outs.                        *)
(*                                                                         *)
(* The log is the one of IngestPath behind AppendAndWait: an append either *)
(* succeeds, or fails and leaves the caller in doubt.                      *)
(***************************************************************************)
EXTENDS IngestGates

CONSTANTS Reqs,            \* requests, each made at most once
          Inputs,          \* what a request may carry (see InputType)
          Hosts,           \* hostnames that events name, normalised
          Alt,             \* wwwBareToggleHost: the host with www. toggled
          Registry,        \* the sites table at the start: [Hosts -> rows]
          Updates,         \* rows an admin may write for a site
          Bots,            \* visitors whose User-Agent or IP is a bot's
          Cookies,         \* _statnive values that visitors already hold
          ConsentRequired, \* HandlerConfig.ConsentRequired
          LegacyCutoff,    \* the last tick at which the legacy cookie counts
          MaxFaults,       \* bound: failed queries, appends and walks
          MaxStops,        \* bound: kills and orderly stops
          MaxUpdates,      \* bound: changes of the sites table
          MaxFills         \* bound: crossings of the fill threshold

NoSite == [id |-> 0]   \* no enabled row for the hostname
NoCookie == ""

EventType == [host : Hosts, valid : BOOLEAN, name : STRING, uid : BOOLEAN]

InputType ==
    [shape : {"ok", "fast", "large", "invalid"}, events : Seq(EventType),
     visitor : Visitors, cookie : Cookies \cup {NoCookie},
     header : BOOLEAN, gpc : BOOLEAN, dnt : BOOLEAN, legacy : BOOLEAN,
     consents : SUBSET Sites, optouts : SUBSET Sites]

RowType ==
    [id : Sites, gpc : BOOLEAN, dnt : BOOLEAN, bots : BOOLEAN,
     mode : {"current", "consent-free", "permissive", "consent-required", "hybrid"},
     allowlist : SUBSET STRING, tz : 0..DayLen]

ASSUME HandlerAssumption ==
    /\ Sites \subseteq Nat \ {0} /\ NoCookie \notin Cookies
    /\ Alt \in [Hosts -> Hosts]
    /\ \A in \in Inputs : in \in InputType
    /\ \A h \in Hosts : Registry[h] = NoSite \/ Registry[h] \in RowType
    /\ \A row \in Updates : row \in RowType
    /\ LegacyCutoff \in Int
    /\ MaxFaults \in Nat /\ MaxStops \in Nat /\ MaxUpdates \in Nat
    /\ MaxFills \in Nat

VARIABLES registry,  \* statnive.sites
          suppressed,\* SuppressionList: <<site, cookie>> pairs
          req,       \* the state of each request
          log,       \* the rows that reached the log, in order
          received, accepted, dropped, \* the metrics of the funnel
          faults, stops, updates, fills, \* how often each has happened
          life,      \* ghost: ends of the process that lost filter marks
          lost       \* ghost: <<site, visitor>> marked new by an event that
                     \* was not logged

envVars == <<registry, updates, fills>>
metricVars == <<received, accepted, dropped>>
rowVars == <<log, lost>>
vars == <<now, fillVars, burstVars, bloomVars, envVars, suppressed, req, rowVars,
          metricVars, faults, stops, life>>

---------------------------------------------------------------------------
(* Consent, as functions of a request, a site and its policy. *)

ConsentDenied(in, row) == (row.gpc /\ in.gpc) \/ (row.dnt /\ in.dnt)

HasValidConsent(in, s) ==
    \/ s \in in.consents
    \/ in.header
    \/ in.legacy /\ now <= LegacyCutoff

PolicyToMode(in, row) ==
    CASE row.mode = "consent-required" ->
            IF HasValidConsent(in, row.id) THEN "permissive" ELSE "consent-required"
      [] row.mode = "hybrid" ->
            IF HasValidConsent(in, row.id) THEN "hybrid-post" ELSE "hybrid-pre"
      [] OTHER -> row.mode

AllowsIdentifier(mode) == mode \in {"current", "permissive", "hybrid-post"}

EnforcesEventAllowlist(mode) == mode \in {"consent-free", "hybrid-pre"}

(* Mutation of AllowIdentity: the legacy flags decide alone. *)
AllowIdentityLegacyFlags(in, row) ==
    /\ ~ConsentDenied(in, row)
    /\ ConsentRequired => in.header

AllowIdentity(in, row) ==
    /\ ~ConsentDenied(in, row)
    /\ ConsentRequired => in.header
    /\ AllowsIdentifier(PolicyToMode(in, row))

EventNameAllowed(name, row) == row.allowlist = {} \/ name \in row.allowlist

(* HexCookieIDHash: one hash per site and cookie. NoCookie has none. *)
CookieHash(row, cookie) ==
    IF cookie = NoCookie THEN <<>> ELSE <<row.id, cookie>>

(* Mutation of IsOptedOut: only the per-site cookie is looked at. *)
IsOptedOutCookieOnly(in, row, hash) == row.id \in in.optouts

IsOptedOut(in, row, hash) == row.id \in in.optouts \/ hash \in suppressed

---------------------------------------------------------------------------
(* Requests. *)

Steps == {"gate", "walk", "serve", "exact", "alt", "consent", "filter", "identity",
          "previous", "burst", "bloom", "append"}

(* A request's locals. The last six are ghosts: the events that may carry  *)
(* an identifier; the length of the log and the opt-outs at its arrival;   *)
(* and of the sample it passed the gate with: how long ago the log was     *)
(* below the threshold, how long the walk took and whether it failed.      *)
Idle ==
    [pc |-> "idle", in |-> <<>>, i |-> 1, row |-> NoSite, cookie |-> NoCookie,
     chash |-> <<>>, uid |-> FALSE, enforce |-> FALSE, hash |-> <<>>,
     prev |-> <<>>, isNew |-> FALSE, out |-> <<>>, status |-> 0,
     basis |-> {}, from |-> 0, optedOut |-> {}, lag |-> 0, took |-> 0,
     misread |-> FALSE]

Ev(r) == req[r].in.events[req[r].i]

Put(r, state) == req' = [req EXCEPT ![r] = state]

(* The request is answered; its locals go, what happened to it stays. *)
Answer(r, status, out) ==
    Put(r, [Idle EXCEPT !.pc = "done", !.in = req[r].in, !.status = status,
                        !.out = out, !.lag = req[r].lag, !.took = req[r].took,
                        !.misread = req[r].misread])

(* The loop goes on to the next event, or the request is answered 202.     *)
(* The cookie is all that one event leaves to the next.                    *)
NextEvent(r, outcome) ==
    LET out == Append(req[r].out, outcome) IN
    IF req[r].i = Len(req[r].in.events)
    THEN Answer(r, 202, out)
    ELSE Put(r, [req[r] EXCEPT !.pc = "exact", !.i = @ + 1, !.row = NoSite,
                   !.chash = <<>>, !.uid = FALSE, !.enforce = FALSE,
                   !.hash = <<>>, !.prev = <<>>, !.isNew = FALSE, !.out = out])

Drop == dropped' = dropped + 1 /\ UNCHANGED <<received, accepted>>

Fault ==
    /\ faults < MaxFaults
    /\ faults' = faults + 1

(* What no step of a request touches. *)
Ambient == UNCHANGED <<now, envVars, suppressed, stops, life>>

---------------------------------------------------------------------------
(* The middlewares: fast reject, rate limit, back-pressure. *)

(* fastReject: a prefetch, or a User-Agent that is no browser's. *)
FastReject(in) == in.shape = "fast"

RefusedOutright(r, in, status) ==
    /\ req[r].pc = "idle"
    /\ Put(r, [Idle EXCEPT !.pc = "done", !.in = in, !.status = status])
    /\ Drop
    /\ UNCHANGED <<fillVars, burstVars, bloomVars, rowVars, faults>>
    /\ Ambient

ArriveRejected(r, in) == FastReject(in) /\ RefusedOutright(r, in, 204)

(* The rate limiter's per-IP windows are a free choice here. *)
ArriveLimited(r, in) == ~FastReject(in) /\ RefusedOutright(r, in, 429)

Arrive(r, in) ==
    /\ req[r].pc = "idle"
    /\ ~FastReject(in)
    /\ Put(r, [Idle EXCEPT !.pc = "gate", !.in = in, !.from = Len(log),
                           !.optedOut = suppressed])
    /\ UNCHANGED <<fillVars, burstVars, bloomVars, rowVars, faults, metricVars>>
    /\ Ambient

(* degraded() answered: 503, or on to the handler. *)
GateAnswer(r, degraded) ==
    \/ /\ degraded
       /\ Drop
       /\ Answer(r, 503, <<>>)
    \/ /\ ~degraded
       /\ UNCHANGED metricVars
       /\ Put(r, [req[r] EXCEPT !.pc = "serve", !.lag = now - lastBelow,
                                !.took = took', !.misread = misread'])

(* A request that finds the gate's lock taken waits at "gate". *)
Backpressure(r) ==
    /\ req[r].pc = "gate"
    /\ \E degraded \in BOOLEAN : DegradedCached(degraded) /\ GateAnswer(r, degraded)
    /\ UNCHANGED <<burstVars, bloomVars, rowVars, faults>>
    /\ Ambient

BeginWalk(r) ==
    /\ req[r].pc = "gate"
    /\ StartWalk
    /\ Put(r, [req[r] EXCEPT !.pc = "walk"])
    /\ UNCHANGED <<burstVars, bloomVars, rowVars, faults, metricVars>>
    /\ Ambient

EndWalk(r) ==
    /\ req[r].pc = "walk"
    /\ \E degraded \in BOOLEAN :
          /\ \/ DegradedSample(degraded) /\ UNCHANGED faults
             \/ DegradedMisread(degraded) /\ Fault
          /\ GateAnswer(r, degraded)
    /\ UNCHANGED <<burstVars, bloomVars, rowVars>>
    /\ Ambient

---------------------------------------------------------------------------
(* serve: the body, then for each event the site, the gates, the pipeline  *)
(* and the log.                                                            *)

(* parseBody: more than 8 KB, or not an event and not ten events at most. *)
ParseError(in) == in.shape \in {"large", "invalid"}

Serve(r) ==
    /\ req[r].pc = "serve"
    /\ received' = received + 1
    /\ UNCHANGED accepted
    /\ LET in == req[r].in IN
       \/ /\ ParseError(in)
          /\ dropped' = dropped + 1
          /\ Answer(r, 400, <<>>)
       \/ /\ ~ParseError(in) /\ in.events = <<>>
          /\ dropped' = dropped + 1
          /\ Answer(r, 204, <<>>)
       \/ /\ ~ParseError(in) /\ in.events # <<>>
          /\ UNCHANGED dropped
          /\ Put(r, [req[r] EXCEPT !.pc = "exact"])
    /\ UNCHANGED <<fillVars, burstVars, bloomVars, rowVars, faults>>
    /\ Ambient

(* One query of lookupExactPolicy for host h: a row, or next. A query that *)
(* fails is answered like one that finds nothing.                          *)
Query(r, h, next) ==
    \/ /\ registry[h] # NoSite
       /\ Put(r, [req[r] EXCEPT !.pc = "consent", !.row = registry[h]])
       /\ UNCHANGED <<metricVars, faults>>
    \/ registry[h] = NoSite /\ UNCHANGED faults /\ next
    \/ registry[h] # NoSite /\ Fault /\ next

LookupExact(r) ==
    /\ req[r].pc = "exact"
    /\ Query(r, Ev(r).host, /\ Put(r, [req[r] EXCEPT !.pc = "alt"])
                            /\ UNCHANGED metricVars)
    /\ UNCHANGED <<fillVars, burstVars, bloomVars, rowVars>>
    /\ Ambient

(* The second query; an unknown hostname ends the request, the rest of the *)
(* batch included, with 204.                                               *)
LookupAlt(r) ==
    /\ req[r].pc = "alt"
    /\ Query(r, Alt[Ev(r).host],
             Drop /\ Answer(r, 204, Append(req[r].out, "unknown")))
    /\ UNCHANGED <<fillVars, burstVars, bloomVars, rowVars>>
    /\ Ambient

(* Whether the visitor's signals and the site's policy permit an           *)
(* identifier, in the words of the mode table and the privacy rules: the   *)
(* yardstick of the ghost basis, independent of AllowIdentity.             *)
Permitted(in, row) ==
    /\ ~(row.gpc /\ in.gpc) /\ ~(row.dnt /\ in.dnt)
    /\ ConsentRequired => in.header
    /\ row.mode # "consent-free"
    /\ row.mode \in {"consent-required", "hybrid"} =>
          row.id \in in.consents \/ in.header \/ (in.legacy /\ now <= LegacyCutoff)

(* ValidateAndSanitize: names outside the charset or too many properties   *)
(* reject the event; cleaning the free-form fields changes no field here.  *)
ValidEvent(r) == Ev(r).valid

(* ValidateAndSanitize, then consent: the cookie of this request is read   *)
(* or minted once, at the first event that allows identity, and hashed for *)
(* this event's site. A minted cookie is a fresh value: the request's name.*)
Consent(r) ==
    /\ req[r].pc = "consent"
    /\ LET in     == req[r].in
           row    == req[r].row
           allow  == AllowIdentity(in, row)
           held   == IF in.cookie # NoCookie THEN in.cookie ELSE r
           cookie == IF allow /\ req[r].cookie = NoCookie
                     THEN held ELSE req[r].cookie
       IN \/ ~ValidEvent(r) /\ Drop /\ NextEvent(r, "dropped")
          \/ /\ ValidEvent(r)
             /\ UNCHANGED metricVars
             /\ Put(r, [req[r] EXCEPT
                   !.pc = "filter", !.cookie = cookie,
                   !.chash = CookieHash(row, cookie),
                   !.uid = allow /\ Ev(r).uid,
                   !.enforce = EnforcesEventAllowlist(PolicyToMode(in, row)),
                   !.basis = IF Permitted(in, row) THEN @ \cup {req[r].i} ELSE @])
    /\ UNCHANGED <<fillVars, burstVars, bloomVars, rowVars, faults>>
    /\ Ambient

Filtered(r) ==
    \/ IsOptedOut(req[r].in, req[r].row, req[r].chash)
    \/ req[r].enforce /\ ~EventNameAllowed(Ev(r).name, req[r].row)

(* The opt-out and the allow-list. *)
Filter(r) ==
    /\ req[r].pc = "filter"
    /\ \/ Filtered(r) /\ Drop /\ NextEvent(r, "dropped")
       \/ /\ ~Filtered(r)
          /\ UNCHANGED metricVars
          /\ Put(r, [req[r] EXCEPT !.pc = "identity"])
    /\ UNCHANGED <<fillVars, burstVars, bloomVars, rowVars, faults>>
    /\ Ambient

(* Enrich, stage 1: the hash of today (CurrentSalt) ... *)
Identity(r) ==
    /\ req[r].pc = "identity"
    /\ Put(r, [req[r] EXCEPT !.pc = "previous",
                 !.hash = CurrentHash(req[r].row.id, req[r].in.visitor, req[r].row.tz)])
    /\ UNCHANGED <<fillVars, burstVars, bloomVars, rowVars, faults, metricVars>>
    /\ Ambient

(* ... and, on a second reading of the clock, the hash of yesterday        *)
(* (PreviousSalt).                                                         *)
PreviousIdentity(r) ==
    /\ req[r].pc = "previous"
    /\ Put(r, [req[r] EXCEPT !.pc = "burst",
                 !.prev = PreviousHash(req[r].row.id, req[r].in.visitor, req[r].row.tz)])
    /\ UNCHANGED <<fillVars, burstVars, bloomVars, rowVars, faults, metricVars>>
    /\ Ambient

(* Mutation of BurstGate: the filter is marked before the guard is asked. *)
BurstGateAfterMark(r) ==
    /\ req[r].pc = "burst"
    /\ \/ /\ Allow(req[r].hash)
          /\ CountPass(req[r].hash)
          /\ UNCHANGED <<metricVars, bloomVars>>
          /\ Put(r, [req[r] EXCEPT !.pc = "bloom"])
       \/ /\ ~Allow(req[r].hash)
          /\ Drop /\ NextEvent(r, "dropped")
          /\ Mark(req[r].hash, req[r].prev)
          /\ UNCHANGED burstVars
    /\ UNCHANGED <<fillVars, rowVars, faults>>
    /\ Ambient

(* The burst guard. *)
BurstGate(r) ==
    /\ req[r].pc = "burst"
    /\ \/ /\ Allow(req[r].hash)
          /\ CountPass(req[r].hash)
          /\ UNCHANGED metricVars
          /\ Put(r, [req[r] EXCEPT !.pc = "bloom"])
       \/ /\ ~Allow(req[r].hash)
          /\ Drop /\ NextEvent(r, "dropped")
          /\ UNCHANGED burstVars
    /\ UNCHANGED <<fillVars, bloomVars, rowVars, faults>>
    /\ Ambient

(* Newness that an event used up and did not bring to the log. *)
Lose(r, isNew) ==
    lost' = IF isNew THEN lost \cup {<<req[r].row.id, req[r].in.visitor>>} ELSE lost

(* Stage 2, CheckAndMark, and the rest of Enrich, which reads only its     *)
(* argument: the bot gate of the site.                                     *)
Bloom(r) ==
    /\ req[r].pc = "bloom"
    /\ Mark(req[r].hash, req[r].prev)
    /\ LET isNew == IsNew(req[r].hash, req[r].prev)
           botDrop == req[r].in.visitor \in Bots /\ ~req[r].row.bots
       IN \/ botDrop /\ Drop /\ NextEvent(r, "dropped") /\ Lose(r, isNew)
          \/ /\ ~botDrop
             /\ UNCHANGED <<metricVars, lost>>
             /\ Put(r, [req[r] EXCEPT !.pc = "append", !.isNew = isNew])
    /\ UNCHANGED <<fillVars, burstVars, log, faults>>
    /\ Ambient

(* The EnrichedEvent. straddles is a ghost: midnight passed between the    *)
(* two readings of the clock.                                              *)
LogRow(r) ==
    [req |-> r, i |-> req[r].i, host |-> Ev(r).host, site |-> req[r].row.id,
     visitor |-> req[r].in.visitor, date |-> req[r].hash[3],
     straddles |-> req[r].prev[3] # req[r].hash[3] - 1,
     cookie |-> req[r].chash, uid |-> req[r].uid, isNew |-> req[r].isNew,
     allowed |-> req[r].i \in req[r].basis,
     basis |-> req[r].basis # {}, from |-> req[r].from, life |-> life,
     late |-> req[r].chash \in req[r].optedOut]

(* AppendAndWait returns after the fsync. *)
AppendOk(r) ==
    /\ req[r].pc = "append"
    /\ log' = Append(log, LogRow(r))
    /\ accepted' = accepted + 1
    /\ NextEvent(r, "logged")
    /\ UNCHANGED <<received, dropped, lost, fillVars, burstVars, bloomVars, faults>>
    /\ Ambient

(* Mutation of AppendErr: the loop goes on and the request ends with 202. *)
AppendErrContinue(r) ==
    /\ req[r].pc = "append"
    /\ Fault
    /\ Lose(r, req[r].isNew) /\ UNCHANGED log
    /\ Drop
    /\ NextEvent(r, "lost")
    /\ UNCHANGED <<fillVars, burstVars, bloomVars>>
    /\ Ambient

(* AppendAndWait fails: 503. The caller cannot know whether the event was  *)
(* logged all the same (its context ended while the syncer worked).        *)
AppendErr(r) ==
    /\ req[r].pc = "append"
    /\ Fault
    /\ \/ log' = Append(log, LogRow(r)) /\ UNCHANGED lost
       \/ UNCHANGED log /\ Lose(r, req[r].isNew)
    /\ Drop
    /\ Answer(r, 503, Append(req[r].out, "lost"))
    /\ UNCHANGED <<fillVars, burstVars, bloomVars>>
    /\ Ambient

---------------------------------------------------------------------------
(* The surroundings. *)

(* OptOut of a visitor who presents a _statnive cookie; Add makes it       *)
(* durable before the 204.                                                 *)
OptOut(s, c) ==
    /\ <<s, c>> \notin suppressed
    /\ suppressed' = suppressed \cup {<<s, c>>}
    /\ UNCHANGED <<now, fillVars, burstVars, bloomVars, envVars, req, rowVars,
                   metricVars, faults, stops, life>>

(* UpdateSitePolicy: an admin changes a site's row; the mutation is        *)
(* synchronous, so the next lookup sees it.                                *)
UpdateSite(row) ==
    /\ updates < MaxUpdates
    /\ updates' = updates + 1
    /\ \E h \in Hosts : registry[h].id = row.id
    /\ registry' = [h \in Hosts |-> IF registry[h].id = row.id THEN row ELSE registry[h]]
    /\ UNCHANGED <<now, fillVars, burstVars, bloomVars, fills, suppressed, req,
                   rowVars, metricVars, faults, stops, life>>

(* The process ends; requests under way are cut off without an answer, the *)
(* log, the sites and the opt-outs stay. The next start follows at once.   *)
CutOff ==
    /\ stops < MaxStops
    /\ stops' = stops + 1
    /\ req' = [r \in Reqs |->
                 IF req[r].pc \in Steps
                 THEN [Idle EXCEPT !.pc = "cut", !.in = req[r].in, !.out = req[r].out]
                 ELSE req[r]]
    /\ lost' = lost \cup {<<req[r].row.id, req[r].in.visitor>> :
                             r \in {q \in Reqs : req[q].pc = "append" /\ req[q].isNew}}
    /\ BurstReset
    /\ cachedAbove' = FALSE /\ lastChecked' = -Ttl
    /\ walk' = NoWalk /\ misread' = FALSE /\ took' = 0
    /\ received' = 0 /\ accepted' = 0 /\ dropped' = 0
    /\ UNCHANGED <<now, above, lastBelow, envVars, suppressed, log, faults>>

(* SIGTERM: Shutdown waits ten seconds for the handlers, then the filter   *)
(* is saved.                                                               *)
Stop == CutOff /\ BloomStop /\ UNCHANGED life

Kill == CutOff /\ BloomKill /\ life' = life + 1

Time ==
    /\ Tick
    /\ UNCHANGED <<burstVars, bloomVars, envVars, suppressed, req, rowVars,
                   metricVars, faults, stops, life>>

Fill ==
    /\ fills < MaxFills
    /\ fills' = fills + 1
    /\ FillMoves
    /\ UNCHANGED <<now, burstVars, bloomVars, registry, updates, suppressed, req, rowVars,
                   metricVars, faults, stops, life>>

(* No request is under way: the server waits. *)
Quiet ==
    /\ \A r \in Reqs : req[r].pc \notin Steps
    /\ UNCHANGED vars

Init ==
    /\ GatesInit
    /\ registry = Registry /\ suppressed = {}
    /\ req = [r \in Reqs |-> Idle]
    /\ log = <<>> /\ lost = {}
    /\ received = 0 /\ accepted = 0 /\ dropped = 0
    /\ faults = 0 /\ stops = 0 /\ updates = 0 /\ fills = 0 /\ life = 0

Step(r) ==
    \/ Backpressure(r) \/ BeginWalk(r) \/ EndWalk(r) \/ Serve(r)
    \/ LookupExact(r) \/ LookupAlt(r) \/ Consent(r) \/ Filter(r)
    \/ Identity(r) \/ PreviousIdentity(r) \/ BurstGate(r) \/ Bloom(r)
    \/ AppendOk(r) \/ AppendErr(r)

Requests ==
    \/ \E r \in Reqs, in \in Inputs :
          ArriveRejected(r, in) \/ ArriveLimited(r, in) \/ Arrive(r, in)
    \/ \E r \in Reqs : Step(r)

Next ==
    \/ Requests
    \/ \E s \in Sites, c \in Cookies : OptOut(s, c)
    \/ \E row \in Updates : UpdateSite(row)
    \/ Stop \/ Kill \/ Time \/ Fill \/ Quiet

Spec == Init /\ [][Next]_vars
---------------------------------------------------------------------------
(* Properties. *)

Rows == DOMAIN log

SameVisitor(m, n) == m.site = n.site /\ m.visitor = n.visitor

(* CheckAndMark is atomic: however requests interleave, a visitor has one  *)
(* new row per site and date, unless the process ended without saving the  *)
(* filter in between.                                                      *)
NewOncePerDate ==
    \A p, q \in Rows :
        LET m == log[p]
            n == log[q]
        IN p # q /\ SameVisitor(m, n) /\ m.date = n.date /\ m.isNew /\ n.isNew
              => m.life # n.life

(* Cross-day grace: a visitor with a row in the log when a request arrives *)
(* is not new in that request, on the same date, or on the next one unless *)
(* midnight passed between the two readings of the clock that give today's *)
(* and yesterday's hash: CurrentSalt before it and PreviousSalt after it   *)
(* name the same day, and the mark of the day before is not asked for. It  *)
(* holds over orderly restarts.                                            *)
ReturningNotNew ==
    \A p, q \in Rows :
        LET m == log[p]
            n == log[q]
        IN /\ p <= n.from /\ SameVisitor(m, n) /\ m.life = n.life
           /\ n.date = m.date \/ (n.date = m.date + 1 /\ ~n.straddles)
           => ~n.isNew

(* The burst guard stands before the filter so that a rejected event never *)
(* makes a visitor returning: a row that is not new has a new row of the   *)
(* same visitor, in the log or on its way, or one that was lost after it   *)
(* was marked.                                                             *)
NewnessAccounted ==
    \A p \in Rows : ~log[p].isNew =>
        \/ \E q \in Rows : SameVisitor(log[p], log[q]) /\ log[q].isNew
        \/ <<log[p].site, log[p].visitor>> \in lost
        \/ \E r \in Reqs : /\ req[r].pc = "append" /\ req[r].isNew
                           /\ req[r].row.id = log[p].site
                           /\ req[r].in.visitor = log[p].visitor

(* The guard's windows are fixed: within any span of a window's length at  *)
(* most twice the cap passes for one visitor hash.                         *)
BurstBound ==
    Cap > 0 =>
        \A h \in Hashes, t \in 0..MaxTime :
            Cardinality({k \in DOMAIN passed[h] : passed[h][k] \in t..(t + Window - 1)})
                <= 2 * Cap

(* Back-pressure: a request is admitted only if the log was below the      *)
(* threshold less ago than a TTL and the walk behind its sample took, or   *)
(* if that walk failed. The walk counts because the sample is stamped      *)
(* after it.                                                               *)
AdmittedRecently ==
    \A r \in Reqs : req[r].misread \/ req[r].lag < Ttl + req[r].took

(* An identifier reaches the log only in a request of which some event, up *)
(* to that one, was sent to a site whose policy permits it.                *)
IdentifierHasBasis ==
    \A p \in Rows : log[p].cookie # <<>> \/ log[p].uid => log[p].basis

(* No row carries the cookie of a visitor who had opted out of that site   *)
(* when the request arrived.                                               *)
OptOutHonoured == \A p \in Rows : ~log[p].late

(* 202 means that every event of the batch is in the log or was dropped on *)
(* purpose; and whatever the answer, what the handler took for logged is   *)
(* in the log.                                                             *)
AnswerIsTrue ==
    \A r \in Reqs :
        /\ req[r].status = 202 =>
              /\ Len(req[r].out) = Len(req[r].in.events)
              /\ \A k \in DOMAIN req[r].out : req[r].out[k] \in {"logged", "dropped"}
        /\ \A k \in DOMAIN req[r].out : req[r].out[k] = "logged" =>
              \E p \in Rows : log[p].req = r /\ log[p].i = k
=============================================================================
