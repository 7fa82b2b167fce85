# A verification of statnive-live

statnive-live is a self-hosted web-analytics server: one Go binary that takes
events from a browser tracker, makes them durable in a write-ahead log, writes
them to ClickHouse in batches, and serves a dashboard, an admin API, an MCP
server and an OAuth server over what it stored. This directory holds TLA+
models of its core, TLC configurations that check them on small instances and
TLAPS proofs for every instance: the ingest path from the request to ClickHouse,
the browser tracker, the dashboard's client and the admin console with the
API behind it. Of the 40 properties the passing runs check, 36 are also proved.

`PROJECT.json` lists the components, runs, mutations, findings, hazards and
theorems, and says which source lines every definition models.

## The system's parts

| Part | State | Operations | Who it talks to | What makes it correct |
|---|---|---|---|---|
| Write-ahead log (`internal/ingest/wal.go`) | log files, first and last index, page cache | Append, Sync, Ack (truncate), Replay, size cap, Close; a background goroutine syncs every 100 ms and applies the cap | syncer, consumer, start-up | what was synced survives; truncation removes only what is settled |
| Group commit (`walgroup.go`) | request channel, batch, timer, output channel | AppendAndWait, Close; one loop goroutine: collect, append, fsync once, answer, hand on | handlers, log, consumer | 202 only after fsync; every waiter answered; order kept |
| Consumer (`consumer.go`, `storage/clickhouse.go`) | batch, last received index | collect by rows, bytes or time; insert with retries; acknowledge; drain at shutdown | syncer, log, ClickHouse | acknowledges only what is stored; loses nothing |
| Process (`cmd/statnive-live/main.go`) | the lifecycle | open log, replay, run, signal, orderly stop | all of these | replay brings back what a crash left; shutdown ends |
| Event handler (`handler.go`, `enrich/`) | per request: the cookie; shared: bloom filter, burst windows | parse, gate by site policy, consent, opt-out, enrich, append | sites registry, privacy, log | no identifier without consent; a visitor is new once |
| Back-pressure, burst and rate limits | cached fill flag, fixed windows | refuse with 503/429, drop | log size | the log does not pass its cap; limits hold |
| Identity (`identity/`) | salts per site and day | current and previous salt | enrichment | one visitor has one hash per site day |
| Sessions, users, lockout (`auth/`) | users and sessions as versioned rows, session cache, failure counts | login, lookup, logout, password, role, disable, delete | ClickHouse, every dashboard request | a revoked session is refused within the cache's TTL |
| API tokens, site grants (`auth/cached_*.go`) | token and grant rows, caches | mint, look up, revoke, grant | ClickHouse | same |
| OAuth server (`oauthas/`) | clients, codes, refresh tokens as versioned rows | authorize, consent, token, refresh | ClickHouse, sessions | a code is used once; reuse revokes the family |
| Privacy (`privacy/`) | suppression file, mutations in flight, consent cookies | opt out, export, erase, wait | handler, ClickHouse | an opt-out survives restarts; an erasure reported done is done |
| Admin API (`admin/`) | none of its own | user, site and goal changes in several steps | auth, sites, goals | a refused request changes nothing; an admin remains |
| Sites and origin index (`sites/`) | site rows, an index swapped atomically | look up, create, update, rebuild | handler, CORS | the index equals some recent state of the table |
| Goals snapshot (`goals/`) | a map swapped atomically | match, reload | enrichment, SIGHUP, admin | the last reload wins |
| Dashboard cache (`cache/`, `storage/cached_store.go`) | LRU with per-entry TTL, a lock per key | wrap, purge | ClickHouse | one load per key at a time; nothing outlives its TTL |
| MCP server (`mcp/`) | per-actor budgets | reserve, charge, note site | ClickHouse | budgets hold per window |
| Alerts, certificates, audit (`alerts/`, `cert/`, `audit/`) | current band, certificate pointer, file handles | observe, emit, reload, reopen | SIGHUP, probers | one alert per crossing; a bad reload changes nothing |
| Tracker (`tracker/src/tracker.js`) | per page: query parameters, a sentinel, the user id; per tab: session properties; per browser: consent and user properties as cookies | page views at load and at each history change, track, identify, setSession, give and withdraw consent; each event in a request of its own (sendBeacon or fetch), no retry | handler, consent endpoint | one page view per page, with its own campaign; nothing stored before a withdrawal is sent after it |
| Dashboard signals (`web/src/state/`) | URL hash, filters, date range, site, login as signals that copy each other | navigate, replace, edit a filter, pick a range, back, reload | panels, browser history, sessionStorage | the URL determines what is asked |
| Dashboard panels (`web/src/panels/`, `api/client.ts`) | per panel: data, error, request under way | effect on its dependencies, abort, answer; lazy chunks; the debounced comparison; the realtime tick | signals, HTTP API | what is shown belongs to the selection; every panel settles |
| Reports (`lib/campaignTree.ts`, `lib/chart.ts`, `Geo.tsx`, `Campaigns.tsx`, `Sources.tsx`) | the rows of the last answer, sort, open branches, metric | build a tree, sort, open, roll up, slice | panels | nothing is lost or counted twice between rows, tree, donut and list |
| Admin console (`panels/admin/`, `api/admin.ts`) | lists, drafts, forms, confirmations, busy flags | edit and save settings, pause, create, disable, delete, refresh | admin API | a button does what it said to what it was about, once |
| Queries, migrations, licensing, tools | - | - | - | SQL and offline tools: not modelled |

The behaviours that are hard to test begin in the first four rows: goroutines
that hand events to each other through bounded channels, two goroutines that
sync the same file, a truncation that covers everything before an index,
crashes and power losses between any two of these steps, inserts that fail
after they were committed, and a shutdown in which each part waits for another.
They were modelled first. Next come the requests that run in front of them: each
takes a dozen steps over state that others share (the new-visitor filter, the
burst windows, the cached fill flag, the sites table, the opt-outs), and any of
those may change between two steps. In the browser the hard part is time: an
effect runs after the paint that scheduled it, an answer arrives when the screen
has moved on, the same fact is kept in the URL, in two signals and in
sessionStorage, and a second tab or a second admin changes what this one has
read. `PROJECT.json` lists the hazards one by one, each at
its line, with the properties that cover it.

## The modules

| Module | Content |
|---|---|
| `WriteAheadLog` | the log, its page cache and its disk; operators for WALWriter's methods |
| `GroupSyncer` | the callers' side of AppendAndWait and the syncer's loop |
| `Consumer` | the consumer's loop and ClickHouse as the consumer sees it |
| `IngestPath` | the composition: start, replay, stop, crash; the specification, its fairness and its properties |
| `DurableIngest` | the abstract contract that `IngestPath` implements |
| `IngestInvariants` | the inductive invariant, part by part |
| `MCIngestPath` | instances for TLC and a sentence of the repository that the code contradicts |
| `IngestPathProofs` | the proofs about the ingest path, in three parts: its operators, its invariant, its contract |
| `IngestGates` | the clock, the back-pressure gate, the burst guard, the new-visitor filter and `bloom.dat` |
| `EventHandler` | POST /api/event: the middlewares, `serve` with its loop over a batch, the enrichment, the append; the sites table, opt-outs, ends of the process; its properties |
| `EventHandlerProofs` | the proofs about the event handler |
| `MCEventHandler` | instances for TLC |
| `Lists` | what `Array.prototype.sort` and `filter` return, as the web client uses them |
| `DashboardSignals` | the signals `hash`, `filters` and `range`, their codecs and effects, and what every control does to them |
| `UrlState` | the browser's history, the date picker and the filter bar over `DashboardSignals` |
| `Panels` | one panel's effect, request and answer, and the dependencies of each of the nine panels |
| `Dashboard` | the composition: login, site switcher, tabs and their chunks, two panels at once (Overview and its chart), grants, the realtime clock |
| `SiteAdmin` | the sites table and the steps in which the admin API serves a create or a PATCH |
| `SitesTab` | the list of sites, the settings modal and the new-site form over `SiteAdmin`, with another admin |
| `AdminConsole` | the composition of the three tabs: users and goals with their lists, forms and row actions |
| `DataLemmas` | lemmas about folds, sums, sorted and filtered lists |
| `UrlStateProofs`, `DashboardProofs`, `AdminProofs`, `ReportsProofs` | the proofs about `UrlState`, `Dashboard`, `AdminConsole` and `Reports` |
| `Tracker`, `TrackerProofs` | the tracker in several tabs of one browser, and the proofs about it |
| `Reports` | campaign tree, roll-ups, donuts and their lists as functions of the rows; the panel's state over successive answers |
| `MCUrlState`, `MCDashboard`, `MCAdminConsole`, `MCTracker`, `MCReports` | instances for TLC |

`WriteAheadLog`, `GroupSyncer` and `Consumer` extend each other in the order in
which the code imports them; each constrains its own variables and leaves the
later ones to the modules that use it. `IngestPath` adds the process.
`EventHandler` extends `IngestGates` and stands in front of `IngestPath`; the two
meet at AppendAndWait. `IngestPath` shows what a successful append is worth, and
`EventHandler` uses it in that form: an append succeeds and the row is in the log,
or it fails and leaves open whether the row is there. The tracker's events are
single-event inputs of `EventHandler`. `UrlState` and `Dashboard` both extend
`DashboardSignals`: the one keeps history and the picker and drops the panels, the
other keeps the panels and lets signals change only through a few edits.
`AdminConsole` extends `SitesTab`, which extends `SiteAdmin`. `DashboardSignals` and
`Reports` extend `Lists`, which defines a sorted list by the place of each element
(the number of elements before it) and a filtered list by the places that are kept: TLC
evaluates these definitions and the prover can reason about them, which it cannot
about `SortSeq` and `SelectSeq`. `UrlStateProofs` and `ReportsProofs` extend `DataLemmas`.

### State and code: the ingest path

* An event is a model value; it is sent once. `hist[i]` is the entry with index
  `i`; `first` is tidwall's first index; `disk` are the entries that a power loss
  leaves; `forgotten` are entries whose pages a failed fsync marked clean
  (Linux's behaviour, quoted in `walgroup.go`); `corrupt` entries do not decode
  and are skipped by Replay.
* `status[e]` is what the tracker knows: waiting, 202, 503, or nothing. The
  syncer's answer and the handler's response are one step.
* `gpc` and `cpc` are the control states of the loop and of the consumer: one
  step per channel operation, append, fsync, insert, acknowledgement. The batch
  that is being flushed stays in `pending` (`cbatch`) until flush returns.
* `timerActive` is the loop's flag, `armed` the runtime timer, as in the code
  two things that have to agree.
* The consumer's byte trigger is a free choice (`big`), its ticker and the
  syncer's timer fire at any time they are set, backoffs end at any time.
* `copies[e]` counts the rows of an event in ClickHouse. An insert that returns
  an error may have been committed. InsertBatch tries twice within each attempt of
  insertWithRetry. An insert whose context is cancelled does not start (the
  client checks the context before it sends), which is why nothing is inserted
  after the signal.
* Ghost variables record the three ways in which the code gives an acknowledged
  event away: `abandoned` (attempts exhausted), `evicted` (size cap; an entry that
  no longer decodes is `corrupt` and was lost before the cap removed it) and
  `swallowed` (a failed fsync was logged and ignored). `starts` and `unsure` bound
  duplicates.

### What is left out of the ingest path

* A log that tidwall refuses to open after a torn write: the process does not
  start until an operator acts.
* Which tail segments a truncation rewrites is a free choice; segment files, gob
  encoding and a partially written entry (ENOSPC) are not represented.
* The consumer's "channel closed" branch: main never closes the channel while the
  consumer runs.
* A handler whose context ends before its request is queued: the event was never
  sent as far as the model is concerned. Handlers that outlive the ten seconds of
  the HTTP shutdown are cut off when the process ends.
* Metrics, log lines, audit events and the fsync latency samples.

### State and code: the event handler

* `req[r]` holds the locals of one request and its position, one step per access
  to shared state: `gate` and `walk` (back-pressure), `serve` (body), `exact` and `alt` (the two
  queries of LookupSitePolicy), `consent`, `filter` (opt-out, allow-list),
  `identity` and `previous` (the hash of today and that of yesterday, each from a reading of
  the clock of its own), `burst`, `bloom` (CheckAndMark and the bot gate), `append`. Everything
  between two of these reads only the request itself.
* `log` is the sequence of rows that reached the log; a row has the fields that
  the properties compare and no others.
* A visitor hash is `<<site, visitor, date>>`, a cookie hash `<<site, cookie>>`:
  the keyed hashes without collisions. A minted cookie is the request's name, a
  value nobody else has.
* A site's row carries its id, consent mode, signals it honours, bot flag,
  allow-list and time-zone offset; `registry` maps hostnames to rows, `Alt`
  toggles the `www.` prefix.
* Time is a tick counter; `DayLen` ticks are a day, `Window` and `Ttl` are the
  guard's window and the gate's TTL in ticks.
* `above` says whether the fill ratio is over the threshold. It changes freely
  (`Fill`): what appends and truncations do to it is the ingest path's business.
  A request that finds the cached sample too old walks the log's directory with the gate's
  lock held (`walk`): the fill and the clock may move between the start of the walk
  and its end, when the result is stored and stamped. Requests that come meanwhile wait.
* Ghosts: `basis` (the events of the request whose site permits an identifier, in
  terms of the policy and not of AllowIdentity), `from` and `optedOut` (the log and
  the opt-outs at arrival), `lag`, `took` and `misread` (the sample a request was admitted
  on: its age, the length of its walk, its failure), `straddles` (midnight fell between the two
  readings of the clock), `passed`, `lastBelow`, `life` (kills so far), `lost` (newness used up by an
  event that was not logged).

Left out: the 405 for other methods and CORS; the rate limiter's windows (a free
choice between 429 and going on); false positives of the bloom filter and a
`bloom.dat` that does not load; cleaning of free-form fields and the geo,
User-Agent, channel and goal enrichment, which only fill columns; DST days and the
switch from the legacy time zone; ActiveVisitors, a diagnostic. The guard's clock is
read just before its lock; here both are one step.

### State and code: the dashboard

* A filter is a name from `FilterKeys`; text is a small set, a date is a day
  number, `NoDay` an absent and `BadDay` an ill-formed one. A property name or
  value is a sequence of words between colons, so that the `name:value` encoding
  and its decoding at the first colon are what they are in the code.
* The two `effect`s of `filters.ts` and `range.ts` run inside the write that
  triggers them, as signals do: `WriteHash`, then `FiltersEffect`, then
  `RangeEffect`.
* A URL is a record of panel and parameters; `hist` and `pos` are the session's
  history. `hashchange` is a step of its own (`Resync`), so URL and signal differ
  between a traversal and its event.
* `Panel(name)` is the table of what each panel reads when its effect runs, what it
  lists as dependencies and what it sends. A render compares the dependencies and
  schedules the effect; the effect (a step of its own, after paint) aborts the
  request under way, reads the signals and sends; the answer arrives in any later
  step or not at all.
* The data in an answer is the query it answers. So "the panel shows the data of
  the selection" is an equation between what a panel holds and the signals.
* `cache` and `loads` are the chunks fetched and under way; `lazy` is LazyPanel.
  `site` is id (what `apiGet` sends), active and list (SiteSwitcher) and the
  sessionStorage copy. `grants` is the server's side: a request for a site that is
  no longer granted is answered 403 and `clearStaleActiveSite` runs.

### State and code: the admin console

* `store` is the sites table, the rows in the order they were inserted (the table has no
  key, so two rows may have one number): a row has number, hostname and slug, the policy fields
  that Validate relates, a time zone for the attributes and the enabled flag. Origins are
  told apart as far as NormalizeOrigin does.
* `calls` are requests under way with the stage that the server has reached: a
  PATCH looks the row up, checks origins, writes the policy, the attributes, the
  flag; a create looks for the hostname among the live sites, for the slug among all,
  reads the last number and inserts; each is a step, and one may fail in any of them. A list
  that was read empty is left out of the write of the policy (`Left`). The ghost `spared`
  are the rows whose last policy write left a list of events as it was, `toggled` is
  what was last asked of each row's flag.
* `modal`, `form` and the lists are component state with the mount they belong
  to: an answer to a component that is gone changes nothing that is shown, but what
  it does through the parent (refresh, close) happens.
* Users and goals are entries in a list of a site. A row's `confirming` and
  `busy` live with the row's key; `born` is the list that mounted the row's
  component. `clicked` (a ghost) are the accounts whose Delete was clicked and not
  cancelled since.
* `sitting` is a bound on a behaviour: what the operator works on (settings, new sites or
  lists), how many operations and how many faults.

### State and code: the tracker

* `doc[t]` is the document of a tab with the script's variables; `jar` are the
  cookies all tabs share, `session[t]` is a tab's sessionStorage. One action is
  one browser task. A property value is the number of withdrawals before it was
  stored, plus one.
* Back and forward change the URL first and raise popstate in a later step.

### State and code: the reports

* A campaign row's `path` is its campaign, source, medium and content as
  numbers, 0 for the empty text; the tree is the set of its nodes, each a level and a
  path, and a key is the path as pathKey joins it. Terms are collected in a list that no property
  is about and are left out.
* A donut is a sequence of slices with name, value and hue; the list beside it is
  a sequence with the same fields.
* `ops` bounds answers, clicks and tab changes together.

## What the runs show

Channels and batches have the smallest sizes at which "full", "not full" and "one
left over" all occur.

| Run | Instance | Shows |
|---|---|---|
| `crash_restart` | 3 events, batches of 2, request channel 2, consumer channel 1, a cap of two entries, two failed inserts, one kill or signal | no acknowledged event is lost (`AckedAccounted`); no entry waits for a restart (`NothingStranded`); the pipe carries the log's tail (`PipeInOrder`); duplicates are bounded (`AtMostOncePerStart`); the timer and its flag agree (`NoStrandedBatch`) |
| `contract` | 2 events, a cap of one entry, every kind of fault, one fault and one stop, fair | `IngestPath` implements `DurableIngest`; what was answered 202 is on disk (`AckedDurable`); every truncation is safe (`TruncatesOnlySettled`) although the cap is measured before it is applied; `AckedSettles`, `CallersAnswered`, `ShutdownCompletes`; `TypeOK` |
| `visitors` | 2 requests of one event from a visitor or a bot, a cap of 1 per window of 2 ticks, midnights at ticks 1 and 3, times 0 to 3, one fault, one kill or stop | a visitor has one new row per date (`NewOncePerDate`); one who is in the log is not new, across orderly restarts and midnight, unless midnight fell between the two readings of the clock (`ReturningNotNew`); a refused event never uses up newness (`NewnessAccounted`); nobody is admitted on a sample older than the TTL and the walk it comes from (`AdmittedRecently`) |
| `batches` | 1 request out of 33: batches of up to 5 events over two sites with and without consent, signals, opt-out and legacy cookies, malformed events and bodies; one policy change, one fault, opt-outs at any time | no identifier without a basis in the request (`IdentifierHasBasis`); an opt-out that precedes the request is honoured (`OptOutHonoured`); 202 is true (`AnswerIsTrue`); of five events in a row, over the end of a window of 2 ticks with a cap of 2, at most four pass in a window's length (`BurstBound`) |
| `url_state` | 2 tabs, 3 links (plain, a shared report, an old link with an unknown panel, bad dates and malformed properties), properties whose names and values hold a colon, days 100 and 101, a history of 3, 4 actions | the URL alone determines the filters (`UrlDeterminesFilters`); a property filter whose name holds no colon comes back as asked (`AskedIsShown`); the dates of the requests are the URL's when it has any (`RangeFollowsUrl`) |
| `dashboard` | 4 tabs (plain, lazy, debounced, ticking), 2 sites, one or both granted, a path and a property filter, one range, 2 operations, one tick, one fault (an error, a withdrawn grant, a failed chunk or list) | a settled panel shows the data of the site, dates and all filters on the screen, except for a filter that it overlooks and that was edited after its last request (`SettledData`); the tab on the screen is the URL's (`TabIsShown`); a reload asks for the same site (`ReloadKeepsSite`); every panel shows data or an error in the end (`PanelSettles`) |
| `admin_console` | 2 sites, a new one and one with the hostname of the second, 2 accounts or goals, four kinds of sitting: 4 operations on settings, 3 with a failed request, 3 on new sites with one, 4 on lists with one; another admin with three patches and the same new sites | no interleaving stores a policy that Validate refuses, but for a list of events that a save left as another admin had stored it (`StoredPolicyValid`); a pause is not undone by a save (`EnabledAsAsked`); a form creates once (`CreatedOnce`); a busy form or save is held by exactly one request of its own, a free one by none (`HeldByRequest`); the account deleted is the one that was confirmed (`DeleteConfirmed`) |
| `tracker` | 2 tabs, 2 pages of which one has campaign parameters, 8 browser tasks | `OneViewPerNavigation`, `UserPropsCurrent`, `TypeOK` |
| `reports` | answers of up to 4 rows with shared sources, absent content, an absent campaign, ties and zeros; `TOP_N` of 3 and a palette of 3; 7 operations | each level of the tree accounts for every row once (`TreeAccounted`); a branch is open exactly if it was left open and did not vanish (`OpenAsClicked`); siblings are in the order asked for (`SortedAsAsked`); slices add up to the centre (`CentreIsSum`); each slice has its line in the list, with its hue where the code means them to agree (`SlicesListed`) |
| `outage_zero_loss`, `omitted_unchanged`, `campaign_keys` | the instances above | the findings below |

Three events are enough for a full batch and a remainder, and for an entry
before, in and after the batch that is lost; one entry of channel capacity is
enough for a blocked sender. A second stop or fault brings no new interleaving of
two steps: the state after a crash depends only on the log and ClickHouse. The
proofs do not depend on any of these bounds.

In front of the log, two requests are enough for one to come between any two
steps of the other: a first and a second visit on one date, on either side of a
midnight, or with a midnight between two steps of either; the times span two midnights
and a window's end, and a walk may last from one to the other. The properties of `batches` are about one request against an admin and a visitor, so
one request with many shapes says more than two with few.

In the browser two operations are enough for a selection, its request and a
newer selection that overtakes it; the fault or the tick supplies a third. Four
actions on the URL are a link, an edit, back and forward. In the admin console
three operations are an edit, a save and a click during the save, with the other
admin between any two steps of the server; a fourth is an edit by the other admin before all of
it. Three operations on new sites are two creates that overlap, the one of the form and
one of the other admin, and a pause that frees a hostname. Eight tasks of the tracker are two
loads, two evaluations, consent given and withdrawn in two tabs and an event. Two
campaigns, two sources and content that is there or not are all the coincidences of keys there are.

Events, requests and tabs are interchangeable, so these safety runs use
symmetry; the runs with liveness do not. The browser's runs allow a deadlock: the operator may stop, and the bounds on
operations end a behaviour. In the server's runs deadlock is checked; `Idle` (in `EventHandler`: `Quiet`) is
the state in which the server legitimately waits for a request, so a deadlock
would be a request that cannot go on.

### Fairness

Weak fairness of the loop, the consumer (success or failure of an insert alike),
the replay and the steps of the shutdown: they are goroutines of one Go process,
which the runtime keeps scheduling, and none waits for anything but a channel or
a timer. Weak fairness of `Boot`: the process runs under systemd with
`Restart=always`. No fairness for requests, signals, kills, faults, the callers'
timeouts or the fsync ticker. Faults are bounded in number (`MaxFaults`), which
for liveness means that ClickHouse recovers eventually. In `Dashboard` the effects
that a paint scheduled, the debounce timer and the answers to panels, the list of
sites and chunks are weakly fair: the browser runs due effects and timers, and a
request ends with an answer or an error. Nothing the operator does is fair. The
other modules state no fairness and no liveness property.

## Findings

1. **A ClickHouse outage loses acknowledged events** (`outage_zero_loss`,
   `consumer.go:154`). When the attempts for a batch are exhausted the batch is
   dropped from memory. The comment says the next flush retries from the same
   index; nothing does, and the next batch that succeeds acknowledges the log
   past it.
2. **A settings PATCH reverts what it does not name** (`omitted_unchanged`,
   `sites_handlers.go:407`). The handler reads the whole policy, overlays the fields of
   the request and writes all of it. `admin.ts:386` says that omitted fields are left
   unchanged; another admin's change between the read and the write is lost.
   `StoredPolicyValid` is what does hold: every column written belongs to one
   policy that was validated as a whole. A list of events read empty is not written
   (`sites.go:730`), and where another admin has stored one in between it stays, under a
   mode that may forbid it: the property names these rows (`spared`).
3. **Two branches of the campaign tree share a key** (`campaign_keys`,
   `campaignTree.ts:55`). Below an empty campaign a source's key has no separator,
   so it equals the key of the campaign of that name: opening one opens the other. Rows without a
   campaign are in the answer once a property filter is set
   (`segments_raw_handlers.go:234` lacks the condition of `queries.go:637`).

Also noted, without a run:

In the server:

* `wal.go:316`: the ticker logs a failed fsync and goes on; the pages are clean then,
  the group commit's own fsync succeeds, and its callers are told 202 for entries that
  are not on disk, although `walgroup.go:32` promises otherwise (`AckedDurable` names the exception, `swallowed`);
* `handler.go:288`: the cookie is the request's, the permission is the event's: once an
  event of one site obtained the cookie, later events of the batch for a consent-free
  site are stored with its hash. `IdentifierHasBasis` is what does hold. The bundled
  tracker sends single events;
* `sites.go:426`: the site is looked up in ClickHouse for every event, and a failed query
  is answered like an unknown hostname: 204, nothing logged (`PLAN.md:739` promises
  otherwise); `sites.go:394`: the `www.` variant is tried after a failure too, and where
  it is a site of its own the event is stored there;
* `salt.go:105` and `salt.go:114` read the clock one after the other: with midnight between
  them both hashes are of the same day, the mark of the day before is not asked for, and
  a visitor of yesterday is stored as new (`ReturningNotNew` names the exception, `straddles`);
* `backpressure.go:122`: the sample is stamped after the walk it comes from, so a request may
  be admitted on a fill as old as the TTL and the walk together (`AdmittedRecently` says so);
* `sites.go:549`: CreateSite looks for the hostname among enabled sites only, although its comment
  (`sites.go:542`) says "any enabled flag": the hostname of a paused site can be added again.
  Lookups, number and INSERT are separate statements, so two creates at once may obtain the same
  number, slug or hostname, although the comment (`sites.go:547`) calls max + 1 "safe on
  single-node" and `sites.go:883` says that duplicate rows "can only appear if migration 001
  changes engines"; every later PATCH is then written to both rows, and the console shows the first for either;
* `sites_handlers.go:395` says that what Validate forbids is rejected there; the list that
  `sites.go:730` leaves in place was not part of what it saw (finding 2);
* the check that an origin is nobody else's and the write of the origins are two steps:
  two sites may obtain one origin; the origin index is not rebuilt on enable and disable,
  and rebuilds may be swapped in the opposite order of their reads;
* the log always keeps its last entry, so every start inserts the last
  acknowledged event once more (`AtMostOncePerStart` states the bound);
* `consumer.go:137`: the drain's last flush uses the cancelled context, so what is
  left is replayed by the next start and not inserted, as `consumer.go:30` has it;
* `walgroup.go:172`: a request can be queued after Close; its caller is answered
  by the end of its context or of the process, not by `ErrGroupSyncerStopped`;
* `storage/clickhouse.go:152` still says that the log is acknowledged when an
  insert fails;
* `metrics.go:13`: received counts requests, accepted and dropped count events,
  and fast rejects are dropped without being received, so received - accepted -
  dropped is not the number in flight and may be negative;
* `wal.go:293`: FillRatio answers 0 when its walk fails, for instance because a
  truncation removed a segment under it, and the gate keeps that for a TTL;
* `burstguard.go:34` speaks of a rolling window; the windows are fixed
  (`BurstBound` states what that allows), and entries are never removed from its map;
* `handler.go:355` relies on the client to retry a 503; the bundled tracker does not;
* an event whose cookie was refused has no cookie hash, so the suppression list is
  not consulted for it; the per-site opt-out cookie is.

In the browser:

* clearing the filters, or a link without dates, leaves the range of before
  (`range.ts:37` says it mirrors the filters): `RangeFollowsUrl` is about URLs with dates;
* property filters are not among the dependencies of any panel but the comparison (nor is the
  path for campaigns, nor channel, device and path for geo; `Overlooked` in `Dashboard` has the
  table): editing one does not fetch again. Every request carries them
  (`client.ts:30`) and `SegmentCaption.tsx:39` prints the property filters above the numbers, so
  the numbers stand under a caption they do not belong to until something else makes the
  panel ask again, and cards and chart may answer different ones. `SettledData` names the
  exception (`missed`). It matters where the server applies the filter: the property
  filters in every report but geo and the comparison, channel and path in reports whose
  table has the column (`queries.go:171`). No query looks at the device (`queries.go:122`),
  and the comparison ignores the filters its caption prints (`storage/segments.go:137`);
* after `clearStaleActiveSite` the switcher does not fetch the list again
  (`client.ts:64`); a late 403 may wipe a good choice; LazyPanel never clears its error;
* a realtime request that takes longer than the ten seconds of the tick is aborted
  every time;
* the lists of users and goals are not guarded against the answer for the site
  selected before; a row whose deletion succeeded says "Deleting" until a refresh succeeds;
* a save closes whichever settings modal is open; a refresh under an open modal
  changes what its patch is computed against; edits made during a save are lost;
* consent answers apply in the order of arrival; a page left before the answer to
  a withdrawal keeps its storage; a second tab's session properties survive a
  withdrawal (`tracker.js:44` says all `sn_*` storage is cleared), and so does the user id in memory;
* Sources' donut numbers hues after it drops empty channels, its list before;
  with exactly `TOP_N` countries the last becomes "Other" in the donut but has its name in the list;
* a property filter whose name holds a colon comes back under a shorter name.

## What is proved

Each theorem holds for every value of the constants that the named assumptions
of the modules allow. Those say what the code guarantees or the operator can
enter: sizes are positive naturals, bounds are naturals, selects and switches offer
values of their columns, a site's row has the columns of the table, a link is a
panel and parameters (a property entry is text cut at its colons, so it has at least
one piece; neither the list of scopes nor a sortable column is an empty text), a day
number is more than 90 (dates are days since 1970, and
the longest preset reaches 90 days back), and an answer to a report is a list of rows
with unsigned counts (`internal/storage/result.go`). No theorem depends on the bounds of
a run. Of the 40 properties of the passing runs, 36 are proved; the other four
are liveness. The invariants below were first checked by TLC on the instances of the runs.

### The ingest path

| Theorem | States |
|---|---|
| `Invariance` | `Spec => []IInv` |
| `TypeCorrect` | `Spec => []TypeOK` |
| `NoAckedEventLost` | `Spec => []AckedAccounted` |
| `AckAfterFsync` | `Spec => []AckedDurable` |
| `DeliveryInOrder` | `Spec => []PipeInOrder` |
| `NoEntryStranded` | `Spec => []NothingStranded` |
| `TruncationSafe` | `Spec => TruncatesOnlySettled` |
| `ContractRefined` | `Spec => ImplementsContract`, the specification of `DurableIngest` |
| `NoBatchStranded` | `Spec => []NoStrandedBatch` |
| `OncePerStart` | `Spec => []AtMostOncePerStart` |

None of these properties is inductive. That an acknowledgement is safe depends on
every index up to it having been received, hence on the order of the pipe
(`PipeInOrder`), on what happened to the entries received (`ReceivedSettled`), on
the insert preceding the acknowledgement (`AckAfterInsert`), and on the consumer
stopping before the syncer (`StopOrder`), because `PipeInOrder` ends when
deliveries may be skipped. That a restart may acknowledge the whole log depends
on the replay having read all of it (`ReplayProgress`). That a 202 means durable
depends on where flush stands (`FlushShape`), on requests being queued once
(`QueuedOnce`), on the entries of the batch under way (`LoggedStatus`,
`DurableBeforeAck`) and on who owns the pages of a failed fsync
(`ForgottenUnacked`). `IInv` is their conjunction. The first part of `IngestPathProofs` has the facts
about sequences, about what each operator of the log preserves, and about steps that
leave a part's variables alone; the second has a lemma per action.

The third part adds three invariants to `IInv`. For the refinement,
`SourceInv`: what is on its way to ClickHouse is still in the log, stored or
excused, so an insert stores nothing the contract does not know of, and a removal
from the log is a Release of settled events. The attempt showed that the
contract's Release needs to know which evicted entries could still be read; the
ghost `evicted` was made to say so. For the timer, `TimerInv`: the flag implies the
runtime timer. For the duplicates, `OnceInv`: an event is written to the log at most
once (`WrittenOnce`), and one that this start may still insert, because it was not
read from the log yet or is in a batch not yet inserted, has fewer copies than the
bound (`CopiesInv`).

### The event handler

| Theorem | States | Rests on |
|---|---|---|
| `AdmissionIsRecent` | `Spec => []AdmittedRecently` | `AdmitInv`: when the gate keeps "below" from a walk that did not fail, the log was below at the start of that walk or later, and the stamp is that start and the walk's length (`SampleOK`, `WalkOK`) |
| `IdentifiersHaveBasis` | `Spec => []IdentifierHasBasis` | `PrivacyInv`: once the request holds an identifier, an event so far permitted it |
| `OptOutIsHonoured` | `Spec => []OptOutHonoured` | `PrivacyInv`: past the filter the cookie was not among the opt-outs at arrival |
| `AnswersAreTrue` | `Spec => []AnswerIsTrue` | `ReplyInv`: one outcome per event done, each backed by its row, and the log only grows |
| `HandlerInvariance` | `Spec => []HandlerInv` | the conjunction with `SiteInv` (the row a request holds is a row of the table), `NewInv` and `AccountInv` |
| `NewVisitorOnce` | `Spec => []NewOncePerDate` | `NewInv`: of two requests past the filter only one carries the news about a hash, and a hash with a new row of this life, or on its way to one, is in the filter |
| `ReturningVisitor` | `Spec => []ReturningNotNew` | `NewInv`: the hash of every row of this life is in the filter, so an event marked new found neither its own hash nor, unless its two readings of the clock straddle midnight, the day before's among the rows at arrival |
| `NewnessIsAccounted` | `Spec => []NewnessAccounted` | `AccountInv`: every mark, in memory or saved, has a row, a request under way, or a loss |
| `BurstIsBounded` | `Spec => []BurstBound` | `BurstInv`: the entry counts the last passes, all in its window, and passes `2 * Cap` apart are a window apart |

A request's record has 19 fields and each step writes a few, so the proofs begin
with effect lemmas, one per handler step: what it does to its own record, and that it
leaves the others alone. `BurstIsBounded` ends with a count: the passes in a span
are a subset of an interval of positions shorter than `2 * Cap`.

### The browser

| Theorem | States | Rests on |
|---|---|---|
| `TrackerInvariance` | `Spec => []IInv` | |
| `PagesCountedOnce` | `Spec => []OneViewPerNavigation` | `DocOK`: one wrapper is installed exactly where the script runs, and the sentinel is set there |
| `WithdrawalHolds` | `Spec => []UserPropsCurrent` | `JarCurrent`: the cookie never holds what was stored before the last withdrawal |
| `TypesHold` | `Spec => []TypeOK` of `Tracker` | `Bounds`: withdrawals applied and requests under way together are no more than the tasks done |
| `LinkShowsView` | `Spec => []UrlDeterminesFilters` | `UrlInv`: filters are the decoded parameters of the hash; while no event is outstanding, the hash is the current history entry |
| `WindowFollows` | `Spec => []RangeFollowsUrl` | `UrlInv`: the window is well formed and is the filters' when they have one |
| `AskedIsInForce` | `Spec => []AskedIsShown` | `AskedInv`: filters in force, the hash and every history entry hold maps of properties, with distinct names and none empty |
| `PanelsCurrent` | `Spec => []SettledData` | `DashInv`, below, and `SelectionDeps` |
| `TabShown` | `Spec => []TabIsShown` | `LazyOK`: with no effect due, the panel waits for its own chunk, shows it, or failed |
| `ReloadOpensSite` | `Spec => []ReloadKeepsSite` | `SiteInv`: the property itself and the record's shape |

A page that is hidden or whose script is evaluated again would count twice without
`DocOK`. Giving consent again, an expiry of either cookie and the late answer of
another tab all preserve `JarCurrent`.

The first two results about the URL rest on one fact about the two effects (`SettleFacts`):
whatever write precedes them, they leave filters equal to the decoded hash, and
the window equal to the filters' dates where these are usable. Their proofs never
unfold the decoding, so they hold for any. The third is about the codec itself: a map
of properties becomes a list of entries, and decoding folds over that list and puts one
property at a time. After the first k entries the map holds the first k properties, by
induction on k, because the names are distinct, none is empty, and a name without a
colon is the whole of what stands before the first colon. The theorem keeps that
condition, since a name with a colon is split in the wrong place (see the notes above).

`DashInv` is about renders: every task that changes a signal renders both panels,
so what a panel last rendered with is always in force (`Seen`); with no effect due,
every request not aborted asks for it, and with nothing due, armed or in flight and no
error the data answers it (`Current`). To ask for a selection is to agree with it on the effect's
dependencies, and on every other filter not edited since the request was sent (`AskedFor`;
`EditedSince` relates the ghost `missed` to the renders). `Selection` is what stands on the
screen, the same for all panels but for dates, sort, limit, tick and pick; `SelectionDeps` shows panel
by panel that what it overlooks is exactly what is in the selection and not in its
dependencies: a dependency missing in one more panel breaks the proof there.

### The reports

| Theorem | States | Rests on |
|---|---|---|
| `OpenedIsClicked` | `Spec => []OpenAsClicked` | `OpenInv`: as long as every row names a campaign, the set of open keys is the set of rows clicked open; and different nodes have different keys then |
| `RowsAccounted` | `Spec => []TreeAccounted` | `MadeOf`: what the tree holds after k rows |
| `OrderIsAsked` | `Spec => []SortedAsAsked` | `ThenByOrders`: an order by one column, then by the next, and at last by the time of birth is a strict total order |
| `CentresAddUp` | `Spec => []CentreIsSum` | sums over parts |
| `SlicesOnList` | `Spec => []SlicesListed` | what sorting, filtering and cutting leave of a list |

The state of a report is small and its invariant (`ViewsTyped`) is short. The work is in
what a view computes from an answer, for every list of rows:

* *The tree.* `buildCampaignTree` folds over the rows, and within a row over its
  levels. `AccumulateFacts` says what one level of one row does to the tree, `Counted` what
  a whole row does, and `MadeOf(tree, rows, k)` what the tree is after k rows: its nodes are
  the prefixes of their paths, each shows the sum of the rows below it, and each has
  its own time of birth. `TreeMade` is the induction on k.
* *The order.* A sorted list is a list of places, so the result depends on the comparison being a strict
  total order; `PlaceFacts` then says that the list enumerates the set in that order.
  Ties are decided by views or revenue and then by birth, and `BornInTurn` makes births
  different. An unstable or partial comparison would break the proof there.
* *The sums.* The number in the centre and the slices sum the same rows in
  different groups. `SumOfParts` (a sum split by a key), `SumRenamed` (in another order),
  `SumSupport` (without the zeros) and `SumUnion` (the slices shown and the
  rest) are proved for every finite set.

These are inductions over data. The induction theorems of the library take an operator as a
parameter, which the installed provers cannot instantiate, so `DataLemmas` derives
induction with a set in the place of the predicate (`NatInduct`, from the
well-foundedness of the naturals; `SetInduct` for finite sets). It then shows that the recursive function
behind the community modules' folds exists and satisfies its recursion (`FoldExists`,
`FoldLeftExists`, `SumsExists`), by induction on the cardinality. No module uses a RECURSIVE operator.

### The admin console

| Theorem | States | Rests on |
|---|---|---|
| `StoreInvariant` | `Spec => []StoreInv` | |
| `PolicyValid` | `Spec => []StoredPolicyValid` | `StoreInv`: a request about to write carries a whole row that was validated, and the list of events it leaves out is empty in that row |
| `EnabledHonoured` | `Spec => []EnabledAsAsked` | `StoreInv`: only requests that name the flag reach the step that writes it |
| `ListInvariant` | `Spec => []ListInv` | |
| `DeletesConfirmed` | `Spec => DeleteConfirmed` | `ListInv`: an open confirmation is at the key of an account whose Delete was clicked |
| `FormInvariant` | `Spec => [](HolderInv /\ TallyInv)` | |
| `GoalsCreatedOnce` | `Spec => []CreatedOnce` | `TallyInv`: accepted, requests that may yet be accepted and a form not yet sent are together no more than the times it was filled in or an answer was lost; `HolderInv` shows that a busy form has exactly one request, so no second submit starts |
| `FormsHeld` | `Spec => []HeldByRequest` | `HeldScreen`: the modal and the form are held by exactly one request of their own when busy and by none when free; `IdInv`: requests, lists and modals have different numbers (`Numbered`, `Unique`, `Apart`), and what holds a modal was sent from its mount (`OnMount`), so an answer frees what it holds and nothing else; `HolderInv` for the forms of the two lists |

`PolicyValid` is the other half of finding 2: concurrent saves lose updates, and yet what is stored is
the row that one of them validated, because all of its policy columns are written. The
exception is the one the statement names: a list of events that this request had read
empty is not written, so the list another admin stored meanwhile stays, and Validate might
refuse the two together. (Of the columns Validate relates it is the only one that may be
left so: origins are only counted, and a list of them left in place was within the limit
when it was written.) Enabling and attributes are separate statements and no part of what
Validate relates.

`HeldByRequest` is about buttons that stay busy: it says that exactly one request holds a busy save or
form, so the release is due with its answer and not before, and none holds a free one, so no
second is under way. It does not say that a modal survives: the list read after an earlier
save closes whichever modal is open, and that modal's own save then goes on without it. The Delete
of a user row is not part of it: a row whose deletion succeeded stays busy with no request left, until
a refresh succeeds.

## Only model-checked

**Liveness**: `AckedSettles`, `CallersAnswered`, `ShutdownCompletes` and
`PanelSettles`. Fairness and ENABLED are outside what the prover can do. What they need of
safety is proved: nothing is stranded (`NoEntryStranded`), the loop never sleeps without a
timer (`NoBatchStranded`), a settled panel shows what it asked for last (`PanelsCurrent`).
That the server does not deadlock is checked by its runs only, and the three runs that end in a
violation are counterexamples of one instance each.

## Plan

1. *Done:* the ingest path, its contract, its invariant, its refinement proved.
2. *Done:* the event handler and its gates, and the proofs about them.
3. *Done:* the browser and the admin API: tracker, signals and URL, panels,
   reports, admin console, and the proofs about all of these.
4. Proofs that are left: none of a safety property that a run checks. What would say
   more is an abstract contract of the event handler, between a request and its row in the log.
5. **Sessions** (`SessionStore`, `SessionCache`, `Login`, `Lockout`; then the API
   token and site-grant caches and the last-admin guard over them). Rows are
   versioned and read with FINAL; lookups are split into read and fill.
6. **OAuth server** (`OAuthStore`): codes and refresh families over non-atomic
   inserts, with crashes and client retries.
7. **Privacy** (`Suppression`, `Erasure`): the append-only file with torn writes and
   replay; enumerated erasures and their completion.

## Not modelled

* **Sessions, users, lockout, API tokens, site grants** and the **OAuth server**.
  Their hazards: a lookup that fills the cache after a revocation
  (`auth/store.go:691`, `cached_api_token_store.go:62`), a cache emptied before the rows
  are revoked (`store.go:767`), a cascade that can no longer find the sessions it is to
  revoke (`store.go:533`), a login that overtakes a password change
  (`handlers.go:182`), a full lockout table (`lockout.go:111`), two admins who delete
  each other (`users_handlers.go:703`), a refresh rotation in two inserts
  (`oauthas/store.go:289`).
* **Suppression file and erasure** (`suppression.go:115`: a torn last line joins the next
  entry; `erase.go:256`: completion by second-granular times), **salt days** at a DST
  change (`salt.go:114`), **goals snapshot** (`goals/cache.go:74`), **alert bands**
  (`band.go:40`), **audit log** (`audit/log.go:71`), the origin index, the read cache
  and the MCP budgets: small pieces of shared state with little interplay.
* **Queries and migrations**: SQL, whose meaning is ClickHouse's.
* **Drawing**: chart options beyond the donuts' data, themes, formats, focus and
  layout; ConnectAssistant, which only fills templates; SEO's and Pages' own tables.
* **`generated.ts` and the documentation bundle**: generated and third-party.
