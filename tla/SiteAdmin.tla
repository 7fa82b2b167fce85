------------------------------ MODULE SiteAdmin ------------------------------
(***************************************************************************)
(* The server's side of the site settings: the requests the admin console  *)
(* sends (web/src/api/admin.ts) as the handlers of internal/admin run      *)
(* them, one database statement a step, any number of them at a time.      *)
(*                                                                         *)
(* A PATCH is three updates in a row: the policy, read, merged, validated  *)
(* and written back; the attributes; the enabled flag.  A POST is three    *)
(* reads and an insert.  A step that fails answers the request and leaves  *)
(* what was written.                                                       *)
(***************************************************************************)
EXTENDS Naturals, FiniteSets, Sequences, SequencesExt, Functions

CONSTANTS
    BootSites,   \* how many sites exist at the start, numbered from 1
    NewSites,    \* [host, slug]: sites that may be added
    MaxOrigins,  \* origins a site may register
    MaxEvents,   \* event names the console accepts
    EventCap     \* event names a hybrid or consent-free site may keep

ASSUME SiteAdminConstants ==
    /\ BootSites \in Nat /\ NewSites \subseteq [host : Nat \ {0}, slug : Nat \ {0}]
    /\ MaxOrigins \in Nat /\ MaxEvents \in Nat /\ EventCap \in Nat

VARIABLES
    store,    \* statnive.sites: its rows, in the order they were inserted
    calls,    \* PATCH and POST requests under way
    toggled,  \* history: row -> the last enabled flag written on request
    spared    \* history: rows whose last policy write left a list of events as it was

tableVars == <<store, toggled, spared>>

serverVars == <<calls, tableVars>>

Sites == 1 .. BootSites

(* Hostnames, alike when they differ in a leading "www.", and slugs are    *)
(* numbers; the first sites have their own.                                *)
(* An allowlist is its length.  "A" spells the origin "a" in upper case,   *)
(* "" is an address row still blank.                                       *)
Jurisdictions == {"DE", "OTHER-EU", "OTHER-NON-EU"}
Modes == {"permissive", "consent-free", "consent-required", "hybrid"}
Origins == {"a", "A", "b"}

NormalizeOrigin(o) == IF o = "A" THEN "a" ELSE o

PolicyFields == {"gpc", "jurisdiction", "mode", "allow", "origins"}
Fields == PolicyFields \cup {"tz", "enabled"}

(* What a column may hold. *)
Column(f) ==
    CASE f = "gpc"          -> BOOLEAN
      [] f = "jurisdiction" -> Jurisdictions
      [] f = "mode"         -> Modes
      [] f = "allow"        -> Nat
      [] f = "origins"      -> Seq(Origins)
      [] f = "tz"           -> {"utc", "berlin"}
      [] f = "enabled"      -> BOOLEAN

(* A PATCH names some of the columns. *)
PatchOK(p) == DOMAIN p \subseteq Fields /\ \A f \in DOMAIN p : p[f] \in Column(f)

AdminSite ==
    [id : Nat, host : Nat, slug : Nat,
     gpc : BOOLEAN, jurisdiction : Jurisdictions, mode : Modes, allow : Nat,
     origins : Seq(Origins), tz : {"utc", "berlin"}, enabled : BOOLEAN]

(* The row CreateSite inserts for the console, which sends no policy. *)
NewRow(id, new) ==
    [id |-> id, host |-> new.host, slug |-> new.slug,
     gpc |-> FALSE, jurisdiction |-> "OTHER-NON-EU", mode |-> "permissive", allow |-> 0,
     origins |-> <<>>, tz |-> "berlin", enabled |-> TRUE]

(* A form not filled in yet. *)
Blank == [host |-> 0, slug |-> 0]

derivedConsentMode(j) == IF j = "OTHER-NON-EU" THEN "permissive" ELSE "consent-free"

(* SitePolicy.Validate. *)
Validate(p) ==
    /\ Len(p.origins) <= MaxOrigins
    /\ p.jurisdiction = "DE" => p.mode # "permissive"
    /\ p.mode = "hybrid" => p.jurisdiction # "OTHER-NON-EU" /\ p.allow \in 1 .. EventCap
    /\ p.mode = "consent-free" => p.allow <= EventCap

---------------------------------------------------------------------------
(* A request: who sent it (a button, the modal, the form or another        *)
(* admin), from which mount of the tab and instance of the modal, and the  *)
(* step it is at, with the row it read.  A POST carries the site to add,   *)
(* and has no number until it is given one.                                *)
Request(id, who, mount, modal, s, patch) ==
    [id |-> id, who |-> who, mount |-> mount, modal |-> modal, site |-> s,
     patch |-> patch, row |-> NewRow(s, Blank), stage |-> "sent"]

Creates(c) == "host" \in DOMAIN c.patch

(* The rows a request is about: nothing keeps a number from being given    *)
(* twice, and an update is made to every row that has it.                  *)
RowsOf(c) == {k \in DOMAIN store : store[k].id = c.site}

Touches(c, fields) == DOMAIN c.patch \cap fields # {}

(* What follows the policy, and what follows the attributes. *)
AfterAttributes(c) == IF Touches(c, {"enabled"}) THEN "enabled" ELSE "ok"
AfterPolicy(c) == IF Touches(c, {"tz"}) THEN "attributes" ELSE AfterAttributes(c)

Advance(c, stage) == calls' = (calls \ {c}) \cup {[c EXCEPT !.stage = stage]}

(* The columns a request names, over the row as it is. *)
Merge(patch, row) == [f \in DOMAIN row |-> IF f \in DOMAIN patch THEN patch[f] ELSE row[f]]

(* applyPolicyPatch up to the validation; the query returns one row. *)
PatchLookup(c) ==
    /\ c.stage = "sent" /\ ~Creates(c)
    /\ \E k \in RowsOf(c) :
         LET row == Merge(c.patch, store[k]) IN
         IF ~Touches(c, PolicyFields) THEN Advance(c, AfterPolicy(c))
         ELSE IF ~Validate(row) THEN Advance(c, "err")
         ELSE calls' = (calls \ {c}) \cup
                {[c EXCEPT !.row = row,
                           !.stage = IF Touches(c, {"origins"}) THEN "check" ELSE "write"]}
    /\ UNCHANGED tableVars

(* checkOriginCollision: another site registered one of the origins. *)
CheckOrigins(c) ==
    /\ c.stage = "check"
    /\ LET proposed == {NormalizeOrigin(o) : o \in Range(c.patch.origins)}
           taken == UNION {Range(store[k].origins) : k \in DOMAIN store \ RowsOf(c)}
       IN Advance(c, IF proposed \cap taken = {} THEN "write" ELSE "err")
    /\ UNCHANGED tableVars

(* A list that was read empty, and is not one the request names, is not    *)
(* written at all.                                                         *)
Left(c) ==
    ((IF c.row.allow = 0 THEN {"allow"} ELSE {})
        \cup (IF c.row.origins = <<>> THEN {"origins"} ELSE {})) \ DOMAIN c.patch

(* Mutant of Written: only the columns the request names are written. *)
WrittenColumns(c, now) == [f \in DOMAIN now |-> IF f \in DOMAIN c.patch \cap PolicyFields THEN c.row[f] ELSE now[f]]

(* The row UpdateSitePolicy leaves: every other policy column is the one   *)
(* read and merged, whatever was written since.                            *)
Written(c, now) == [f \in DOMAIN now |-> IF f \in PolicyFields \ Left(c) THEN c.row[f] ELSE now[f]]

Canonical(row) ==
    [row EXCEPT !.origins = [i \in DOMAIN row.origins |-> NormalizeOrigin(row.origins[i])]]

Spared(c) ==
    (spared \ RowsOf(c)) \cup {k \in RowsOf(c) : "allow" \in Left(c) /\ store[k].allow # 0}

(* Mutant of WritePolicy: all settings read are written back. *)
WriteRow(c) ==
    /\ c.stage = "write"
    /\ store' = [k \in DOMAIN store |->
                    IF k \in RowsOf(c)
                    THEN [f \in DOMAIN c.row |-> IF f \in Fields THEN c.row[f] ELSE store[k][f]]
                    ELSE store[k]]
    /\ spared' = Spared(c)
    /\ Advance(c, AfterPolicy(c))
    /\ UNCHANGED toggled

(* UpdateSitePolicy, with the origins in canonical form. *)
WritePolicy(c) ==
    /\ c.stage = "write"
    /\ store' = [k \in DOMAIN store |->
                    IF k \in RowsOf(c) THEN Canonical(Written(c, store[k])) ELSE store[k]]
    /\ spared' = Spared(c)
    /\ Advance(c, AfterPolicy(c))
    /\ UNCHANGED toggled

WriteAttributes(c) ==
    /\ c.stage = "attributes"
    /\ store' = [k \in DOMAIN store |->
                    IF k \in RowsOf(c) THEN [store[k] EXCEPT !.tz = c.patch.tz] ELSE store[k]]
    /\ Advance(c, AfterAttributes(c))
    /\ UNCHANGED <<toggled, spared>>

WriteEnabled(c) ==
    /\ c.stage = "enabled"
    /\ store' = [k \in DOMAIN store |->
                    IF k \in RowsOf(c) THEN [store[k] EXCEPT !.enabled = c.patch.enabled] ELSE store[k]]
    /\ toggled' = [k \in DOMAIN store |-> IF k \in RowsOf(c) THEN c.patch.enabled ELSE toggled[k]]
    /\ Advance(c, "ok")
    /\ UNCHANGED spared

(* CreateSite: the hostname of a live site is refused, that of a paused    *)
(* one is not.                                                             *)
LookupHost(c) ==
    /\ c.stage = "sent" /\ Creates(c)
    /\ LET taken == \E k \in DOMAIN store : store[k].host = c.patch.host /\ store[k].enabled
       IN Advance(c, IF taken THEN "err" ELSE "slug")
    /\ UNCHANGED tableVars

ResolveSlug(c) ==
    /\ c.stage = "slug"
    /\ LET taken == \E k \in DOMAIN store : store[k].slug = c.patch.slug
       IN Advance(c, IF taken THEN "err" ELSE "number")
    /\ UNCHANGED tableVars

(* The number after the last one in use now. *)
NumberSite(c) ==
    /\ c.stage = "number"
    /\ \E last \in {store[k].id : k \in DOMAIN store} \cup {0} :
         /\ \A k \in DOMAIN store : store[k].id <= last
         /\ calls' = (calls \ {c}) \cup {[c EXCEPT !.site = last + 1, !.stage = "insert"]}
    /\ UNCHANGED tableVars

InsertSite(c) ==
    /\ c.stage = "insert"
    /\ store' = Append(store, NewRow(c.site, c.patch))
    /\ toggled' = Append(toggled, TRUE)
    /\ Advance(c, "ok")
    /\ UNCHANGED spared

CreateSite(c) == LookupHost(c) \/ ResolveSlug(c) \/ NumberSite(c) \/ InsertSite(c)

(* A statement fails, or the answer is lost: what was written stays.  A    *)
(* hostname whose lookup fails counts as free.                             *)
Fail(c) ==
    /\ c.stage # "err"
    /\ \/ Advance(c, "err")
       \/ c.stage = "sent" /\ Creates(c) /\ Advance(c, "slug")
    /\ UNCHANGED tableVars

(* ListAdmin: the rows by number, in any order where two have the same. *)
Listings ==
    {[i \in DOMAIN store |-> store[order[i]]] :
        order \in {p \in Bijection(DOMAIN store, DOMAIN store) :
                     \A i, j \in DOMAIN store : i < j => store[p[i]].id <= store[p[j]].id}}

ServeCall ==
    \E c \in calls :
        \/ PatchLookup(c) \/ CheckOrigins(c) \/ WritePolicy(c)
        \/ WriteAttributes(c) \/ WriteEnabled(c) \/ CreateSite(c)

---------------------------------------------------------------------------
(* Whatever two admins save at once, the policy stored for a site is one   *)
(* that SitePolicy.Validate accepts: a German site is never permissive, a  *)
(* hybrid site is in the EU and names its events, no more than it may.     *)
(* Each request validates the policy it read, so what it then writes must  *)
(* be that policy whole.  The exception is a list of events another admin  *)
(* stored after this request had read none: UpdateSitePolicy leaves it,    *)
(* and a consent-free site may keep more names than its mode allows.       *)
StoredPolicyValid ==
    \A k \in DOMAIN store :
        /\ store[k] \in AdminSite
        /\ Validate([store[k] EXCEPT !.allow = IF k \in spared THEN 0 ELSE @])

(* A site is paused or live as the last request about that asked: saving   *)
(* its settings meanwhile does not undo it.                                *)
EnabledAsAsked == \A k \in DOMAIN store : store[k].enabled = toggled[k]

(* A PATCH changes the columns it names and no others: "omitted fields    *)
(* are left unchanged on the server" (web/src/api/admin.ts:387).           *)
OmittedUnchanged ==
    [][\A k \in DOMAIN store, f \in Fields :
            store'[k][f] # store[k][f] =>
                \E c \in calls \ calls' : c.site = store[k].id /\ f \in DOMAIN c.patch]_store
=============================================================================
