---------------------------- MODULE AdminConsole ----------------------------
(***************************************************************************)
(* The admin console (panels/Admin.tsx): the Sites tab of SitesTab and the *)
(* Users and Goals tabs (panels/admin/UsersTab.tsx, GoalsTab.tsx), one     *)
(* mounted at a time, with the handlers of internal/admin behind the two   *)
(* lists.                                                                  *)
(*                                                                         *)
(* A user or a goal is named by the form content it was created from.      *)
(***************************************************************************)
EXTENDS SitesTab

CONSTANTS
    Entries,        \* users and goals, numbered
    BootEntries,    \* site -> those it has at the start
    BootActive      \* the site managed at the start, 0 when none is known yet

ASSUME AdminConsoleConstants ==
    /\ Entries \subseteq Nat \ {0}
    /\ BootEntries \in [Sites -> Seq(Entries)]
    /\ BootActive \subseteq Sites \cup {0}
    /\ \A b \in Sittings : b.work \in {"settings", "sites", "lists"}

VARIABLES
    site,       \* activeSiteSignal: the site managed
    table,      \* the rows of the Users or Goals tab
    acts,       \* UserActions by row key: confirming, busy, the list that mounted it
    entry,      \* the new-user or new-goal form
    asks,       \* requests of the two tabs under way
    kept,       \* server: tab -> site -> rows
    tally,      \* history: form content -> times filled in, accepted, unheard
    clicked     \* history: the users whose Delete the operator clicked

listVars == <<site, table, acts, entry, asks, kept, tally, clicked>>

Kinds == {"users", "goals"}

Mounted(id) == [confirming |-> FALSE, busy |-> FALSE, born |-> id]

(* Mutant of RowKey: rows are told apart by their position. *)
RowKeyIndex(rs, i) == IF i \in Entries THEN i ELSE rs[i].id

(* The key of the i-th of the rows rs. *)
RowKey(rs, i) == rs[i].id

Of(i) == acts[RowKey(table, i)]

Ask(id, op, what, then) ==
    [id |-> id, op |-> op, kind |-> tab, mount |-> mount, site |-> site, what |-> what,
     then |-> then, key |-> 0, born |-> 0, snap |-> <<>>, stage |-> "sent"]

(* refresh(): nothing is asked before a site is active. *)
Refresh(id, s, then) ==
    IF s = 0 THEN {} ELSE {[Ask(id, "list", 0, then) EXCEPT !.site = s]}

---------------------------------------------------------------------------
(* Switching tabs unmounts one and mounts the other, which lists its rows. *)
OpenTab(t) ==
    /\ Act /\ t # tab /\ modal = NoModal
    /\ tab' = t /\ mount' = mount + 1
    /\ rows' = NoRows /\ configuring' = 0 /\ modal' = NoModal /\ form' = NewForm /\ failed' = FALSE
    /\ lists' = IF t = "sites"
                THEN lists \cup {[List(ops', "none", 0) EXCEPT !.mount = mount']} ELSE lists
    /\ table' = <<>> /\ acts' = [k \in DOMAIN acts |-> Mounted(0)] /\ entry' = [what |-> 0, busy |-> FALSE]
    /\ clicked' = {}
    /\ asks' = IF t \in Kinds /\ site # 0
               THEN asks \cup {[Ask(ops', "list", 0, "none") EXCEPT !.kind = t, !.mount = mount']}
               ELSE asks
    /\ UNCHANGED <<site, kept, tally, serverVars>>

(* The site switcher: the effect on siteID lists again; the table and the  *)
(* rows' state stay until the answer.                                      *)
SwitchSite(s) ==
    /\ Act /\ s # site /\ site' = s
    /\ asks' = IF tab \in Kinds THEN asks \cup Refresh(ops', s, "none") ELSE asks
    /\ UNCHANGED <<tabVars, serverVars, table, acts, entry, kept, tally, clicked>>

FillEntry(e) ==
    /\ Act /\ tab \in Kinds /\ entry.what # e
    /\ entry' = [entry EXCEPT !.what = e]
    /\ tally' = [tally EXCEPT ![e].filled = @ + 1]
    /\ UNCHANGED <<tabVars, serverVars, site, table, acts, asks, kept, clicked>>

(* Mutant of SubmitEntry: a second submit is not held back. *)
SubmitEntryTwice ==
    /\ Act /\ tab \in Kinds /\ entry.what # 0
    /\ entry' = [entry EXCEPT !.busy = TRUE]
    /\ asks' = asks \cup {Ask(ops', "create", entry.what, "none")}
    /\ UNCHANGED <<tabVars, serverVars, site, table, acts, kept, tally, clicked>>

SubmitEntry ==
    /\ Act /\ tab \in Kinds /\ entry.what # 0 /\ ~entry.busy
    /\ entry' = [entry EXCEPT !.busy = TRUE]
    /\ asks' = asks \cup {Ask(ops', "create", entry.what, "none")}
    /\ UNCHANGED <<tabVars, serverVars, site, table, acts, kept, tally, clicked>>

(* The buttons of row i.  A user row shows Disable and Delete, or the      *)
(* confirmation with Cancel and Delete forever; a goal row Disable alone.  *)
onDisable(i) ==
    /\ Act /\ i \in DOMAIN table /\ ~table[i].off /\ ~Of(i).confirming
    /\ asks' = asks \cup {Ask(ops', "disable", table[i].id, "none")}
    /\ UNCHANGED <<tabVars, serverVars, site, table, acts, entry, kept, tally, clicked>>

AskDelete(i) ==
    /\ Act /\ tab = "users" /\ i \in DOMAIN table /\ ~Of(i).confirming
    /\ acts' = [acts EXCEPT ![RowKey(table, i)].confirming = TRUE]
    /\ clicked' = clicked \cup {table[i].id}
    /\ UNCHANGED <<tabVars, serverVars, site, table, entry, asks, kept, tally>>

CancelDelete(i) ==
    /\ Act /\ i \in DOMAIN table /\ Of(i).confirming /\ ~Of(i).busy
    /\ acts' = [acts EXCEPT ![RowKey(table, i)].confirming = FALSE]
    /\ clicked' = clicked \ {table[i].id}
    /\ UNCHANGED <<tabVars, serverVars, site, table, entry, asks, kept, tally>>

onDelete(i) ==
    /\ Act /\ i \in DOMAIN table /\ Of(i).confirming /\ ~Of(i).busy
    /\ acts' = [acts EXCEPT ![RowKey(table, i)].busy = TRUE]
    /\ asks' = asks \cup {[Ask(ops', "delete", table[i].id, "none") EXCEPT !.key = RowKey(table, i), !.born = Of(i).born]}
    /\ UNCHANGED <<tabVars, serverVars, site, table, entry, kept, tally, clicked>>

---------------------------------------------------------------------------
(* The server.  A user's name is taken once for all sites, a goal may be   *)
(* made twice; nothing is created without a site, and a row to disable or  *)
(* to delete must exist.                                                   *)
Has(rs, what) == \E i \in DOMAIN rs : rs[i].id = what

Acceptable(a) ==
    LET known == \E s \in Sites : Has(kept[a.kind][s], a.what)
    IN CASE a.op = "create" -> a.site # 0 /\ (a.kind = "users" => ~known)
         [] a.op = "list"   -> TRUE
         [] OTHER           -> known

Disabled(rs, what) ==
    [i \in DOMAIN rs |-> IF rs[i].id = what THEN [rs[i] EXCEPT !.off = TRUE] ELSE rs[i]]

(* A user has one row. *)
Deleted(rs, what) ==
    IF Has(rs, what) THEN RemoveAt(rs, CHOOSE i \in DOMAIN rs : rs[i].id = what) ELSE rs

Served(a) ==
    CASE a.op = "create" ->
            [kept EXCEPT ![a.kind][a.site] = Append(@, [id |-> a.what, off |-> FALSE])]
      [] a.op = "disable" ->
            [kept EXCEPT ![a.kind] = [s \in Sites |-> Disabled(kept[a.kind][s], a.what)]]
      [] a.op = "delete" ->
            [kept EXCEPT ![a.kind] = [s \in Sites |-> Deleted(kept[a.kind][s], a.what)]]
      [] OTHER -> kept

(* The answer is given, or the write is done and the answer lost. *)
ServeAsk(a, answer) ==
    /\ a.stage = "sent" /\ Acceptable(a)
    /\ IF answer = "ok" THEN UNCHANGED bounds ELSE Fault
    /\ kept' = Served(a)
    /\ asks' = (asks \ {a}) \cup
                 {[a EXCEPT !.stage = answer, !.snap = IF a.op = "list" THEN kept[a.kind][a.site] ELSE <<>>]}
    /\ tally' = IF a.op # "create" \/ a.kind # "goals" THEN tally
                ELSE [tally EXCEPT ![a.what].accepted = @ + 1,
                                   ![a.what].unheard = IF answer = "err" THEN @ + 1 ELSE @]
    /\ UNCHANGED <<tabVars, serverVars, site, table, acts, entry, clicked>>

(* Refused, or failed before anything was written; the guards on oneself   *)
(* and on the last admin are such failures here.                           *)
RefuseAsk(a) ==
    /\ a.stage = "sent"
    /\ IF Acceptable(a) THEN Fault ELSE UNCHANGED bounds
    /\ asks' = (asks \ {a}) \cup {[a EXCEPT !.stage = "err"]}
    /\ UNCHANGED <<tabVars, serverVars, site, table, acts, entry, kept, tally, clicked>>

(* The rows of a new table: one whose key was there before keeps its state. *)
Carried(new, id) ==
    LET keys(rs) == {RowKey(rs, i) : i \in DOMAIN rs}
    IN [k \in DOMAIN acts |->
            IF k \notin keys(new) THEN Mounted(0)
            ELSE IF k \in keys(table) THEN acts[k] ELSE Mounted(id)]

OnScreen(a) == a.mount = mount

(* Mutant of ListAnswer: any list read frees the form. *)
ListAnswerFrees(a) ==
    /\ a.op = "list"
    /\ table' = IF a.stage = "ok" /\ OnScreen(a) THEN a.snap ELSE table
    /\ acts' = IF a.stage = "ok" /\ OnScreen(a) THEN Carried(a.snap, a.id) ELSE acts
    /\ clicked' = IF a.stage = "ok" /\ OnScreen(a)
                  THEN {u \in clicked : Has(a.snap, u)} ELSE clicked
    /\ failed' = (failed \/ (a.stage = "err" /\ OnScreen(a)))
    /\ entry' = IF OnScreen(a) THEN [entry EXCEPT !.busy = FALSE] ELSE entry
    /\ asks' = asks \ {a}

(* The rest of refresh and of what awaited it.  A list of the site left    *)
(* meanwhile is shown like any other.                                      *)
ListAnswer(a) ==
    /\ a.op = "list"
    /\ table' = IF a.stage = "ok" /\ OnScreen(a) THEN a.snap ELSE table
    /\ acts' = IF a.stage = "ok" /\ OnScreen(a) THEN Carried(a.snap, a.id) ELSE acts
    /\ clicked' = IF a.stage = "ok" /\ OnScreen(a)
                  THEN {u \in clicked : Has(a.snap, u)} ELSE clicked
    /\ failed' = (failed \/ (a.stage = "err" /\ OnScreen(a)))
    /\ entry' = IF a.then = "form" /\ OnScreen(a) THEN [entry EXCEPT !.busy = FALSE] ELSE entry
    /\ asks' = asks \ {a}

(* createUser and createGoal: the fields are cleared and the list read     *)
(* again, or the error shown and the fields kept.                          *)
EntryAnswer(a) ==
    /\ a.op = "create"
    /\ entry' = IF ~OnScreen(a) THEN entry
                ELSE IF a.stage = "err" THEN [entry EXCEPT !.busy = FALSE]
                ELSE [entry EXCEPT !.what = 0]
    /\ asks' = (asks \ {a}) \cup
                 (IF a.stage = "ok" /\ OnScreen(a) THEN Refresh(a.id, a.site, "form") ELSE {})
    /\ failed' = (failed \/ (a.stage = "err" /\ OnScreen(a)))
    /\ UNCHANGED <<table, acts, clicked>>

(* onDisable and onDelete: the row of a deleted user stays busy and        *)
(* disappears with the refresh; a refused deletion may be tried again.     *)
RowAnswer(a) ==
    /\ a.op \in {"disable", "delete"}
    /\ asks' = (asks \ {a}) \cup
                 (IF a.stage = "ok" /\ OnScreen(a) THEN Refresh(a.id, a.site, "none") ELSE {})
    /\ acts' = IF a.op = "delete" /\ a.stage = "err" /\ OnScreen(a)
               THEN [k \in DOMAIN acts |-> IF acts[k].busy /\ acts[k].born = a.born /\ k = a.key
                                            THEN Mounted(a.born) ELSE acts[k]]
               ELSE acts
    /\ clicked' = IF a.op = "delete" /\ a.stage = "err" /\ OnScreen(a)
                  THEN {u \in clicked : acts[u].confirming => acts'[u].confirming} ELSE clicked
    /\ failed' = (failed \/ (a.stage = "err" /\ OnScreen(a)))
    /\ UNCHANGED <<table, entry>>

AskAnswer ==
    \E a \in asks :
        /\ a.stage \in {"ok", "err"}
        /\ ListAnswer(a) \/ EntryAnswer(a) \/ RowAnswer(a)
        /\ UNCHANGED <<tab, mount, rows, lists, configuring, modal, form, bounds, serverVars, site, kept, tally>>

---------------------------------------------------------------------------
Init ==
    /\ SitesInit
    /\ site \in BootActive
    /\ table = <<>> /\ entry = [what |-> 0, busy |-> FALSE] /\ asks = {} /\ clicked = {}
    /\ acts = [k \in Entries |-> Mounted(0)]
    /\ kept = [k \in Kinds |-> [s \in Sites |->
                 [i \in DOMAIN BootEntries[s] |-> [id |-> BootEntries[s][i], off |-> FALSE]]]]
    /\ tally = [e \in Entries |-> [filled |-> 0, accepted |-> 0, unheard |-> 0]]

ListOperator ==
    \/ \E t \in Kinds \cup {"sites"} : OpenTab(t)
    \/ \E s \in Sites : SwitchSite(s)
    \/ \E e \in Entries : FillEntry(e)
    \/ SubmitEntry
    \/ \E i \in DOMAIN table : onDisable(i) \/ AskDelete(i) \/ CancelDelete(i) \/ onDelete(i)

ListNetwork ==
    \/ \E a \in asks : RefuseAsk(a) \/ \E answer \in {"ok", "err"} : ServeAsk(a, answer)
    \/ AskAnswer

Next ==
    \/ sitting.work # "lists" /\ (AtRows \/ OtherPatching) /\ UNCHANGED listVars
    \/ sitting.work = "settings" /\ AtModal /\ UNCHANGED listVars
    \/ sitting.work = "sites" /\ Adding /\ UNCHANGED listVars
    \/ sitting.work = "lists" /\ ListOperator
    \/ Network /\ UNCHANGED listVars
    \/ ListNetwork

vars == <<tabVars, serverVars, bounds, listVars>>

Spec == Init /\ [][Next]_vars

---------------------------------------------------------------------------
(* Only a user whose own Delete was clicked, and not cancelled since, is   *)
(* ever asked to be erased: a list that arrives between the two clicks of  *)
(* the confirmation may move the rows but not the confirmation.            *)
DeleteConfirmed ==
    [][\A a \in asks' \ asks : a.op = "delete" /\ a.stage = "sent" => a.what \in clicked]_vars

(* A form filled in once makes one goal, however often it is submitted,    *)
(* unless the answer to an earlier submit was lost.                        *)
CreatedOnce ==
    \A e \in Entries : tally[e].accepted <= tally[e].filled + tally[e].unheard

(* A form or a save is held by exactly one request of its own, the one     *)
(* sent or the list read after it, and by none once it is free: it comes   *)
(* to an end when that request does, with whatever answer, no answer to    *)
(* another request releases it before, and it is never sent twice at once. *)
(* A save may lose its modal: the list read after an earlier one closes    *)
(* whichever modal is open.                                                *)
HeldBy(held, own) == IF held THEN \E r \in own : own = {r} ELSE own = {}

HeldByRequest ==
    /\ modal # NoModal =>
         HeldBy(modal.saving, {c \in calls : c.who = "modal" /\ c.modal = modal.id}
                                \cup {l \in lists : l.then = "close" /\ l.modal = modal.id})
    /\ HeldBy(form.busy, {c \in calls : c.who = "form" /\ Here(c)}
                           \cup {l \in lists : l.then = "form" /\ Here(l)})
    /\ HeldBy(entry.busy, {a \in asks : OnScreen(a) /\ (a.op = "create" \/ a.then = "form")})
=============================================================================
