------------------------------ MODULE SitesTab ------------------------------
(***************************************************************************)
(* The Sites tab of the admin console (panels/admin/SitesTab.tsx) with its *)
(* new-site form and its configure modal (SiteConfigureModal.tsx), over    *)
(* the handlers of SiteAdmin.                                              *)
(*                                                                         *)
(* Nothing is aborted: an answer to a button, a form or a save runs the    *)
(* rest of its handler, and that of a component no longer mounted has no   *)
(* effect on the one that replaced it.  The refresh after a write is a     *)
(* list request of its own, and lists may arrive in any order.             *)
(***************************************************************************)
EXTENDS SiteAdmin

CONSTANTS
    NoRows,        \* rows === null
    NoModal,       \* no modal is mounted
    Edits,         \* [field, value]: what the operator changes in a draft
    Moves,         \* jurisdictions he picks
    OtherPatches,  \* [site, patch]: what another admin may send
    Sittings       \* bounds: [work, ops, faults], what the admins sit down to,
                   \* how many things are done and how many requests fail

VARIABLES
    tab, mount,    \* the tab shown and which mount of a tab it is
    rows,          \* the sites listed
    lists,         \* GET /api/admin/sites requests under way
    configuring,   \* configuringSiteID, 0 for null
    modal,         \* the configure modal: its draft and address rows
    form,          \* the new-site form: what is typed in, busy
    failed,        \* err: the error line is shown
    sitting,       \* the bounds of this behaviour
    ops, faults    \* counts up to them; ops names requests and modals

tabVars == <<tab, mount, rows, lists, configuring, modal, form, failed>>

bounds == <<sitting, ops, faults>>

DraftFields == {"tz", "gpc", "jurisdiction", "mode", "allow"}

(* The selects and switches of the modal offer values of their columns;    *)
(* the other admin's console does too.                                     *)
ASSUME SitesTabConstants ==
    /\ \A e \in Edits : e.field \in DraftFields /\ e.value \in Column(e.field)
    /\ Moves \subseteq Jurisdictions
    /\ \A p \in OtherPatches : p.site \in Nat /\ PatchOK(p.patch)
    /\ \A b \in Sittings : b.ops \in Nat /\ b.faults \in Nat

toDraft(row) == [f \in DraftFields |-> row[f]]

NewForm == [new |-> Blank, busy |-> FALSE]

Act == ops < sitting.ops /\ ops' = ops + 1 /\ UNCHANGED <<faults, sitting>>

Fault == faults < sitting.faults /\ faults' = faults + 1 /\ UNCHANGED <<ops, sitting>>

(* refresh(): then is what the caller does after it, modal the instance    *)
(* of the modal whose save it follows.                                     *)
List(id, then, mdl) ==
    [id |-> id, mount |-> mount, then |-> then, modal |-> mdl, snap |-> NoRows, stage |-> "sent"]

(* rows.find: the first row listed under a number. *)
IsListed(rs, s) == \E i \in DOMAIN rs : rs[i].id = s

Found(rs, s) ==
    rs[CHOOSE i \in DOMAIN rs : rs[i].id = s /\ \A j \in DOMAIN rs : rs[j].id = s => i <= j]

---------------------------------------------------------------------------
(* The modal.  A blank address row is an error, as is a list of event      *)
(* names that is too long.                                                 *)
isInvalid(m) ==
    \/ m.draft.allow > MaxEvents
    \/ "" \in Range(m.hosts)
    \/ Len(m.hosts) > MaxOrigins

nextOrigins(m) ==
    IF "" \in Range(m.hosts) THEN SelectSeq(m.hosts, LAMBDA h : h # "") ELSE m.hosts

(* What the draft says and the row listed now does not. *)
buildPatch(row, m) ==
    LET values == [f \in DraftFields \cup {"origins"} |->
                      IF f = "origins" THEN nextOrigins(m) ELSE m.draft[f]]
    IN [f \in {g \in DOMAIN values : values[g] # row[g]} |-> values[f]]

MountModal(id, s, row) ==
    [id |-> id, site |-> s, draft |-> toDraft(row), hosts |-> row.origins,
     saving |-> FALSE, err |-> FALSE]

(* The buttons of the i-th row. *)
Configure(i) ==
    /\ Act /\ tab = "sites" /\ modal = NoModal
    /\ configuring' = rows[i].id
    /\ modal' = MountModal(ops', rows[i].id, Found(rows, rows[i].id))
    /\ UNCHANGED <<tab, mount, rows, lists, form, failed, serverVars>>

Draft(d) ==
    /\ Act /\ modal # NoModal /\ d # modal.draft
    /\ modal' = [modal EXCEPT !.draft = d]
    /\ UNCHANGED <<tab, mount, rows, lists, configuring, form, failed, serverVars>>

ChangeField(f, v) == modal # NoModal /\ Draft([modal.draft EXCEPT ![f] = v])

(* A hybrid draft stays hybrid, wherever the site moves. *)
onChangeJurisdiction(j) ==
    /\ modal # NoModal
    /\ Draft([modal.draft EXCEPT
                !.jurisdiction = j,
                !.mode = IF @ = "hybrid" THEN @ ELSE derivedConsentMode(j)])

AddressRows(hosts) ==
    /\ Act /\ modal' = [modal EXCEPT !.hosts = hosts]
    /\ UNCHANGED <<tab, mount, rows, lists, configuring, form, failed, serverVars>>

setOriginAt(i, o) ==
    /\ modal # NoModal /\ i \in DOMAIN modal.hosts
    /\ AddressRows([modal.hosts EXCEPT ![i] = o])

addOrigin ==
    /\ modal # NoModal /\ Len(modal.hosts) < MaxOrigins
    /\ AddressRows(Append(modal.hosts, ""))

removeOrigin(i) ==
    /\ modal # NoModal /\ i \in DOMAIN modal.hosts
    /\ AddressRows(RemoveAt(modal.hosts, i))

(* The buttons stay enabled while a save is under way. *)
onClose ==
    /\ Act /\ modal # NoModal
    /\ configuring' = 0 /\ modal' = NoModal
    /\ UNCHANGED <<tab, mount, rows, lists, form, failed, serverVars>>

onSave ==
    /\ Act /\ modal # NoModal
    /\ LET patch == buildPatch(Found(rows, modal.site), modal) IN
       /\ ~isInvalid(modal) /\ ~modal.saving /\ DOMAIN patch # {}
       /\ calls' = calls \cup {Request(ops', "modal", mount, modal.id, modal.site, patch)}
    /\ modal' = [modal EXCEPT !.saving = TRUE, !.err = FALSE]
    /\ UNCHANGED <<tab, mount, rows, lists, configuring, form, failed, tableVars>>

---------------------------------------------------------------------------
(* The table and the form. *)
onToggleEnabled(i) ==
    /\ Act /\ tab = "sites" /\ modal = NoModal
    /\ calls' = calls \cup
                  {Request(ops', "button", mount, 0, rows[i].id, [enabled |-> ~rows[i].enabled])}
    /\ UNCHANGED <<tabVars, tableVars>>

FillSite(new) ==
    /\ Act /\ tab = "sites" /\ modal = NoModal /\ form.new # new
    /\ form' = [form EXCEPT !.new = new]
    /\ UNCHANGED <<tab, mount, rows, lists, configuring, modal, failed, serverVars>>

SubmitSite ==
    /\ Act /\ tab = "sites" /\ modal = NoModal /\ form.new # Blank /\ ~form.busy
    /\ form' = [form EXCEPT !.busy = TRUE]
    /\ calls' = calls \cup {Request(ops', "form", mount, 0, 0, form.new)}
    /\ UNCHANGED <<tab, mount, rows, lists, configuring, modal, failed, tableVars>>

---------------------------------------------------------------------------
(* The answers.  Here means the component that sent the request is still   *)
(* the one on screen.                                                      *)
Here(c) == c.mount = mount

Same(c) == Here(c) /\ modal # NoModal /\ modal.id = c.modal

SaveAnswer(c) ==
    /\ c.who = "modal"
    /\ lists' = IF c.stage = "ok" /\ Here(c) THEN lists \cup {List(c.id, "close", c.modal)} ELSE lists
    /\ modal' = IF c.stage = "err" /\ Same(c)
                THEN [modal EXCEPT !.saving = FALSE, !.err = TRUE] ELSE modal
    /\ UNCHANGED <<form, failed>>

ToggleAnswer(c) ==
    /\ c.who = "button"
    /\ lists' = IF c.stage = "ok" /\ Here(c) THEN lists \cup {List(c.id, "none", 0)} ELSE lists
    /\ failed' = (failed \/ (c.stage = "err" /\ Here(c)))
    /\ UNCHANGED <<modal, form>>

CreateAnswer(c) ==
    /\ c.who = "form"
    /\ lists' = IF c.stage = "ok" /\ Here(c) THEN lists \cup {List(c.id, "form", 0)} ELSE lists
    /\ form' = IF ~Here(c) THEN form
               ELSE IF c.stage = "ok" THEN [form EXCEPT !.new = Blank]
               ELSE [form EXCEPT !.busy = FALSE]
    /\ failed' = (failed \/ (c.stage = "err" /\ Here(c)))
    /\ UNCHANGED modal

OtherAnswer(c) == c.who = "other" /\ UNCHANGED <<lists, modal, form, failed>>

Answer ==
    \E c \in calls :
        /\ c.stage \in {"ok", "err"}
        /\ calls' = calls \ {c}
        /\ SaveAnswer(c) \/ ToggleAnswer(c) \/ CreateAnswer(c) \/ OtherAnswer(c)
        /\ UNCHANGED <<tab, mount, rows, configuring, tableVars, bounds>>

(* GET /api/admin/sites reads the table; the request may fail instead. *)
ServeList(l) ==
    /\ l.stage = "sent"
    /\ \E listing \in Listings :
         lists' = (lists \ {l}) \cup {[l EXCEPT !.stage = "ok", !.snap = listing]}
    /\ UNCHANGED <<tab, mount, rows, configuring, modal, form, failed, bounds, serverVars>>

FailList(l) ==
    /\ Fault /\ l.stage # "err"
    /\ lists' = (lists \ {l}) \cup {[l EXCEPT !.stage = "err", !.snap = NoRows]}
    /\ UNCHANGED <<tab, mount, rows, configuring, modal, form, failed, serverVars>>

(* configuringSite: rows without the site being configured take the modal  *)
(* away, later ones with it bring it back afresh.                          *)
Shown(id, s, rs) ==
    IF s = 0 \/ rs = NoRows THEN NoModal
    ELSE IF ~IsListed(rs, s) THEN NoModal
    ELSE IF modal # NoModal THEN modal
    ELSE MountModal(id, s, Found(rs, s))

(* The rest of refresh and of what awaited it: a failed list is reported   *)
(* but not passed on.  The save closes the modal, whichever is open by     *)
(* then; the form becomes free.                                            *)
Listed ==
    \E l \in lists :
        /\ l.stage # "sent"
        /\ lists' = lists \ {l}
        /\ rows' = IF l.stage = "ok" /\ Here(l) THEN l.snap ELSE rows
        /\ failed' = (failed \/ (l.stage = "err" /\ Here(l)))
        /\ configuring' = IF l.then = "close" /\ Here(l) THEN 0 ELSE configuring
        /\ modal' = Shown(l.id, configuring', rows')
        /\ form' = IF l.then = "form" /\ Here(l) THEN [form EXCEPT !.busy = FALSE] ELSE form
        /\ UNCHANGED <<tab, mount, bounds, serverVars>>

---------------------------------------------------------------------------
(* Another admin, at a console of his own. *)
OtherPatch(s, patch) ==
    /\ Act /\ IsListed(store, s)
    /\ calls' = calls \cup {Request(ops', "other", 0, 0, s, patch)}
    /\ UNCHANGED <<tabVars, tableVars>>

OtherCreate(new) ==
    /\ Act
    /\ calls' = calls \cup {Request(ops', "other", 0, 0, 0, new)}
    /\ UNCHANGED <<tabVars, tableVars>>

SitesInit ==
    /\ store = [s \in Sites |-> NewRow(s, [host |-> s, slug |-> s])]
    /\ toggled = [s \in Sites |-> TRUE] /\ spared = {}
    /\ calls = {} /\ tab = "sites" /\ mount = 1 /\ rows = NoRows /\ configuring = 0 /\ modal = NoModal
    /\ form = NewForm /\ failed = FALSE /\ ops = 0 /\ faults = 0 /\ sitting \in Sittings
    /\ lists = {[id |-> 0, mount |-> 1, then |-> "none", modal |-> 0, snap |-> NoRows, stage |-> "sent"]}

AtRows == rows # NoRows /\ \E i \in DOMAIN rows : Configure(i) \/ onToggleEnabled(i)

AtModal ==
    \/ \E e \in Edits : ChangeField(e.field, e.value)
    \/ \E j \in Moves : onChangeJurisdiction(j)
    \/ \E i \in 1 .. MaxOrigins, o \in Origins : setOriginAt(i, o)
    \/ \E i \in 1 .. MaxOrigins : removeOrigin(i)
    \/ addOrigin \/ onClose \/ onSave

Adding ==
    \/ \E new \in NewSites : FillSite(new) \/ OtherCreate(new)
    \/ SubmitSite

OtherPatching == \E p \in OtherPatches : OtherPatch(p.site, p.patch)

Network ==
    \/ ServeCall /\ UNCHANGED <<tabVars, bounds>>
    \/ \E c \in calls : Fault /\ Fail(c) /\ UNCHANGED tabVars
    \/ \E l \in lists : ServeList(l) \/ FailList(l)
    \/ Answer \/ Listed
=============================================================================
