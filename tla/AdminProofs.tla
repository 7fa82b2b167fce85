---------------------------- MODULE AdminProofs ----------------------------
(***************************************************************************)
(* Proofs about the admin console, for any sites, edits, users, goals and  *)
(* any number of things done and of requests that fail.                    *)
(*                                                                         *)
(*   StoreInv    the stored rows, the requests and the screen fit: a       *)
(*               request about to write a policy carries one validated     *)
(*   ListInv     the rows of users and goals, and the confirmations open   *)
(*   HolderInv   the form is busy just while one request of its own is     *)
(*               under way                                                 *)
(*   TallyInv    what a form content has to its account                    *)
(*   IdInv       requests, lists and modals are told apart                 *)
(***************************************************************************)
EXTENDS AdminConsole, FiniteSetTheorems, WellFoundedInduction, TLAPS

---------------------------------------------------------------------------
(* The sites: what is stored, and what the requests and the screen carry.  *)

CallFields == {"id", "who", "mount", "modal", "site", "patch", "row", "stage"}

ListFields == {"id", "mount", "then", "modal", "snap", "stage"}

Drafts ==
    [tz : Column("tz"), gpc : Column("gpc"), jurisdiction : Column("jurisdiction"),
     mode : Column("mode"), allow : Column("allow")]

(* An address row may be blank. *)
Hosts == Origins \cup {""}

Modals ==
    [id : Nat, site : Nat, draft : Drafts, hosts : Seq(Hosts),
     saving : BOOLEAN, err : BOOLEAN]

(* The table of sites, or a list of it read earlier. *)
RowsOK(t) == t \in Seq(AdminSite)

ListOK(l) == DOMAIN l = ListFields /\ l.id \in Nat /\ (l.stage = "ok" => RowsOK(l.snap))

(* A request carries what its next step relies on: a well-typed patch or   *)
(* the site to add and, before the policy is written, a row that was       *)
(* validated.                                                              *)
CallOK(c) ==
    /\ DOMAIN c = CallFields /\ c.id \in Nat
    /\ c.site \in Nat /\ c.row \in AdminSite
    /\ Creates(c) => c.patch \in NewSites /\ c.stage \in {"sent", "slug", "number", "insert", "ok", "err"}
    /\ ~Creates(c) => PatchOK(c.patch) /\ c.stage \notin {"slug", "number", "insert"}
    /\ c.stage \in {"check", "write"} => Validate(c.row)
    /\ c.stage = "attributes" => "tz" \in DOMAIN c.patch
    /\ c.stage = "enabled" => "enabled" \in DOMAIN c.patch

TableInv ==
    /\ RowsOK(store) /\ toggled \in Seq(BOOLEAN) /\ Len(toggled) = Len(store)
    /\ StoredPolicyValid /\ EnabledAsAsked
    /\ \A c \in calls : CallOK(c)

ScreenInv ==
    /\ rows # NoRows => RowsOK(rows)
    /\ \A l \in lists : ListOK(l)
    /\ configuring \in Nat
    /\ modal # NoModal => modal \in Modals /\ rows # NoRows /\ IsListed(rows, modal.site)
                         /\ modal.site = configuring
    /\ form.new \in NewSites \cup {Blank} /\ DOMAIN form = {"new", "busy"}
    /\ ops \in Nat

StoreInv == TableInv /\ ScreenInv

(* A form is filled in with a site to add, or blank. *)
LEMMA NewSiteOK ==
  /\ \A n \in NewSites : n # Blank /\ n.host \in Nat /\ n.slug \in Nat /\ "host" \in DOMAIN n
  /\ Blank.host \in Nat /\ Blank.slug \in Nat
  BY SiteAdminConstants DEF Blank

(* A PATCH names settings, which a hostname is not. *)
LEMMA PatchCreatesNot ==
  ASSUME NEW p, PatchOK(p)
  PROVE  "host" \notin DOMAIN p
  BY DEF PatchOK, Fields, PolicyFields

(* What a row's columns hold. *)
LEMMA RowColumns ==
  ASSUME NEW r \in AdminSite
  PROVE  /\ DOMAIN r = Fields \cup {"id", "host", "slug"} /\ \A f \in Fields : r[f] \in Column(f)
         /\ r.id \in Nat /\ r.host \in Nat /\ r.slug \in Nat
<1>1. DOMAIN r = Fields \cup {"id", "host", "slug"}
  BY DEF AdminSite, Fields, PolicyFields
<1>2. ASSUME NEW f \in Fields PROVE r[f] \in Column(f)
  BY DEF AdminSite, Fields, PolicyFields, Column
<1>3. r.id \in Nat /\ r.host \in Nat /\ r.slug \in Nat
  BY DEF AdminSite
<1>. QED  BY <1>1, <1>2, <1>3

(* A row with other settings is a row. *)
LEMMA ResetRow ==
  ASSUME NEW r \in AdminSite, NEW m, m = [f \in DOMAIN r |-> m[f]],
         \A f \in Fields : m[f] \in Column(f), \A f \in {"id", "host", "slug"} : m[f] = r[f]
  PROVE  m \in AdminSite
<1>1. /\ DOMAIN r = Fields \cup {"id", "host", "slug"}
      /\ r.id \in Nat /\ r.host \in Nat /\ r.slug \in Nat
  BY RowColumns
<1>2. m = [f \in Fields \cup {"id", "host", "slug"} |-> m[f]]
  BY <1>1
<1>3. m.id \in Nat /\ m.host \in Nat /\ m.slug \in Nat
  BY <1>1
<1>. QED  BY <1>2, <1>3 DEF AdminSite, Fields, PolicyFields, Column

(* A patch over a row is a row. *)
LEMMA MergeRow ==
  ASSUME NEW p, PatchOK(p), NEW r \in AdminSite
  PROVE  Merge(p, r) \in AdminSite
<1>. DEFINE m == Merge(p, r)
<1>1. DOMAIN r = Fields \cup {"id", "host", "slug"} /\ \A f \in Fields : r[f] \in Column(f)
  BY RowColumns
<1>2. m = [f \in DOMAIN r |-> IF f \in DOMAIN p THEN p[f] ELSE r[f]]
  BY DEF Merge
<1>3. \A f \in Fields : m[f] \in Column(f)
  BY <1>1, <1>2 DEF PatchOK
<1>4. \A f \in {"id", "host", "slug"} : f \in DOMAIN r /\ f \notin DOMAIN p
  BY <1>1 DEF PatchOK, Fields, PolicyFields
<1>5. m = [f \in DOMAIN r |-> m[f]] /\ \A f \in {"id", "host", "slug"} : m[f] = r[f]
  BY <1>2, <1>4
<1>. HIDE DEF m
<1>6. m \in AdminSite
  BY <1>3, <1>5, ResetRow
<1>. QED  BY <1>6 DEF m

(* What Validate looks at, with the length of the list of events apart. *)
Valid(r, n) ==
    /\ Len(r.origins) <= MaxOrigins
    /\ r.jurisdiction = "DE" => r.mode # "permissive"
    /\ r.mode = "hybrid" => r.jurisdiction # "OTHER-NON-EU" /\ n \in 1 .. EventCap
    /\ r.mode = "consent-free" => n <= EventCap

LEMMA ValidIs ==
  ASSUME NEW r \in AdminSite
  PROVE  /\ Validate(r) <=> Valid(r, r.allow)
         /\ \A n : Validate([r EXCEPT !.allow = n]) <=> Valid(r, n)
<1>1. Validate(r) <=> Valid(r, r.allow)
  BY DEF Validate, Valid
<1>2. ASSUME NEW n PROVE Validate([r EXCEPT !.allow = n]) <=> Valid(r, n)
  <2>. DEFINE m == [r EXCEPT !.allow = n]
  <2>1. m.origins = r.origins /\ m.jurisdiction = r.jurisdiction /\ m.mode = r.mode /\ m.allow = n
    BY DEF AdminSite
  <2>. HIDE DEF m
  <2>2. Validate(m) <=> Valid(r, n)
    BY <2>1 DEF Validate, Valid
  <2>. QED  BY <2>2 DEF m
<1>. QED  BY <1>1, <1>2

(* What a row is held to: the length of a list left alone does not count. *)
PolicyOK(r, left) == Valid(r, IF left THEN 0 ELSE r.allow)

LEMMA StoredIs ==
  ASSUME RowsOK(store)
  PROVE  StoredPolicyValid <=> \A k \in DOMAIN store : PolicyOK(store[k], k \in spared)
<1>1. \A k \in DOMAIN store : store[k] \in AdminSite
  BY DEF RowsOK
<1>2. ASSUME NEW k \in DOMAIN store
      PROVE  Validate([store[k] EXCEPT !.allow = IF k \in spared THEN 0 ELSE @])
                <=> PolicyOK(store[k], k \in spared)
  <2>. DEFINE n == IF k \in spared THEN 0 ELSE store[k].allow
  <2>1. Validate([store[k] EXCEPT !.allow = n]) <=> Valid(store[k], n)
    <3>. HIDE DEF n
    <3>. QED  BY <1>1, ValidIs
  <2>. QED  BY <2>1 DEF PolicyOK
<1>. QED  BY <1>1, <1>2 DEF StoredPolicyValid

(* What UpdateSitePolicy leaves is a row, with the policy that was read    *)
(* and the flags that are stored; only the events may be those stored.     *)
LEMMA WrittenRow ==
  ASSUME NEW c, c.row \in AdminSite, Validate(c.row), NEW now \in AdminSite, NEW old, PolicyOK(now, old)
  PROVE  /\ Written(c, now) \in AdminSite
         /\ Written(c, now).enabled = now.enabled
         /\ PolicyOK(Written(c, now), "allow" \in Left(c) /\ now.allow # 0)
<1>. DEFINE m == Written(c, now)
            left == "allow" \in Left(c) /\ now.allow # 0
<1>0. /\ DOMAIN now = Fields \cup {"id", "host", "slug"} /\ \A f \in Fields : now[f] \in Column(f)
      /\ \A f \in Fields : c.row[f] \in Column(f)
  BY RowColumns
<1>2. m = [f \in DOMAIN now |-> IF f \in PolicyFields \ Left(c) THEN c.row[f] ELSE now[f]]
  BY DEF Written
<1>3. \A f \in Fields : m[f] \in Column(f)
  BY <1>0, <1>2
<1>4. m = [f \in DOMAIN now |-> m[f]] /\ \A f \in {"id", "host", "slug"} : m[f] = now[f]
  BY <1>0, <1>2 DEF PolicyFields
<1>5. /\ "allow" \in Left(c) => c.row.allow = 0
      /\ "jurisdiction" \notin Left(c) /\ "mode" \notin Left(c)
  BY DEF Left
<1>6. /\ m.enabled = now.enabled /\ m.jurisdiction = c.row.jurisdiction /\ m.mode = c.row.mode
      /\ m.allow = IF "allow" \in Left(c) THEN now.allow ELSE c.row.allow
      /\ m.origins = c.row.origins \/ m.origins = now.origins
  BY <1>0, <1>2, <1>5 DEF Fields, PolicyFields
<1>. HIDE DEF m
<1>7. m \in AdminSite
  BY <1>3, <1>4, ResetRow
<1>8. (IF left THEN 0 ELSE m.allow) = c.row.allow
  BY <1>5, <1>6
<1>. HIDE DEF left
<1>9. PolicyOK(m, left)
  <2>1. Valid(c.row, c.row.allow)
    BY ValidIs
  <2>2. Len(m.origins) <= MaxOrigins
    BY <1>6, <2>1 DEF PolicyOK, Valid
  <2>. QED  BY <1>6, <1>8, <2>1, <2>2 DEF PolicyOK, Valid
<1>. QED  BY <1>6, <1>7, <1>9 DEF m, left

(* Canonical origins are as many. *)
LEMMA CanonicalRow ==
  ASSUME NEW r \in AdminSite
  PROVE  /\ Canonical(r) \in AdminSite /\ Canonical(r).enabled = r.enabled
         /\ \A left : PolicyOK(r, left) => PolicyOK(Canonical(r), left)
<1>. DEFINE o == [i \in DOMAIN r.origins |-> NormalizeOrigin(r.origins[i])]
            m == Canonical(r)
<1>1. r.origins \in Seq(Origins)
  BY DEF AdminSite
<1>2. DOMAIN r.origins = 1..Len(r.origins) /\ Len(r.origins) \in Nat
  BY <1>1
<1>3. \A i \in 1..Len(r.origins) : NormalizeOrigin(r.origins[i]) \in Origins
  BY <1>1 DEF NormalizeOrigin, Origins
<1>4. o \in Seq(Origins) /\ Len(o) = Len(r.origins)
  BY <1>2, <1>3
<1>. HIDE DEF o
<1>5. m = [r EXCEPT !.origins = o]
  BY DEF Canonical, o
<1>6. m \in AdminSite
  BY <1>4, <1>5 DEF AdminSite
<1>7. m.origins = o /\ m.jurisdiction = r.jurisdiction /\ m.mode = r.mode /\ m.allow = r.allow /\ m.enabled = r.enabled
  BY <1>5 DEF AdminSite
<1>. HIDE DEF m
<1>8. \A left : PolicyOK(r, left) => PolicyOK(m, left)
  BY <1>4, <1>7 DEF PolicyOK, Valid
<1>. QED  BY <1>6, <1>7, <1>8 DEF m

(* A row of which no policy column changes is as good as it was. *)
LEMMA SamePolicy ==
  ASSUME NEW r, NEW q, NEW left, PolicyOK(r, left),
         q.origins = r.origins, q.jurisdiction = r.jurisdiction, q.mode = r.mode, q.allow = r.allow
  PROVE  PolicyOK(q, left)
  BY DEF PolicyOK, Valid

(* The row of a new site. *)
LEMMA NewRowOK ==
  ASSUME NEW id \in Nat, NEW new, new.host \in Nat, new.slug \in Nat
  PROVE  /\ NewRow(id, new) \in AdminSite /\ NewRow(id, new).enabled = TRUE
         /\ NewRow(id, new).id = id
         /\ \A left : PolicyOK(NewRow(id, new), left)
<1>1. /\ NewRow(id, new) \in AdminSite /\ NewRow(id, new).enabled = TRUE
      /\ NewRow(id, new).id = id
  BY DEF NewRow, AdminSite, Jurisdictions, Modes, Origins
<1>2. ASSUME NEW left PROVE PolicyOK(NewRow(id, new), left)
  <2>1. /\ NewRow(id, new).origins = <<>> /\ NewRow(id, new).mode = "permissive"
        /\ NewRow(id, new).jurisdiction = "OTHER-NON-EU" /\ Len(<<>>) = 0 /\ MaxOrigins \in Nat
    BY SiteAdminConstants DEF NewRow
  <2>. QED  BY <2>1 DEF PolicyOK, Valid
<1>. QED  BY <1>1, <1>2

---------------------------------------------------------------------------
(* The server's steps. *)

(* A request whose record moves on. *)
LEMMA AdvancedCall ==
  ASSUME NEW c, CallOK(c), NEW st
  PROVE  LET d == [c EXCEPT !.stage = st]
         IN  /\ DOMAIN d = CallFields /\ d.stage = st
             /\ d.site = c.site /\ d.row = c.row /\ d.patch = c.patch /\ d.who = c.who
             /\ d.id = c.id /\ d.mount = c.mount /\ d.modal = c.modal
  BY DEF CallOK, CallFields

(* What a request carries does not depend on the state. *)
LEMMA CarriedOn ==
  /\ \A c : CallOK(c) => CallOK(c)'
  /\ \A l : ListOK(l) => ListOK(l)'
  BY DEF CallOK, ListOK, RowsOK, Creates

(* What is left to show of a step of request c. *)
LEMMA ServedCall ==
  ASSUME StoreInv, NEW c \in calls, NEW d, calls' = (calls \ {c}) \cup {d},
         RowsOK(store)', (toggled \in Seq(BOOLEAN))', (Len(toggled) = Len(store))',
         StoredPolicyValid', EnabledAsAsked',
         CallOK(d), UNCHANGED <<tabVars, ops>>
  PROVE  StoreInv'
<1>1. TableInv'
  <2>1. \A x \in calls' : CallOK(x)'
    BY CarriedOn DEF StoreInv, TableInv
  <2>. QED  BY <2>1 DEF TableInv
<1>2. ScreenInv'
  BY CarriedOn DEF StoreInv, ScreenInv, tabVars, RowsOK
<1>. QED  BY <1>1, <1>2 DEF StoreInv

(* The rows of one site are rewritten. *)
LEMMA RewrittenRows ==
  ASSUME StoreInv, NEW c, NEW R,
         store' = [k \in DOMAIN store |-> IF k \in RowsOf(c) THEN R[k] ELSE store[k]],
         toggled' \in Seq(BOOLEAN), Len(toggled') = Len(toggled),
         \A k \in RowsOf(c) : /\ R[k] \in AdminSite /\ PolicyOK(R[k], k \in spared')
                             /\ R[k].enabled = toggled'[k],
         \A k \in DOMAIN store \ RowsOf(c) : toggled'[k] = toggled[k] /\ (k \in spared' <=> k \in spared)
  PROVE  /\ RowsOK(store)' /\ (toggled \in Seq(BOOLEAN))' /\ (Len(toggled) = Len(store))'
         /\ StoredPolicyValid' /\ EnabledAsAsked'
<1>0. /\ store \in Seq(AdminSite) /\ Len(toggled) = Len(store)
      /\ \A k \in DOMAIN store : PolicyOK(store[k], k \in spared) /\ store[k].enabled = toggled[k]
  BY StoredIs DEF StoreInv, TableInv, RowsOK, EnabledAsAsked
<1>1. DOMAIN store = 1..Len(store) /\ Len(store) \in Nat /\ \A k \in DOMAIN store : store[k] \in AdminSite
  BY <1>0
<1>2. \A k \in DOMAIN store : store'[k] = IF k \in RowsOf(c) THEN R[k] ELSE store[k]
  OBVIOUS
<1>3. \A k \in DOMAIN store : store'[k] \in AdminSite
  BY <1>1, <1>2
<1>4. store' = [k \in 1..Len(store) |-> store'[k]]
  BY <1>1
<1>5. store' \in Seq(AdminSite) /\ Len(store') = Len(store) /\ DOMAIN store' = DOMAIN store
  BY <1>1, <1>3, <1>4
<1>6. RowsOK(store)'
  BY <1>5 DEF RowsOK
<1>7. \A k \in DOMAIN store' : PolicyOK(store'[k], k \in spared') /\ store'[k].enabled = toggled'[k]
  <2>. SUFFICES ASSUME NEW k \in DOMAIN store
                PROVE  PolicyOK(store'[k], k \in spared') /\ store'[k].enabled = toggled'[k]
    BY <1>5
  <2>1. CASE k \in RowsOf(c)
    BY <1>2, <2>1
  <2>2. CASE k \notin RowsOf(c)
    BY <1>0, <1>2, <2>2 DEF PolicyOK
  <2>. QED  BY <2>1, <2>2
<1>8. StoredPolicyValid'
  <2>1. (\A k \in DOMAIN store : PolicyOK(store[k], k \in spared))'
    BY <1>7 DEF PolicyOK, Valid
  <2>. QED  BY <1>6, <2>1, StoredIs, PTL
<1>9. EnabledAsAsked'
  BY <1>7 DEF EnabledAsAsked
<1>. QED  BY <1>0, <1>5, <1>6, <1>8, <1>9

(* A request that moves on and writes nothing. *)
LEMMA MovedOn ==
  ASSUME StoreInv, NEW c \in calls, NEW d, CallOK(d), calls' = (calls \ {c}) \cup {d},
         UNCHANGED <<tabVars, ops, tableVars>>
  PROVE  StoreInv'
<1>1. /\ RowsOK(store)' /\ (toggled \in Seq(BOOLEAN))' /\ (Len(toggled) = Len(store))'
      /\ StoredPolicyValid' /\ EnabledAsAsked'
  BY DEF StoreInv, TableInv, StoredPolicyValid, EnabledAsAsked, tableVars, RowsOK
<1>. QED  BY <1>1, ServedCall

(* PATCH: the row is read, merged and validated, the origins are checked,  *)
(* or a statement fails.                                                   *)
LEMMA ReadingCall ==
  ASSUME StoreInv, NEW c \in calls, PatchLookup(c) \/ CheckOrigins(c) \/ Fail(c),
         UNCHANGED <<tabVars, ops>>
  PROVE  StoreInv'
<1>1. CallOK(c) /\ UNCHANGED tableVars
  BY DEF StoreInv, TableInv, PatchLookup, CheckOrigins, Fail
<1>3. ASSUME NEW st, calls' = (calls \ {c}) \cup {[c EXCEPT !.stage = st]},
             \/ st \in {"ok", "err"}
             \/ Creates(c) /\ st = "slug"
             \/ ~Creates(c) /\ st = "write" /\ Validate(c.row)
             \/ ~Creates(c) /\ st = "attributes" /\ "tz" \in DOMAIN c.patch
             \/ ~Creates(c) /\ st = "enabled" /\ "enabled" \in DOMAIN c.patch
      PROVE  StoreInv'
  <2>. DEFINE d == [c EXCEPT !.stage = st]
  <2>1. /\ DOMAIN d = CallFields /\ d.stage = st
        /\ d.site = c.site /\ d.row = c.row /\ d.patch = c.patch /\ d.who = c.who /\ d.id = c.id
    BY <1>1, AdvancedCall
  <2>2. calls' = (calls \ {c}) \cup {d}
    BY <1>3
  <2>. HIDE DEF d
  <2>3. CallOK(d)
    BY <1>1, <1>3, <2>1 DEF CallOK, Creates
  <2>. QED  BY <1>1, <2>2, <2>3, MovedOn
<1>4. CASE Fail(c)
  <2>1. \/ calls' = (calls \ {c}) \cup {[c EXCEPT !.stage = "err"]}
        \/ Creates(c) /\ calls' = (calls \ {c}) \cup {[c EXCEPT !.stage = "slug"]}
    BY <1>4 DEF Fail, Advance
  <2>. QED  BY <1>3, <2>1
<1>5. CASE CheckOrigins(c)
  <2>1. c.stage = "check" /\ ~Creates(c) /\ Validate(c.row)
    BY <1>1, <1>5 DEF CheckOrigins, CallOK
  <2>2. PICK st \in {"write", "err"} : calls' = (calls \ {c}) \cup {[c EXCEPT !.stage = st]}
    BY <1>5 DEF CheckOrigins, Advance
  <2>. QED  BY <1>3, <2>1, <2>2
<1>6. CASE PatchLookup(c)
  <2>0. ~Creates(c) /\ PatchOK(c.patch)
    BY <1>1, <1>6 DEF PatchLookup, CallOK
  <2>. DEFINE next(row) ==
                IF ~Touches(c, PolicyFields) THEN Advance(c, AfterPolicy(c))
                ELSE IF ~Validate(row) THEN Advance(c, "err")
                ELSE calls' = (calls \ {c}) \cup
                       {[c EXCEPT !.row = row,
                                  !.stage = IF Touches(c, {"origins"}) THEN "check" ELSE "write"]}
  <2>4. PICK k \in RowsOf(c) : next(Merge(c.patch, store[k]))
    BY <1>6 DEF PatchLookup
  <2>5. PICK r \in AdminSite : r = Merge(c.patch, store[k])
    <3>1. store[k] \in AdminSite
      BY DEF StoreInv, TableInv, RowsOK, RowsOf
    <3>. QED  BY <2>0, <3>1, MergeRow
  <2>6. next(r)
    BY <2>4, <2>5
  <2>1. CASE ~Touches(c, PolicyFields)
    <3>1. calls' = (calls \ {c}) \cup {[c EXCEPT !.stage = AfterPolicy(c)]}
      BY <2>1, <2>6 DEF Advance
    <3>2. \/ AfterPolicy(c) = "ok"
          \/ AfterPolicy(c) = "attributes" /\ "tz" \in DOMAIN c.patch
          \/ AfterPolicy(c) = "enabled" /\ "enabled" \in DOMAIN c.patch
      BY DEF AfterPolicy, AfterAttributes, Touches
    <3>. QED  BY <1>3, <2>0, <3>1, <3>2
  <2>2. CASE Touches(c, PolicyFields) /\ ~Validate(r)
    <3>1. calls' = (calls \ {c}) \cup {[c EXCEPT !.stage = "err"]}
      BY <2>2, <2>6 DEF Advance
    <3>. QED  BY <1>3, <3>1
  <2>3. CASE Touches(c, PolicyFields) /\ Validate(r)
    <3>. DEFINE st == IF Touches(c, {"origins"}) THEN "check" ELSE "write"
    <3>2. PICK d : d = [c EXCEPT !.row = r, !.stage = st]
      OBVIOUS
    <3>3. calls' = (calls \ {c}) \cup {d}
      BY <2>3, <2>6, <3>2
    <3>4. st \in {"check", "write"}
      OBVIOUS
    <3>. HIDE DEF st
    <3>5. /\ DOMAIN d = CallFields /\ d.stage = st
          /\ d.site = c.site /\ d.row = r /\ d.patch = c.patch /\ d.who = c.who /\ d.id = c.id
      BY <1>1, <3>2 DEF CallOK, CallFields
    <3>6. CallOK(d)
      BY <1>1, <2>0, <2>3, <3>4, <3>5 DEF CallOK, Creates
    <3>. QED  BY <1>1, <3>3, <3>6, MovedOn
  <2>. QED  BY <2>1, <2>2, <2>3
<1>. QED  BY <1>4, <1>5, <1>6

(* The numbers of rows, and the marks on them. *)
LEMMA TableFacts ==
  ASSUME TableInv
  PROVE  /\ DOMAIN store = 1..Len(store) /\ Len(store) \in Nat
         /\ DOMAIN toggled = DOMAIN store
         /\ \A k \in DOMAIN store : /\ store[k] \in AdminSite /\ PolicyOK(store[k], k \in spared)
                                   /\ store[k].enabled = toggled[k] /\ toggled[k] \in BOOLEAN
<1>1. store \in Seq(AdminSite) /\ toggled \in Seq(BOOLEAN) /\ Len(toggled) = Len(store)
  BY DEF TableInv, RowsOK
<1>2. DOMAIN store = 1..Len(store) /\ Len(store) \in Nat /\ DOMAIN toggled = DOMAIN store
  BY <1>1
<1>3. \A k \in DOMAIN store : store[k] \in AdminSite /\ toggled[k] \in BOOLEAN
  BY <1>1, <1>2
<1>4. \A k \in DOMAIN store : PolicyOK(store[k], k \in spared) /\ store[k].enabled = toggled[k]
  BY StoredIs DEF TableInv, EnabledAsAsked
<1>. QED  BY <1>2, <1>3, <1>4

(* PATCH: the policy is written. *)
LEMMA WritingPolicy ==
  ASSUME StoreInv, NEW c \in calls, WritePolicy(c)
  PROVE  /\ RowsOK(store)' /\ (toggled \in Seq(BOOLEAN))' /\ (Len(toggled) = Len(store))'
         /\ StoredPolicyValid' /\ EnabledAsAsked'
<1>1. c.row \in AdminSite /\ Validate(c.row)
  BY DEF StoreInv, TableInv, CallOK, WritePolicy
<1>2. \A k \in DOMAIN store : /\ store[k] \in AdminSite /\ PolicyOK(store[k], k \in spared)
                             /\ store[k].enabled = toggled[k]
  BY TableFacts DEF StoreInv
<1>3. PICK R : R = [k \in RowsOf(c) |-> Canonical(Written(c, store[k]))]
  OBVIOUS
<1>4. ASSUME NEW k \in RowsOf(c)
      PROVE  /\ R[k] \in AdminSite /\ PolicyOK(R[k], k \in spared')
             /\ R[k].enabled = toggled'[k]
  <2>1. k \in DOMAIN store
    BY DEF RowsOf
  <2>2. PICK w : w = Written(c, store[k])
    OBVIOUS
  <2>. DEFINE left == "allow" \in Left(c) /\ store[k].allow # 0
  <2>3. w \in AdminSite /\ w.enabled = store[k].enabled /\ PolicyOK(w, left)
    BY <1>1, <1>2, <2>1, <2>2, WrittenRow
  <2>4. R[k] = Canonical(w)
    BY <1>3, <2>2
  <2>5. (k \in spared') <=> left
    BY DEF WritePolicy, Spared
  <2>. HIDE DEF left
  <2>6. R[k] \in AdminSite /\ R[k].enabled = w.enabled /\ PolicyOK(R[k], left)
    BY <2>3, <2>4, CanonicalRow
  <2>7. PolicyOK(R[k], k \in spared')
    BY <2>5, <2>6 DEF PolicyOK
  <2>8. toggled' = toggled
    BY DEF WritePolicy
  <2>. QED  BY <1>2, <2>1, <2>3, <2>6, <2>7, <2>8
<1>5. store' = [k \in DOMAIN store |-> IF k \in RowsOf(c) THEN R[k] ELSE store[k]]
  BY <1>3 DEF WritePolicy
<1>6. /\ toggled' \in Seq(BOOLEAN) /\ Len(toggled') = Len(toggled)
      /\ \A k \in DOMAIN store \ RowsOf(c) : toggled'[k] = toggled[k] /\ (k \in spared' <=> k \in spared)
  BY DEF WritePolicy, Spared, StoreInv, TableInv
<1>. QED  BY <1>4, <1>5, <1>6, RewrittenRows

(* PATCH: the attributes or the enabled flag are written. *)
LEMMA WritingFlags ==
  ASSUME StoreInv, NEW c \in calls, WriteAttributes(c) \/ WriteEnabled(c)
  PROVE  /\ RowsOK(store)' /\ (toggled \in Seq(BOOLEAN))' /\ (Len(toggled) = Len(store))'
         /\ StoredPolicyValid' /\ EnabledAsAsked'
<1>1. CallOK(c) /\ ~Creates(c) /\ PatchOK(c.patch)
  BY DEF StoreInv, TableInv, CallOK, WriteAttributes, WriteEnabled
<1>2. /\ DOMAIN store = 1..Len(store) /\ Len(store) \in Nat /\ DOMAIN toggled = DOMAIN store
      /\ toggled \in Seq(BOOLEAN) /\ Len(toggled) = Len(store)
      /\ \A k \in DOMAIN store : /\ store[k] \in AdminSite /\ PolicyOK(store[k], k \in spared)
                                /\ store[k].enabled = toggled[k]
  BY TableFacts DEF StoreInv, TableInv
<1>3. RowsOf(c) \subseteq DOMAIN store
  BY DEF RowsOf
<1>4. CASE WriteAttributes(c)
  <2>1. c.patch.tz \in {"utc", "berlin"}
    BY <1>1, <1>4 DEF CallOK, WriteAttributes, PatchOK, Column
  <2>2. PICK R : R = [k \in RowsOf(c) |-> [store[k] EXCEPT !.tz = c.patch.tz]]
    OBVIOUS
  <2>3. ASSUME NEW k \in RowsOf(c)
        PROVE  /\ R[k] \in AdminSite /\ PolicyOK(R[k], k \in spared')
               /\ R[k].enabled = toggled'[k]
    <3>1. PICK r \in AdminSite : r = store[k] /\ PolicyOK(r, k \in spared) /\ r.enabled = toggled[k]
      BY <1>2, <1>3
    <3>2. PICK q : q = [r EXCEPT !.tz = c.patch.tz]
      OBVIOUS
    <3>3. q \in AdminSite /\ q.enabled = r.enabled /\ q.origins = r.origins /\ q.jurisdiction = r.jurisdiction
          /\ q.mode = r.mode /\ q.allow = r.allow
      BY <2>1, <3>2 DEF AdminSite
    <3>4. PolicyOK(q, k \in spared')
      BY <1>4, <3>1, <3>3 DEF PolicyOK, Valid, WriteAttributes
    <3>. QED  BY <1>4, <2>2, <3>1, <3>2, <3>3, <3>4 DEF WriteAttributes
  <2>4. store' = [k \in DOMAIN store |-> IF k \in RowsOf(c) THEN R[k] ELSE store[k]]
    BY <1>4, <2>2 DEF WriteAttributes
  <2>5. /\ toggled' \in Seq(BOOLEAN) /\ Len(toggled') = Len(toggled)
        /\ \A k \in DOMAIN store \ RowsOf(c) : toggled'[k] = toggled[k] /\ (k \in spared' <=> k \in spared)
    BY <1>2, <1>4 DEF WriteAttributes
  <2>. QED  BY <2>3, <2>4, <2>5, RewrittenRows
<1>5. CASE WriteEnabled(c)
  <2>1. c.patch.enabled \in BOOLEAN
    BY <1>1, <1>5 DEF CallOK, WriteEnabled, PatchOK, Column
  <2>2. PICK R : R = [k \in RowsOf(c) |-> [store[k] EXCEPT !.enabled = c.patch.enabled]]
    OBVIOUS
  <2>3. ASSUME NEW k \in RowsOf(c)
        PROVE  /\ R[k] \in AdminSite /\ PolicyOK(R[k], k \in spared')
               /\ R[k].enabled = toggled'[k]
    <3>1. PICK r \in AdminSite : r = store[k] /\ PolicyOK(r, k \in spared)
      BY <1>2, <1>3
    <3>2. PICK q : q = [r EXCEPT !.enabled = c.patch.enabled]
      OBVIOUS
    <3>3. q \in AdminSite /\ q.enabled = c.patch.enabled /\ q.origins = r.origins /\ q.jurisdiction = r.jurisdiction
          /\ q.mode = r.mode /\ q.allow = r.allow
      BY <2>1, <3>2 DEF AdminSite
    <3>4. PolicyOK(q, k \in spared')
      BY <1>5, <3>1, <3>3 DEF PolicyOK, Valid, WriteEnabled
    <3>5. toggled'[k] = c.patch.enabled
      BY <1>3, <1>5 DEF WriteEnabled
    <3>. QED  BY <2>2, <3>1, <3>2, <3>3, <3>4, <3>5
  <2>4. store' = [k \in DOMAIN store |-> IF k \in RowsOf(c) THEN R[k] ELSE store[k]]
    BY <1>5, <2>2 DEF WriteEnabled
  <2>5. /\ toggled' = [k \in 1..Len(store) |-> IF k \in RowsOf(c) THEN c.patch.enabled ELSE toggled[k]]
        /\ spared' = spared
    BY <1>2, <1>5 DEF WriteEnabled
  <2>6. \A k \in 1..Len(store) : toggled[k] \in BOOLEAN
    BY <1>2
  <2>7. /\ toggled' \in Seq(BOOLEAN) /\ Len(toggled') = Len(toggled)
        /\ \A k \in DOMAIN store \ RowsOf(c) : toggled'[k] = toggled[k] /\ (k \in spared' <=> k \in spared)
    BY <1>2, <2>1, <2>5, <2>6
  <2>. QED  BY <2>3, <2>4, <2>7, RewrittenRows
<1>. QED  BY <1>4, <1>5

(* PATCH: one of the three updates. *)
LEMMA WritingCall ==
  ASSUME StoreInv, NEW c \in calls, WritePolicy(c) \/ WriteAttributes(c) \/ WriteEnabled(c),
         UNCHANGED <<tabVars, ops>>
  PROVE  StoreInv'
<1>1. CallOK(c) /\ ~Creates(c)
  BY DEF StoreInv, TableInv, CallOK, WritePolicy, WriteAttributes, WriteEnabled
<1>3. PICK st : calls' = (calls \ {c}) \cup {[c EXCEPT !.stage = st]}
                /\ \/ st = "ok"
                   \/ st = "attributes" /\ "tz" \in DOMAIN c.patch
                   \/ st = "enabled" /\ "enabled" \in DOMAIN c.patch
  BY DEF WritePolicy, WriteAttributes, WriteEnabled, Advance, AfterPolicy, AfterAttributes, Touches
<1>5. /\ RowsOK(store)' /\ (toggled \in Seq(BOOLEAN))' /\ (Len(toggled) = Len(store))'
      /\ StoredPolicyValid' /\ EnabledAsAsked'
  BY WritingPolicy, WritingFlags
<1>. DEFINE d == [c EXCEPT !.stage = st]
<1>6. /\ DOMAIN d = CallFields /\ d.stage = st
      /\ d.site = c.site /\ d.row = c.row /\ d.patch = c.patch /\ d.who = c.who /\ d.id = c.id
  BY <1>1, AdvancedCall
<1>7. calls' = (calls \ {c}) \cup {d}
  BY <1>3
<1>. HIDE DEF d
<1>8. CallOK(d)
  BY <1>1, <1>3, <1>6 DEF CallOK, Creates
<1>. QED  BY <1>5, <1>7, <1>8, ServedCall

(* POST: what is read decides whether and under what number a site is      *)
(* added; it is live, with a valid policy.                                 *)
LEMMA CreatingCall ==
  ASSUME StoreInv, NEW c \in calls, CreateSite(c), UNCHANGED <<tabVars, ops>>
  PROVE  StoreInv'
<1>1. CallOK(c) /\ Creates(c) /\ c.patch \in NewSites /\ TableInv
  BY DEF StoreInv, TableInv, CreateSite, LookupHost, ResolveSlug, NumberSite, InsertSite, CallOK
<1>2. ASSUME NEW st \in {"slug", "number", "ok", "err"}, calls' = (calls \ {c}) \cup {[c EXCEPT !.stage = st]}
      PROVE  \E d : CallOK(d) /\ calls' = (calls \ {c}) \cup {d}
  <2>1. PICK d : d = [c EXCEPT !.stage = st]
    OBVIOUS
  <2>2. /\ DOMAIN d = CallFields /\ d.stage = st
        /\ d.site = c.site /\ d.row = c.row /\ d.patch = c.patch /\ d.who = c.who /\ d.id = c.id
    BY <1>1, <2>1, AdvancedCall
  <2>3. CallOK(d)
    BY <1>1, <2>2 DEF CallOK, Creates
  <2>. QED  BY <1>2, <2>1, <2>3
<1>3. CASE LookupHost(c)
  <2>1. PICK st \in {"slug", "err"} : calls' = (calls \ {c}) \cup {[c EXCEPT !.stage = st]}
    BY <1>3 DEF LookupHost, Advance
  <2>. QED  BY <1>2, <1>3, <2>1, MovedOn DEF LookupHost
<1>4. CASE ResolveSlug(c)
  <2>1. PICK st \in {"number", "err"} : calls' = (calls \ {c}) \cup {[c EXCEPT !.stage = st]}
    BY <1>4 DEF ResolveSlug, Advance
  <2>. QED  BY <1>2, <1>4, <2>1, MovedOn DEF ResolveSlug
<1>5. CASE NumberSite(c)
  <2>1. PICK last \in {store[k].id : k \in DOMAIN store} \cup {0} :
           calls' = (calls \ {c}) \cup {[c EXCEPT !.site = last + 1, !.stage = "insert"]}
    BY <1>5 DEF NumberSite
  <2>2. last \in Nat
    BY <1>1, <2>1, TableFacts, RowColumns
  <2>3. PICK n \in Nat : n = last + 1
    BY <2>2
  <2>4. PICK d : d = [c EXCEPT !.site = n, !.stage = "insert"]
    OBVIOUS
  <2>5. /\ DOMAIN d = CallFields /\ d.stage = "insert"
        /\ d.site = n /\ d.row = c.row /\ d.patch = c.patch /\ d.who = c.who /\ d.id = c.id
    BY <1>1, <2>4 DEF CallOK, CallFields
  <2>6. CallOK(d)
    BY <1>1, <2>5 DEF CallOK, Creates
  <2>. QED  BY <1>5, <2>1, <2>3, <2>4, <2>6, MovedOn DEF NumberSite
<1>6. CASE InsertSite(c)
  <2>1. PICK r \in AdminSite : /\ r = NewRow(c.site, c.patch) /\ r.enabled = TRUE
                              /\ \A left : PolicyOK(r, left)
    BY <1>1, NewRowOK, NewSiteOK DEF CallOK
  <2>2. store' = Append(store, r) /\ toggled' = Append(toggled, TRUE) /\ spared' = spared
    BY <1>6, <2>1 DEF InsertSite
  <2>3. store \in Seq(AdminSite) /\ toggled \in Seq(BOOLEAN) /\ Len(toggled) = Len(store)
    BY <1>1 DEF TableInv, RowsOK
  <2>4. /\ store' \in Seq(AdminSite) /\ Len(store') = Len(store) + 1
        /\ DOMAIN store' = 1..(Len(store) + 1) /\ Len(store) \in Nat
        /\ \A k \in 1..Len(store) : store'[k] = store[k]
        /\ store'[Len(store) + 1] = r
    BY <2>2, <2>3
  <2>5. /\ toggled' \in Seq(BOOLEAN) /\ Len(toggled') = Len(toggled) + 1
        /\ \A k \in 1..Len(store) : toggled'[k] = toggled[k]
        /\ toggled'[Len(store) + 1] = TRUE
    <3>1. PICK b \in BOOLEAN : b = TRUE
      OBVIOUS
    <3>2. toggled' = Append(toggled, b)
      BY <2>2, <3>1
    <3>3. /\ toggled' \in Seq(BOOLEAN) /\ Len(toggled') = Len(toggled) + 1
          /\ \A k \in 1..Len(toggled) : toggled'[k] = toggled[k]
          /\ toggled'[Len(toggled) + 1] = b
      BY <2>3, <3>2
    <3>. QED  BY <2>3, <3>1, <3>3
  <2>6. /\ RowsOK(store)' /\ (toggled \in Seq(BOOLEAN))' /\ (Len(toggled) = Len(store))'
    <3>1. RowsOK(store)'
      BY <2>4 DEF RowsOK
    <3>2. Len(toggled') = Len(store')
      BY <2>3, <2>4, <2>5
    <3>. QED  BY <2>5, <3>1, <3>2
  <2>7. \A k \in DOMAIN store' : PolicyOK(store'[k], k \in spared) /\ store'[k].enabled = toggled'[k]
    <3>. SUFFICES ASSUME NEW k \in DOMAIN store'
                  PROVE  PolicyOK(store'[k], k \in spared) /\ store'[k].enabled = toggled'[k]
      OBVIOUS
    <3>1. CASE k \in 1..Len(store)
      BY <1>1, <2>4, <2>5, <3>1, TableFacts
    <3>2. CASE k = Len(store) + 1
      BY <2>1, <2>4, <2>5, <3>2
    <3>. QED  BY <2>4, <3>1, <3>2
  <2>8. StoredPolicyValid'
    <3>1. (\A k \in DOMAIN store : PolicyOK(store[k], k \in spared))'
      BY <2>2, <2>7 DEF PolicyOK, Valid
    <3>. QED  BY <2>6, <3>1, StoredIs, PTL
  <2>9. EnabledAsAsked'
    BY <2>7 DEF EnabledAsAsked
  <2>10. PICK d : CallOK(d) /\ calls' = (calls \ {c}) \cup {d}
    BY <1>2, <1>6 DEF InsertSite, Advance
  <2>. QED  BY <2>6, <2>8, <2>9, <2>10, ServedCall
<1>. QED  BY <1>3, <1>4, <1>5, <1>6 DEF CreateSite

---------------------------------------------------------------------------
(* The console's steps.                                                    *)

(* A request sent by the console or by the other admin. *)
LEMMA SentCall ==
  ASSUME TableInv, NEW id \in Nat, NEW who, NEW mnt, NEW mdl, NEW s \in Nat, NEW p,
         PatchOK(p) \/ p \in NewSites,
         calls' = calls \cup {Request(id, who, mnt, mdl, s, p)}, UNCHANGED tableVars
  PROVE  TableInv'
<1>. DEFINE d == Request(id, who, mnt, mdl, s, p)
<1>1. /\ DOMAIN d = CallFields /\ d.stage = "sent" /\ d.site = s /\ d.row = NewRow(s, Blank)
      /\ d.patch = p /\ d.who = who /\ d.id = id
  BY DEF Request, CallFields
<1>2. calls' = calls \cup {d}
  OBVIOUS
<1>. HIDE DEF d
<1>3. NewRow(s, Blank) \in AdminSite
  BY NewRowOK, NewSiteOK
<1>4. CallOK(d)
  BY <1>1, <1>3, PatchCreatesNot, NewSiteOK DEF CallOK, Creates
<1>5. \A c \in calls' : CallOK(c)'
  BY <1>2, <1>4, CarriedOn DEF TableInv
<1>. QED  BY <1>5 DEF TableInv, StoredPolicyValid, EnabledAsAsked, RowsOK, tableVars

(* Steps that leave the server alone. *)
LEMMA SameTable ==
  ASSUME TableInv, calls' \subseteq calls, UNCHANGED tableVars
  PROVE  TableInv'
  BY CarriedOn DEF TableInv, StoredPolicyValid, EnabledAsAsked, RowsOK, tableVars

(* Steps that leave the screen alone. *)
LEMMA SameScreen ==
  ASSUME ScreenInv, ops' \in Nat, UNCHANGED tabVars
  PROVE  ScreenInv'
  BY CarriedOn DEF ScreenInv, RowsOK, tabVars

(* A sequence with elements in T is a sequence over T. *)
LEMMA Retyped ==
  ASSUME NEW S, NEW T, NEW q \in Seq(S), \A i \in 1..Len(q) : q[i] \in T
  PROVE  q \in Seq(T)
<1>1. Len(q) \in Nat /\ q = [i \in 1..Len(q) |-> q[i]]
  OBVIOUS
<1>2. [i \in 1..Len(q) |-> q[i]] \in Seq(T)
  BY <1>1
<1>. QED  BY <1>1, <1>2

(* One more element to choose from. *)
LEMMA SeqMore ==
  ASSUME NEW S, NEW e, NEW q \in Seq(S)
  PROVE  q \in Seq(S \cup {e})
<1>1. \A i \in 1..Len(q) : q[i] \in S \cup {e}
  OBVIOUS
<1>. QED  BY <1>1, Retyped

(* One that does not occur. *)
LEMMA SeqLess ==
  ASSUME NEW S, NEW e, NEW q \in Seq(S \cup {e}), e \notin Range(q)
  PROVE  q \in Seq(S)
<1>1. DOMAIN q = 1..Len(q)
  OBVIOUS
<1>2. ASSUME NEW i \in 1..Len(q) PROVE q[i] \in S
  <2>1. q[i] \in S \cup {e}
    OBVIOUS
  <2>2. q[i] \in Range(q)
    BY <1>1 DEF Range
  <2>. QED  BY <2>1, <2>2
<1>. QED  BY <1>2, Retyped

(* One element taken out. *)
LEMMA SeqRemoved ==
  ASSUME NEW S, NEW q \in Seq(S), NEW i \in 1..Len(q)
  PROVE  /\ RemoveAt(q, i) \in Seq(S)
         /\ \A k \in 1..Len(RemoveAt(q, i)) : \E j \in 1..Len(q) : RemoveAt(q, i)[k] = q[j]
<1>. DEFINE a == SubSeq(q, 1, i - 1)
            b == SubSeq(q, i + 1, Len(q))
<1>1. a \in Seq(S) /\ Len(a) = i - 1 /\ \A k \in 1..(i - 1) : a[k] = q[k]
  OBVIOUS
<1>2. b \in Seq(S) /\ Len(b) = Len(q) - i /\ \A k \in 1..(Len(q) - i) : b[k] = q[i + k]
  <2>1. Len(q) \in Nat /\ i \in Nat /\ i <= Len(q)
    OBVIOUS
  <2>2. \A k \in (i + 1)..Len(q) : q[k] \in S
    OBVIOUS
  <2>3. b \in Seq(S)
    BY <2>1, <2>2
  <2>4. Len(b) = Len(q) - i
    BY <2>1, <2>2
  <2>5. ASSUME NEW k \in 1..(Len(q) - i) PROVE b[k] = q[i + k]
    BY <2>1, <2>2
  <2>. QED  BY <2>3, <2>4, <2>5
<1>3. RemoveAt(q, i) = a \o b
  BY DEF RemoveAt
<1>. HIDE DEF a, b
<1>4. a \o b \in Seq(S) /\ Len(a \o b) = Len(q) - 1
  <2>0. a \in Seq(S) /\ b \in Seq(S)
    BY <1>1, <1>2
  <2>1. a \o b \in Seq(S) /\ Len(a \o b) = Len(a) + Len(b)
    BY ONLY <2>0
  <2>2. Len(q) \in Nat /\ i \in Nat /\ Len(a) = i - 1 /\ Len(b) = Len(q) - i
    BY <1>1, <1>2
  <2>. QED  BY <2>1, <2>2
<1>5. ASSUME NEW k \in 1..(Len(q) - 1) PROVE \E j \in 1..Len(q) : (a \o b)[k] = q[j]
  <2>1. CASE k <= Len(a)
    <3>1. (a \o b)[k] = q[k] /\ k \in 1..Len(q)
      BY <1>1, <1>2, <2>1
    <3>. QED  BY <3>1
  <2>2. CASE k > Len(a)
    <3>1. (a \o b)[k] = b[k - Len(a)]
      BY <1>1, <1>2, <2>2
    <3>2. k - Len(a) \in 1..(Len(q) - i) /\ i + (k - Len(a)) \in 1..Len(q)
      BY <1>1, <2>2
    <3>3. b[k - Len(a)] = q[i + (k - Len(a))]
      BY <1>2, <3>2
    <3>. QED  BY <3>1, <3>2, <3>3
  <2>3. k <= Len(a) \/ k > Len(a)
    BY <1>1
  <2>. QED  BY <2>1, <2>2, <2>3
<1>6. Len(RemoveAt(q, i)) = Len(q) - 1 /\ RemoveAt(q, i) \in Seq(S)
  BY <1>3, <1>4
<1>7. ASSUME NEW k \in 1..Len(RemoveAt(q, i))
      PROVE  \E j \in 1..Len(q) : RemoveAt(q, i)[k] = q[j]
  <2>1. k \in 1..(Len(q) - 1)
    BY <1>6
  <2>. QED  BY <1>3, <1>5, <2>1
<1>. QED  BY <1>6, <1>7

(* What a modal mounted on a row holds. *)
LEMMA MountedModal ==
  ASSUME NEW id \in Nat, NEW s \in Nat, NEW r \in AdminSite
  PROVE  /\ MountModal(id, s, r) \in Modals
         /\ MountModal(id, s, r).site = s /\ MountModal(id, s, r).id = id
         /\ MountModal(id, s, r).saving = FALSE
<1>1. toDraft(r) \in Drafts
  <2>1. \A f \in Fields : r[f] \in Column(f)
    BY RowColumns
  <2>2. \A f \in DraftFields : r[f] \in Column(f)
    BY <2>1 DEF DraftFields, Fields, PolicyFields
  <2>. QED  BY <2>2 DEF toDraft, Drafts, DraftFields
<1>2. r.origins \in Seq(Hosts)
  <2>1. r.origins \in Seq(Origins)
    BY DEF AdminSite
  <2>. QED  BY <2>1, SeqMore DEF Hosts
<1>. QED  BY <1>1, <1>2 DEF MountModal, Modals

(* The row found under a number that is listed. *)
LEMMA FoundRow ==
  ASSUME NEW rs, RowsOK(rs), NEW s, IsListed(rs, s)
  PROVE  Found(rs, s) \in AdminSite
<1>. DEFINE S == {i \in DOMAIN rs : rs[i].id = s}
            L == {ss \in Nat \X Nat : ss[1] < ss[2]}
<1>0. DOMAIN rs = 1..Len(rs) /\ Len(rs) \in Nat /\ \A i \in DOMAIN rs : rs[i] \in AdminSite
  BY DEF RowsOK
<1>1. IsWellFoundedOn(L, Nat)
  BY NatLessThanWellFounded, Zenon DEF OpToRel
<1>2. S \subseteq Nat /\ S # {}
  BY <1>0 DEF IsListed
<1>3. PICK i \in S : \A j \in S : ~(<<j, i>> \in L)
  <2>. HIDE DEF S, L
  <2>. QED  BY <1>1, <1>2, WFMin, Zenon
<1>4. ASSUME NEW j \in S PROVE i <= j
  <2>1. i \in Nat /\ j \in Nat
    BY <1>2
  <2>2. <<j, i>> \in Nat \X Nat /\ <<j, i>>[1] = j /\ <<j, i>>[2] = i
    BY <2>1
  <2>3. ~(j < i)
    BY <1>3, <2>2
  <2>. QED  BY <2>1, <2>3
<1>5. i \in DOMAIN rs /\ rs[i].id = s /\ \A j \in DOMAIN rs : rs[j].id = s => i <= j
  BY <1>4
<1>6. \E k \in DOMAIN rs : rs[k].id = s /\ \A j \in DOMAIN rs : rs[j].id = s => k <= j
  BY <1>5
<1>7. (CHOOSE k \in DOMAIN rs : rs[k].id = s /\ \A j \in DOMAIN rs : rs[j].id = s => k <= j) \in DOMAIN rs
  BY <1>6
<1>. QED  BY <1>0, <1>7 DEF Found

(* An edit of the draft. *)
LEMMA EditedDraft ==
  ASSUME NEW d \in Drafts, NEW f \in DraftFields, NEW v \in Column(f)
  PROVE  [d EXCEPT ![f] = v] \in Drafts
  BY DEF Drafts, DraftFields, Column

(* The patch of a valid modal. *)
LEMMA BuiltPatch ==
  ASSUME NEW r \in AdminSite, NEW m \in Modals, ~isInvalid(m)
  PROVE  PatchOK(buildPatch(r, m))
<1>1. "" \notin Range(m.hosts) /\ m.hosts \in Seq(Hosts) /\ m.draft \in Drafts
  BY DEF isInvalid, Modals
<1>3. m.hosts \in Seq(Origins)
  BY <1>1, SeqLess DEF Hosts
<1>4. nextOrigins(m) \in Column("origins")
  BY <1>1, <1>3 DEF nextOrigins, Column
<1>. DEFINE v == [f \in DraftFields \cup {"origins"} |->
                    IF f = "origins" THEN nextOrigins(m) ELSE m.draft[f]]
<1>5. \A f \in DraftFields : m.draft[f] \in Column(f)
  BY <1>1 DEF Drafts, DraftFields
<1>6. DOMAIN v = DraftFields \cup {"origins"} /\ \A f \in DOMAIN v : v[f] \in Column(f)
  BY <1>4, <1>5
<1>7. buildPatch(r, m) = [f \in {g \in DOMAIN v : v[g] # r[g]} |-> v[f]]
  BY DEF buildPatch
<1>8. DOMAIN v \subseteq Fields
  BY <1>6 DEF DraftFields, Fields, PolicyFields
<1>. HIDE DEF v
<1>. QED  BY <1>6, <1>7, <1>8 DEF PatchOK

(* The modal with other contents. *)
LEMMA ModalFields ==
  ASSUME NEW m \in Modals
  PROVE  /\ m.draft \in Drafts /\ m.hosts \in Seq(Hosts) /\ m.site \in Nat /\ m.id \in Nat
         /\ \A d \in Drafts : /\ [m EXCEPT !.draft = d] \in Modals
                             /\ [m EXCEPT !.draft = d].site = m.site
                             /\ [m EXCEPT !.draft = d].id = m.id
         /\ \A q \in Seq(Hosts) : /\ [m EXCEPT !.hosts = q] \in Modals
                                             /\ [m EXCEPT !.hosts = q].site = m.site
                                             /\ [m EXCEPT !.hosts = q].id = m.id
         /\ \A b, c \in BOOLEAN : /\ [m EXCEPT !.saving = b, !.err = c] \in Modals
                                 /\ [m EXCEPT !.saving = b, !.err = c].site = m.site
                                 /\ [m EXCEPT !.saving = b, !.err = c].id = m.id
                                 /\ [m EXCEPT !.saving = b, !.err = c].saving = b
<1>. DEFINE H == Seq(Hosts)
<1>1. Modals = [id : Nat, site : Nat, draft : Drafts, hosts : H, saving : BOOLEAN, err : BOOLEAN]
  BY DEF Modals
<1>. HIDE DEF H
<1>2. m.draft \in Drafts /\ m.hosts \in H /\ m.site \in Nat /\ m.id \in Nat
  BY <1>1
<1>3. \A d \in Drafts : /\ [m EXCEPT !.draft = d] \in Modals
                       /\ [m EXCEPT !.draft = d].site = m.site
                       /\ [m EXCEPT !.draft = d].id = m.id
  BY <1>1
<1>4. \A q \in H : /\ [m EXCEPT !.hosts = q] \in Modals
                  /\ [m EXCEPT !.hosts = q].site = m.site
                  /\ [m EXCEPT !.hosts = q].id = m.id
  BY <1>1
<1>5. \A b, c \in BOOLEAN : /\ [m EXCEPT !.saving = b, !.err = c] \in Modals
                           /\ [m EXCEPT !.saving = b, !.err = c].site = m.site
                           /\ [m EXCEPT !.saving = b, !.err = c].id = m.id
                           /\ [m EXCEPT !.saving = b, !.err = c].saving = b
  BY <1>1
<1>. QED  BY <1>2, <1>3, <1>4, <1>5 DEF H

(* Edits leave the number of the modal and what it is waiting for. *)
LEMMA ModalSaving ==
  ASSUME NEW m \in Modals, NEW x
  PROVE  /\ [m EXCEPT !.draft = x].id = m.id /\ [m EXCEPT !.draft = x].saving = m.saving
         /\ [m EXCEPT !.hosts = x].id = m.id /\ [m EXCEPT !.hosts = x].saving = m.saving
  BY DEF Modals

(* Something is done. *)
LEMMA Acted ==
  ASSUME Act, ops \in Nat
  PROVE  ops' = ops + 1 /\ ops' \in Nat
  BY DEF Act

(* A step of the modal alone. *)
LEMMA ModalStep ==
  ASSUME StoreInv, NEW m \in Modals, modal # NoModal, m.site = modal.site, modal' = m, ops' \in Nat,
         UNCHANGED <<rows, lists, configuring, form>>
  PROVE  ScreenInv'
  BY CarriedOn DEF StoreInv, ScreenInv, RowsOK, IsListed

(* The steps of the operator at the modal. *)
LEMMA ModalSteps ==
  ASSUME StoreInv, AtModal
  PROVE  StoreInv'
<1>0. /\ modal # NoModal /\ modal \in Modals /\ modal.draft \in Drafts
      /\ modal.hosts \in Seq(Hosts)
      /\ rows # NoRows /\ IsListed(rows, modal.site) /\ RowsOK(rows) /\ ops \in Nat
  BY ModalFields DEF StoreInv, ScreenInv, AtModal, ChangeField, onChangeJurisdiction, setOriginAt, removeOrigin,
         addOrigin, onClose, onSave
<1>1. ASSUME NEW d \in Drafts, Draft(d) PROVE StoreInv'
  <2>1. PICK m : m = [modal EXCEPT !.draft = d]
    OBVIOUS
  <2>2. m \in Modals /\ m.site = modal.site /\ modal' = m
    BY <1>0, <1>1, <2>1, ModalFields DEF Draft
  <2>3. TableInv'
    BY <1>1, SameTable DEF StoreInv, Draft, serverVars
  <2>4. ScreenInv'
    BY <1>0, <1>1, <2>2, Acted, ModalStep DEF Draft, serverVars
  <2>. QED  BY <2>3, <2>4 DEF StoreInv
<1>2. ASSUME NEW q \in Seq(Hosts), AddressRows(q) PROVE StoreInv'
  <2>1. PICK m : m = [modal EXCEPT !.hosts = q]
    OBVIOUS
  <2>2. m \in Modals /\ m.site = modal.site /\ modal' = m
    BY <1>0, <1>2, <2>1, ModalFields DEF AddressRows
  <2>3. TableInv'
    BY <1>2, SameTable DEF StoreInv, AddressRows, serverVars
  <2>4. ScreenInv'
    BY <1>0, <1>2, <2>2, Acted, ModalStep DEF AddressRows, serverVars
  <2>. QED  BY <2>3, <2>4 DEF StoreInv
<1>3. ASSUME NEW e \in Edits, ChangeField(e.field, e.value) PROVE StoreInv'
  <2>1. [modal.draft EXCEPT ![e.field] = e.value] \in Drafts
    BY <1>0, SitesTabConstants, EditedDraft
  <2>. QED  BY <1>1, <1>3, <2>1 DEF ChangeField
<1>4. ASSUME NEW j \in Moves, onChangeJurisdiction(j) PROVE StoreInv'
  <2>. DEFINE md == IF modal.draft.mode = "hybrid" THEN modal.draft.mode ELSE derivedConsentMode(j)
  <2>1. md \in Modes /\ j \in Jurisdictions
    BY <1>0, SitesTabConstants DEF derivedConsentMode, Modes
  <2>2. PICK d : d = [modal.draft EXCEPT !.jurisdiction = j, !.mode = md]
    OBVIOUS
  <2>3. d \in Drafts
    <3>. HIDE DEF md
    <3>. QED  BY <1>0, <2>1, <2>2 DEF Drafts, Column
  <2>4. Draft(d)
    <3>1. modal.draft.mode = [modal.draft EXCEPT !.jurisdiction = j].mode
      BY <1>0 DEF Drafts
    <3>. QED  BY <1>4, <2>2, <3>1 DEF onChangeJurisdiction
  <2>. QED  BY <1>1, <2>3, <2>4
<1>5. ASSUME NEW i \in 1 .. MaxOrigins, NEW o \in Origins, setOriginAt(i, o) PROVE StoreInv'
  <2>1. PICK q : q = [modal.hosts EXCEPT ![i] = o]
    OBVIOUS
  <2>2. AddressRows(q) /\ i \in 1..Len(modal.hosts)
    BY <1>0, <1>5, <2>1 DEF setOriginAt
  <2>3. o \in Hosts
    BY DEF Hosts
  <2>4. q \in Seq(Hosts)
    BY <1>0, <2>1, <2>2, <2>3
  <2>. QED  BY <1>2, <2>2, <2>4
<1>6. ASSUME NEW i \in 1 .. MaxOrigins, removeOrigin(i) PROVE StoreInv'
  <2>1. PICK q : q = RemoveAt(modal.hosts, i)
    OBVIOUS
  <2>2. AddressRows(q) /\ i \in 1..Len(modal.hosts)
    BY <1>0, <1>6, <2>1 DEF removeOrigin
  <2>3. q \in Seq(Hosts)
    BY <1>0, <2>1, <2>2, SeqRemoved
  <2>. QED  BY <1>2, <2>2, <2>3
<1>7. CASE addOrigin
  <2>1. "" \in Hosts
    BY DEF Hosts
  <2>2. PICK h \in Hosts : h = ""
    BY <2>1
  <2>3. Append(modal.hosts, h) \in Seq(Hosts)
    BY <1>0
  <2>. QED  BY <1>2, <1>7, <2>2, <2>3 DEF addOrigin
<1>8. CASE onClose
  <2>1. TableInv'
    BY <1>8, SameTable DEF StoreInv, onClose, serverVars
  <2>2. ScreenInv'
    BY <1>0, <1>8, Acted, CarriedOn DEF StoreInv, ScreenInv, RowsOK, onClose, serverVars
  <2>. QED  BY <2>1, <2>2 DEF StoreInv
<1>9. CASE onSave
  <2>1. Found(rows, modal.site) \in AdminSite /\ modal.site \in Nat
    BY <1>0, FoundRow DEF Modals
  <2>2. PICK p : p = buildPatch(Found(rows, modal.site), modal)
    OBVIOUS
  <2>3. PatchOK(p) /\ calls' = calls \cup {Request(ops', "modal", mount, modal.id, modal.site, p)}
    BY <1>0, <1>9, <2>1, <2>2, BuiltPatch DEF onSave
  <2>4. ops' \in Nat
    BY <1>0, <1>9, Acted DEF onSave
  <2>5. TableInv'
    BY <1>9, <2>1, <2>3, <2>4, SentCall DEF StoreInv, onSave
  <2>6. PICK m : m = [modal EXCEPT !.saving = TRUE, !.err = FALSE]
    OBVIOUS
  <2>7. m \in Modals /\ m.site = modal.site /\ modal' = m
    BY <1>0, <1>9, <2>6, ModalFields DEF onSave
  <2>8. ScreenInv'
    BY <1>0, <1>9, <2>4, <2>7, ModalStep DEF onSave
  <2>. QED  BY <2>5, <2>8 DEF StoreInv
<1>. QED  BY <1>3, <1>4, <1>5, <1>6, <1>7, <1>8, <1>9 DEF AtModal

(* The steps of the operator at the table and the new-site form, and those *)
(* of the other admin.                                                     *)
LEMMA TableSteps ==
  ASSUME StoreInv, AtRows \/ Adding \/ OtherPatching
  PROVE  StoreInv'
<1>0. /\ ops \in Nat /\ TableInv /\ ScreenInv
      /\ form.new \in NewSites \cup {Blank} /\ DOMAIN form = {"new", "busy"}
  BY DEF StoreInv, ScreenInv
<1>10. ASSUME AtRows PROVE RowsOK(rows) /\ \A i \in DOMAIN rows : rows[i] \in AdminSite /\ rows[i].id \in Nat
  <2>1. rows \in Seq(AdminSite)
    BY <1>0, <1>10 DEF ScreenInv, AtRows, RowsOK
  <2>2. \A i \in DOMAIN rows : rows[i] \in AdminSite
    BY <2>1
  <2>. QED  BY <2>1, <2>2, RowColumns DEF RowsOK
<1>1. ASSUME AtRows, NEW i \in DOMAIN rows, Configure(i) PROVE StoreInv'
  <2>1. TableInv'
    BY <1>0, <1>1, SameTable DEF Configure, serverVars
  <2>2. ops' \in Nat
    BY <1>0, <1>1, Acted DEF Configure
  <2>3. rows # NoRows /\ RowsOK(rows)
    BY <1>1, <1>10 DEF AtRows
  <2>4. PICK s \in Nat : s = rows[i].id /\ IsListed(rows, s)
    BY <1>1, <1>10 DEF IsListed
  <2>5. PICK id \in Nat, r \in AdminSite : id = ops' /\ r = Found(rows, s)
    BY <2>2, <2>3, <2>4, FoundRow
  <2>9. PICK m : m = MountModal(id, s, r)
    OBVIOUS
  <2>6. m \in Modals /\ m.site = s
    BY <2>9, MountedModal
  <2>7. modal' = m /\ configuring' = s /\ UNCHANGED <<rows, lists, form>>
    BY <1>1, <2>4, <2>5, <2>9 DEF Configure
  <2>8. ScreenInv'
    BY <1>0, <2>2, <2>3, <2>4, <2>6, <2>7, CarriedOn DEF ScreenInv, RowsOK, IsListed
  <2>. QED  BY <2>1, <2>8 DEF StoreInv
<1>2. ASSUME AtRows, NEW i \in DOMAIN rows, onToggleEnabled(i) PROVE StoreInv'
  <2>1. rows[i].id \in Nat
    BY <1>2, <1>10
  <2>2. ops' \in Nat
    BY <1>0, <1>2, Acted DEF onToggleEnabled
  <2>3. PICK b \in BOOLEAN : b = ~rows[i].enabled
    OBVIOUS
  <2>. DEFINE p == [enabled |-> b]
  <2>4. PatchOK(p)
    <3>1. DOMAIN p = {"enabled"} /\ p["enabled"] = b /\ "enabled" \in Fields
      BY DEF Fields
    <3>2. Column("enabled") = BOOLEAN
      BY DEF Column
    <3>. HIDE DEF p
    <3>. QED  BY <3>1, <3>2 DEF PatchOK
  <2>5. calls' = calls \cup {Request(ops', "button", mount, 0, rows[i].id, p)} /\ UNCHANGED <<tabVars, tableVars>>
    BY <1>2, <2>3 DEF onToggleEnabled
  <2>6. TableInv'
    BY <1>0, <2>1, <2>2, <2>4, <2>5, SentCall
  <2>7. ScreenInv'
    BY <1>0, <2>2, <2>5, SameScreen
  <2>. QED  BY <2>6, <2>7 DEF StoreInv
<1>3. ASSUME NEW new \in NewSites, FillSite(new) PROVE StoreInv'
  <2>1. TableInv'
    BY <1>0, <1>3, SameTable DEF FillSite, serverVars
  <2>2. ops' \in Nat
    BY <1>0, <1>3, Acted DEF FillSite
  <2>3. form'.new = new /\ DOMAIN form' = {"new", "busy"} /\ UNCHANGED <<rows, lists, configuring, modal>>
    BY <1>0, <1>3 DEF FillSite
  <2>4. ScreenInv'
    BY <1>0, <2>2, <2>3, CarriedOn DEF ScreenInv, RowsOK, IsListed
  <2>. QED  BY <2>1, <2>4 DEF StoreInv
<1>4. CASE SubmitSite
  <2>1. ops' \in Nat /\ form.new \in NewSites
    BY <1>0, <1>4, Acted DEF SubmitSite
  <2>2. calls' = calls \cup {Request(ops', "form", mount, 0, 0, form.new)} /\ UNCHANGED tableVars
    BY <1>4 DEF SubmitSite
  <2>3. TableInv'
    BY <1>0, <2>1, <2>2, SentCall
  <2>4. form'.new = form.new /\ DOMAIN form' = {"new", "busy"} /\ UNCHANGED <<rows, lists, configuring, modal>>
    BY <1>0, <1>4 DEF SubmitSite
  <2>5. ScreenInv'
    BY <1>0, <2>1, <2>4, CarriedOn DEF ScreenInv, RowsOK, IsListed
  <2>. QED  BY <2>3, <2>5 DEF StoreInv
<1>5. ASSUME NEW new \in NewSites, OtherCreate(new) PROVE StoreInv'
  <2>1. ops' \in Nat /\ UNCHANGED <<tabVars, tableVars>>
    BY <1>0, <1>5, Acted DEF OtherCreate
  <2>2. TableInv'
    BY <1>0, <1>5, <2>1, SentCall DEF OtherCreate
  <2>3. ScreenInv'
    BY <1>0, <2>1, SameScreen
  <2>. QED  BY <2>2, <2>3 DEF StoreInv
<1>6. CASE OtherPatching
  <2>1. PICK o \in OtherPatches : OtherPatch(o.site, o.patch)
    BY <1>6 DEF OtherPatching
  <2>2. PatchOK(o.patch) /\ o.site \in Nat
    BY SitesTabConstants
  <2>3. ops' \in Nat /\ UNCHANGED <<tabVars, tableVars>>
    BY <1>0, <2>1, Acted DEF OtherPatch
  <2>4. TableInv'
    BY <1>0, <2>1, <2>2, <2>3, SentCall DEF OtherPatch
  <2>5. ScreenInv'
    BY <1>0, <2>3, SameScreen
  <2>. QED  BY <2>4, <2>5 DEF StoreInv
<1>. QED  BY <1>1, <1>2, <1>3, <1>4, <1>5, <1>6 DEF AtRows, Adding

(* A listing holds rows of the table. *)
LEMMA ListedRows ==
  ASSUME TableInv, NEW t \in Listings
  PROVE  RowsOK(t)
<1>1. DOMAIN store = 1..Len(store) /\ Len(store) \in Nat /\ \A k \in DOMAIN store : store[k] \in AdminSite
  BY TableFacts
<1>2. PICK p \in Bijection(DOMAIN store, DOMAIN store) : t = [i \in DOMAIN store |-> store[p[i]]]
  BY DEF Listings
<1>3. \A i \in DOMAIN store : p[i] \in DOMAIN store
  BY DEF Bijection, Injection
<1>4. t = [i \in 1..Len(store) |-> store[p[i]]] /\ \A i \in 1..Len(store) : store[p[i]] \in AdminSite
  BY <1>1, <1>2, <1>3
<1>5. t \in Seq(AdminSite)
  BY <1>1, <1>4
<1>. QED  BY <1>5 DEF RowsOK

(* The answers to requests, and the list of sites. *)
LEMMA Answered ==
  ASSUME StoreInv, \/ Answer \/ Listed
                   \/ \E l \in lists : ServeList(l) \/ FailList(l)
  PROVE  StoreInv'
<1>0. /\ TableInv /\ ScreenInv /\ form.new \in NewSites \cup {Blank} /\ DOMAIN form = {"new", "busy"}
      /\ \A c \in calls : CallOK(c)
      /\ \A l \in lists : ListOK(l)
      /\ modal # NoModal => modal \in Modals
  BY DEF StoreInv, TableInv, ScreenInv
<1>1. CASE Answer
  <2>1. PICK c \in calls :
           /\ c.stage \in {"ok", "err"} /\ calls' = calls \ {c}
           /\ SaveAnswer(c) \/ ToggleAnswer(c) \/ CreateAnswer(c) \/ OtherAnswer(c)
           /\ UNCHANGED <<rows, configuring, tableVars, ops>>
    BY <1>1 DEF Answer, bounds
  <2>2. TableInv'
    BY <1>0, <2>1, SameTable
  <2>3. form'.new \in NewSites \cup {Blank} /\ DOMAIN form' = {"new", "busy"}
    BY <1>0, <2>1 DEF SaveAnswer, ToggleAnswer, CreateAnswer, OtherAnswer
  <2>4. modal' = modal \/ (modal # NoModal /\ modal' \in Modals /\ modal'.site = modal.site)
    <3>1. CASE SaveAnswer(c) /\ Same(c) /\ c.stage = "err"
      <4>1. modal # NoModal /\ modal' = [modal EXCEPT !.saving = FALSE, !.err = TRUE]
        BY <3>1 DEF SaveAnswer, Same
      <4>. QED  BY <1>0, <4>1, ModalFields
    <3>2. CASE ~(SaveAnswer(c) /\ Same(c) /\ c.stage = "err")
      BY <2>1, <3>2 DEF SaveAnswer, ToggleAnswer, CreateAnswer, OtherAnswer
    <3>. QED  BY <3>1, <3>2
  <2>5. \A l \in lists' : ListOK(l)'
    <3>1. PICK w, n : lists' = lists \/ lists' = lists \cup {List(c.id, w, n)}
      BY <2>1 DEF SaveAnswer, ToggleAnswer, CreateAnswer, OtherAnswer
    <3>2. PICK d : d = List(c.id, w, n)
      OBVIOUS
    <3>3. DOMAIN d = ListFields /\ d.id \in Nat /\ d.stage = "sent"
      BY <1>0, <2>1, <3>2 DEF List, CallOK, ListFields
    <3>4. \A l \in lists : ListOK(l)'
      BY <1>0, CarriedOn
    <3>5. ListOK(d)'
      BY <3>3 DEF ListOK
    <3>. QED  BY <3>1, <3>2, <3>4, <3>5
  <2>6. ScreenInv'
    BY <1>0, <2>1, <2>3, <2>4, <2>5 DEF ScreenInv, RowsOK, IsListed
  <2>. QED  BY <2>2, <2>6 DEF StoreInv
<1>2. ASSUME NEW l \in lists, ServeList(l) \/ FailList(l) PROVE StoreInv'
  <2>1. PICK d, t : /\ lists' = (lists \ {l}) \cup {d}
                    /\ \/ d = [l EXCEPT !.stage = "ok", !.snap = t] /\ t \in Listings
                       \/ d = [l EXCEPT !.stage = "err", !.snap = NoRows]
    BY <1>2 DEF ServeList, FailList
  <2>2. UNCHANGED <<rows, configuring, modal, form, calls, tableVars, ops>>
    BY <1>2 DEF ServeList, FailList, Fault, bounds, serverVars
  <2>3. /\ DOMAIN d = ListFields /\ d.id \in Nat
        /\ d.stage = "ok" => d.snap = t /\ t \in Listings
    BY <1>0, <2>1 DEF ListOK, ListFields
  <2>4. ListOK(d)
    BY <1>0, <2>3, ListedRows DEF ListOK
  <2>5. \A x \in lists' : ListOK(x)'
    BY <1>0, <2>1, <2>4, CarriedOn
  <2>6. TableInv'
    BY <1>0, <2>2, SameTable
  <2>7. ScreenInv'
    BY <1>0, <2>2, <2>5 DEF ScreenInv, RowsOK, IsListed
  <2>. QED  BY <2>6, <2>7 DEF StoreInv
<1>3. CASE Listed
  <2>1. PICK l \in lists :
           /\ l.stage # "sent" /\ lists' = lists \ {l}
           /\ rows' = IF l.stage = "ok" /\ Here(l) THEN l.snap ELSE rows
           /\ configuring' = IF l.then = "close" /\ Here(l) THEN 0 ELSE configuring
           /\ modal' = Shown(l.id, configuring', rows')
           /\ form' = IF l.then = "form" /\ Here(l) THEN [form EXCEPT !.busy = FALSE] ELSE form
           /\ UNCHANGED <<calls, tableVars, ops>>
    BY <1>3 DEF Listed, bounds, serverVars
  <2>2. TableInv'
    BY <1>0, <2>1, SameTable
  <2>3. form'.new \in NewSites \cup {Blank} /\ DOMAIN form' = {"new", "busy"}
    BY <1>0, <2>1
  <2>4. rows' # NoRows => RowsOK(rows)'
    BY <1>0, <2>1 DEF ScreenInv, ListOK, RowsOK
  <2>5. configuring' \in Nat /\ (configuring' = 0 \/ configuring' = configuring)
    BY <1>0, <2>1 DEF ScreenInv
  <2>6. ASSUME modal' # NoModal
        PROVE  modal' \in Modals /\ rows' # NoRows /\ IsListed(rows', modal'.site) /\ modal'.site = configuring'
    <3>1. configuring' # 0 /\ rows' # NoRows /\ IsListed(rows', configuring')
      BY <2>1, <2>6 DEF Shown
    <3>2. CASE modal # NoModal
      <4>1. modal' = modal
        BY <2>1, <3>1, <3>2 DEF Shown
      <4>. QED  BY <1>0, <2>5, <3>1, <3>2, <4>1 DEF ScreenInv
    <3>3. CASE modal = NoModal
      <4>1. modal' = MountModal(l.id, configuring', Found(rows', configuring'))
        BY <2>1, <3>1, <3>3 DEF Shown
      <4>2. RowsOK(rows')
        BY <2>4, <3>1 DEF RowsOK
      <4>3. l.id \in Nat /\ configuring' \in Nat /\ Found(rows', configuring') \in AdminSite
        BY <1>0, <2>5, <3>1, <4>2, FoundRow DEF ListOK
      <4>. QED  BY <3>1, <4>1, <4>3, MountedModal
    <3>. QED  BY <3>2, <3>3
  <2>7. \A x \in lists' : ListOK(x)'
    BY <1>0, <2>1, CarriedOn
  <2>8. ScreenInv'
    BY <1>0, <2>1, <2>3, <2>4, <2>5, <2>6, <2>7 DEF ScreenInv, IsListed
  <2>. QED  BY <2>2, <2>8 DEF StoreInv
<1>. QED  BY <1>1, <1>2, <1>3

(* The steps at the other two tabs. *)
LEMMA ListSteps ==
  ASSUME StoreInv, ListOperator \/ ListNetwork
  PROVE  StoreInv'
<1>0. TableInv /\ ScreenInv /\ ops \in Nat
  BY DEF StoreInv, ScreenInv
<1>1. ASSUME NEW t, OpenTab(t) PROVE StoreInv'
  <2>1. TableInv'
    BY <1>0, <1>1, SameTable DEF OpenTab, serverVars
  <2>2. ops' \in Nat /\ rows' = NoRows /\ modal' = NoModal /\ configuring' = 0 /\ form' = NewForm
    BY <1>0, <1>1, Acted DEF OpenTab, serverVars
  <2>3. PICK d : d = [List(ops', "none", 0) EXCEPT !.mount = mount']
    OBVIOUS
  <2>4. DOMAIN d = ListFields /\ d.id \in Nat /\ d.stage = "sent"
    BY <2>2, <2>3 DEF List, ListFields
  <2>5. lists' \subseteq lists \cup {d}
    BY <1>1, <2>3 DEF OpenTab
  <2>6. \A l \in lists : ListOK(l)'
    BY <1>0, CarriedOn DEF ScreenInv
  <2>7. ListOK(d)'
    BY <2>4 DEF ListOK
  <2>8. form'.new = Blank /\ DOMAIN form' = {"new", "busy"}
    BY <2>2 DEF NewForm
  <2>9. ScreenInv'
    BY <2>2, <2>5, <2>6, <2>7, <2>8 DEF ScreenInv
  <2>. QED  BY <2>1, <2>9 DEF StoreInv
<1>2. ASSUME UNCHANGED <<rows, lists, configuring, modal, form>>, UNCHANGED serverVars, ops' \in Nat
      PROVE  StoreInv'
  <2>1. TableInv'
    BY <1>0, <1>2, SameTable DEF serverVars
  <2>2. ScreenInv'
    BY <1>0, <1>2, CarriedOn DEF ScreenInv, RowsOK, IsListed
  <2>. QED  BY <2>1, <2>2 DEF StoreInv
<1>3. ASSUME NEW s, SwitchSite(s) PROVE StoreInv'
  BY <1>0, <1>2, <1>3, Acted DEF SwitchSite, tabVars
<1>4. ASSUME NEW e, FillEntry(e) PROVE StoreInv'
  BY <1>0, <1>2, <1>4, Acted DEF FillEntry, tabVars
<1>5. CASE SubmitEntry
  BY <1>0, <1>2, <1>5, Acted DEF SubmitEntry, tabVars
<1>6. ASSUME NEW i, onDisable(i) \/ AskDelete(i) \/ CancelDelete(i) \/ onDelete(i) PROVE StoreInv'
  BY <1>0, <1>2, <1>6, Acted DEF onDisable, AskDelete, CancelDelete, onDelete, tabVars
<1>7. ASSUME NEW a, RefuseAsk(a) PROVE StoreInv'
  BY <1>0, <1>2, <1>7 DEF RefuseAsk, tabVars, bounds, Fault
<1>8. ASSUME NEW a, NEW answer, ServeAsk(a, answer) PROVE StoreInv'
  BY <1>0, <1>2, <1>8 DEF ServeAsk, tabVars, bounds, Fault
<1>9. CASE AskAnswer
  BY <1>0, <1>2, <1>9 DEF AskAnswer, bounds
<1>. QED  BY <1>1, <1>3, <1>4, <1>5, <1>6, <1>7, <1>8, <1>9 DEF ListOperator, ListNetwork

(* The store, the requests and the screen fit each other, always. *)
THEOREM StoreInvariant == Spec => []StoreInv
<1>1. Init => StoreInv
  <2>. SUFFICES ASSUME Init PROVE StoreInv
    OBVIOUS
  <2>1. /\ store = [s \in Sites |-> NewRow(s, [host |-> s, slug |-> s])] /\ toggled = [s \in Sites |-> TRUE]
        /\ calls = {} /\ rows = NoRows /\ configuring = 0 /\ modal = NoModal /\ form = NewForm /\ ops = 0
        /\ lists = {[id |-> 0, mount |-> 1, then |-> "none", modal |-> 0, snap |-> NoRows, stage |-> "sent"]}
    BY DEF Init, SitesInit
  <2>2. TableInv
    <3>1. Sites = 1..BootSites /\ BootSites \in Nat
      BY SiteAdminConstants DEF Sites
    <3>2. ASSUME NEW s \in Sites
          PROVE  store[s] \in AdminSite /\ store[s].enabled = TRUE /\ \A left : PolicyOK(store[s], left)
      <4>1. PICK new : new = [host |-> s, slug |-> s]
        OBVIOUS
      <4>2. s \in Nat /\ new.host \in Nat /\ new.slug \in Nat
        BY <3>1, <4>1
      <4>3. store[s] = NewRow(s, new)
        BY <2>1, <4>1
      <4>4. PICK r : r = NewRow(s, new)
        OBVIOUS
      <4>5. r \in AdminSite /\ r.enabled = TRUE /\ \A left : PolicyOK(r, left)
        BY <4>2, <4>4, NewRowOK
      <4>. QED  BY <4>3, <4>4, <4>5
    <3>3. store \in Seq(AdminSite) /\ DOMAIN store = Sites /\ Len(store) = BootSites
      <4>1. DOMAIN store = Sites
        BY <2>1
      <4>2. store = [s \in Sites |-> store[s]]
        BY <2>1
      <4>3. PICK g : g = [s \in 1..BootSites |-> store[s]]
        OBVIOUS
      <4>4. \A s \in 1..BootSites : store[s] \in AdminSite
        BY <3>1, <3>2
      <4>5. g \in Seq(AdminSite) /\ Len(g) = BootSites
        BY <3>1, <4>3, <4>4
      <4>. QED  BY <3>1, <4>1, <4>2, <4>3, <4>5
    <3>4. toggled \in Seq(BOOLEAN) /\ Len(toggled) = BootSites /\ \A s \in Sites : toggled[s] = TRUE
      BY <2>1, <3>1
    <3>5. RowsOK(store)
      BY <3>3 DEF RowsOK
    <3>6. StoredPolicyValid
      BY <3>2, <3>3, <3>5, StoredIs
    <3>7. EnabledAsAsked
      BY <3>2, <3>3, <3>4 DEF EnabledAsAsked
    <3>. QED  BY <2>1, <3>3, <3>4, <3>5, <3>6, <3>7 DEF TableInv
  <2>3. ScreenInv
    BY <2>1 DEF ScreenInv, ListOK, NewForm, ListFields
  <2>. QED  BY <2>2, <2>3 DEF StoreInv
<1>2. StoreInv /\ [Next]_vars => StoreInv'
  <2>. SUFFICES ASSUME StoreInv, [Next]_vars PROVE StoreInv'
    OBVIOUS
  <2>1. CASE AtModal \/ AtRows \/ Adding \/ OtherPatching
    BY <2>1, ModalSteps, TableSteps
  <2>2. CASE ListOperator \/ ListNetwork
    BY <2>2, ListSteps
  <2>3. CASE Network
    <3>1. CASE ServeCall /\ UNCHANGED <<tabVars, bounds>>
      BY <3>1, ReadingCall, WritingCall, CreatingCall DEF ServeCall, bounds
    <3>2. ASSUME NEW c \in calls, Fault /\ Fail(c) /\ UNCHANGED tabVars PROVE StoreInv'
      BY <3>2, ReadingCall DEF Fault
    <3>. QED  BY <2>3, <3>1, <3>2, Answered DEF Network
  <2>4. CASE UNCHANGED vars
    <3>1. TableInv'
      BY <2>4, SameTable DEF StoreInv, vars, serverVars
    <3>2. ScreenInv'
      BY <2>4, SameScreen DEF StoreInv, ScreenInv, vars, bounds
    <3>. QED  BY <3>1, <3>2 DEF StoreInv
  <2>. QED  BY <2>1, <2>2, <2>3, <2>4 DEF Next
<1>. QED  BY <1>1, <1>2, PTL DEF Spec

(* Whatever two admins save at once, a stored policy is a valid one, but   *)
(* for the length of a list of events that a request did not write.        *)
THEOREM PolicyValid == Spec => []StoredPolicyValid
<1>1. StoreInv => StoredPolicyValid
  BY DEF StoreInv, TableInv
<1>. QED  BY <1>1, StoreInvariant, PTL

(* A site is paused or live as the last request about that asked. *)
THEOREM EnabledHonoured == Spec => []EnabledAsAsked
<1>1. StoreInv => EnabledAsAsked
  BY DEF StoreInv, TableInv
<1>. QED  BY <1>1, StoreInvariant, PTL


---------------------------------------------------------------------------
(* The lists of users and goals.                                           *)

Row == [id : Entries, off : BOOLEAN]

AskFields ==
    {"id", "op", "kind", "mount", "site", "what", "then", "key", "born", "snap", "stage"}

(* A request of the two tabs; one that is on screen was sent from there. *)
AskOK(a) ==
    /\ DOMAIN a = AskFields /\ a.kind \in Kinds /\ a.site \in Sites \cup {0}
    /\ a.mount \in Nat /\ a.mount <= mount
    /\ OnScreen(a) => tab \in Kinds
    /\ a.op = "create" => a.what \in Entries /\ (a.stage = "ok" => a.site # 0)
    /\ a.then = "form" => a.op = "list"
    /\ a.op = "list" => a.site # 0 /\ (a.stage = "ok" => a.snap \in Seq(Row))

RowState == {"confirming", "busy", "born"}

(* The rows are rows, and a confirmation is open for a user clicked. *)
ListInv ==
    /\ kept \in [Kinds -> [Sites -> Seq(Row)]]
    /\ table \in Seq(Row) /\ (table # <<>> => tab \in Kinds)
    /\ DOMAIN acts = Entries /\ \A k \in Entries : DOMAIN acts[k] = RowState
    /\ clicked \subseteq Entries /\ \A k \in Entries : acts[k].confirming => k \in clicked
    /\ DOMAIN entry = {"what", "busy"} /\ entry.what \in Entries \cup {0}
    /\ site \in Sites \cup {0} /\ mount \in Nat
    /\ \A a \in asks : AskOK(a)

(* The form is busy exactly while one request of its own is under way. *)
Holder(a) == OnScreen(a) /\ (a.op = "create" \/ (a.op = "list" /\ a.then = "form"))

HolderInv ==
    /\ entry.busy <=> \E a \in asks : Holder(a)
    /\ \A a, b \in asks : Holder(a) /\ Holder(b) => a = b

(* What a form content still has to its account: requests that may yet be  *)
(* accepted, and the form itself unless what it shows was sent already.    *)
Pending(e) == {a \in asks : a.op = "create" /\ a.what = e /\ a.stage = "sent"}

Unsent(e) ==
    IF /\ entry.what = e
       /\ \A a \in asks : ~(OnScreen(a) /\ a.op = "create" /\ a.what = e /\ a.stage \in {"sent", "ok"})
    THEN 1 ELSE 0

TallyInv ==
    /\ tally \in [Entries -> [filled : Nat, accepted : Nat, unheard : Nat]]
    /\ IsFiniteSet(asks)
    /\ \A e \in Entries : tally[e].accepted + Cardinality(Pending(e)) + Unsent(e)
                            <= tally[e].filled + tally[e].unheard

(* What is done on the Sites tab, by its operator or by another admin. *)
AtSites == AtRows \/ AtModal \/ Adding \/ OtherPatching

(* The sites' part of the console stays on its tab. *)
LEMMA SameTab ==
  ASSUME AtSites \/ Network
  PROVE  UNCHANGED <<tab, mount>>
<1>1. AtRows \/ Adding \/ OtherPatching => UNCHANGED <<tab, mount>>
  BY DEF AtRows, Adding, OtherPatching, Configure, onToggleEnabled, FillSite, OtherCreate, SubmitSite,
         OtherPatch, tabVars
<1>2. AtModal => UNCHANGED <<tab, mount>>
  BY DEF AtModal, ChangeField, onChangeJurisdiction, Draft, setOriginAt, removeOrigin, addOrigin,
         AddressRows, onClose, onSave
<1>3. Network => UNCHANGED <<tab, mount>>
  BY DEF Network, ServeList, FailList, Answer, Listed, tabVars
<1>. QED  BY <1>1, <1>2, <1>3 DEF AtSites

(* Steps that leave the lists and the tab alone. *)
LEMMA SameLists ==
  ASSUME UNCHANGED <<tab, mount, listVars>>
  PROVE  (ListInv => ListInv') /\ (HolderInv => HolderInv') /\ (TallyInv => TallyInv')
<1>1. ListInv => ListInv'
  BY DEF ListInv, AskOK, OnScreen, listVars
<1>2. HolderInv => HolderInv'
  BY DEF HolderInv, Holder, OnScreen, listVars
<1>3. TallyInv => TallyInv'
  <2>1. \A e : Pending(e)' = Pending(e) /\ Unsent(e)' = Unsent(e)
    BY DEF Pending, Unsent, OnScreen, listVars
  <2>. QED  BY <2>1 DEF TallyInv, listVars
<1>. QED  BY <1>1, <1>2, <1>3

(* What a new request carries. *)
LEMMA NewAsk ==
  ASSUME ListInv, NEW id, NEW op, NEW what, NEW then
  PROVE  LET a == Ask(id, op, what, then)
         IN  /\ DOMAIN a = AskFields /\ a.op = op /\ a.what = what /\ a.then = then
             /\ a.stage = "sent" /\ a.site = site /\ a.mount = mount /\ a.kind = tab /\ a.id = id
  BY DEF Ask, AskFields

(* A refresh. *)
LEMMA NewRefresh ==
  ASSUME ListInv, NEW id, NEW s, NEW then, NEW r \in Refresh(id, s, then)
  PROVE  /\ DOMAIN r = AskFields /\ r.op = "list" /\ r.then = then /\ r.id = id
         /\ r.stage = "sent" /\ r.site = s /\ s # 0 /\ r.mount = mount /\ r.kind = tab
<1>1. s # 0 /\ r = [Ask(id, "list", 0, then) EXCEPT !.site = s]
  BY DEF Refresh
<1>. QED  BY <1>1 DEF Ask, AskFields

(* A request moves on, and nothing else of it changes but the rows read. *)
LEMMA MovedAsk ==
  ASSUME NEW a, DOMAIN a = AskFields, NEW st, NEW sn
  PROVE  LET d == [a EXCEPT !.stage = st, !.snap = sn]
         IN  /\ DOMAIN d = AskFields /\ d.stage = st /\ d.snap = sn
             /\ d.op = a.op /\ d.kind = a.kind /\ d.mount = a.mount /\ d.site = a.site
             /\ d.what = a.what /\ d.then = a.then /\ d.id = a.id
  BY DEF AskFields

(* A request refused. *)
LEMMA RefusedAsk ==
  ASSUME NEW a, DOMAIN a = AskFields
  PROVE  LET d == [a EXCEPT !.stage = "err"]
         IN  /\ DOMAIN d = AskFields /\ d.stage = "err"
             /\ d.op = a.op /\ d.kind = a.kind /\ d.mount = a.mount /\ d.site = a.site
             /\ d.what = a.what /\ d.then = a.then /\ d.id = a.id
  BY DEF AskFields

(* Rows disabled, and rows without one that was deleted. *)
LEMMA RowsServed ==
  ASSUME NEW rs \in Seq(Row), NEW what
  PROVE  Disabled(rs, what) \in Seq(Row) /\ Deleted(rs, what) \in Seq(Row)
<1>0. Len(rs) \in Nat /\ DOMAIN rs = 1..Len(rs) /\ \A i \in 1..Len(rs) : rs[i] \in Row
  OBVIOUS
<1>1. Disabled(rs, what) \in Seq(Row)
  <2>1. \A i \in 1..Len(rs) : [rs[i] EXCEPT !.off = TRUE] \in Row
    BY <1>0 DEF Row
  <2>2. Disabled(rs, what) = [i \in 1..Len(rs) |-> IF rs[i].id = what THEN [rs[i] EXCEPT !.off = TRUE] ELSE rs[i]]
    BY <1>0 DEF Disabled
  <2>. QED  BY <1>0, <2>1, <2>2
<1>2. Deleted(rs, what) \in Seq(Row)
  <2>1. CASE ~Has(rs, what)
    BY <2>1 DEF Deleted
  <2>2. CASE Has(rs, what)
    <3>1. PICK i : i = CHOOSE j \in DOMAIN rs : rs[j].id = what
      OBVIOUS
    <3>2. i \in DOMAIN rs
      BY <2>2, <3>1 DEF Has
    <3>3. Deleted(rs, what) = RemoveAt(rs, i)
      BY <2>2, <3>1 DEF Deleted
    <3>. QED  BY <1>0, <3>2, <3>3, SeqRemoved
  <2>. QED  BY <2>1, <2>2
<1>. QED  BY <1>1, <1>2

(* What the server leaves are rows. *)
LEMMA ServedRows ==
  ASSUME ListInv, NEW a \in asks, a.op = "create" => a.site # 0
  PROVE  Served(a) \in [Kinds -> [Sites -> Seq(Row)]]
<1>0. kept \in [Kinds -> [Sites -> Seq(Row)]] /\ AskOK(a)
  BY DEF ListInv
<1>1. CASE a.op = "create"
  <2>1. a.kind \in Kinds /\ a.site \in Sites /\ a.what \in Entries
    BY <1>0, <1>1 DEF AskOK
  <2>2. PICK r \in Row : r = [id |-> a.what, off |-> FALSE]
    BY <2>1 DEF Row
  <2>3. Append(kept[a.kind][a.site], r) \in Seq(Row)
    BY <1>0, <2>1
  <2>4. Served(a) = [kept EXCEPT ![a.kind][a.site] = Append(kept[a.kind][a.site], r)]
    BY <1>1, <2>2 DEF Served
  <2>. QED  BY <1>0, <2>1, <2>3, <2>4
<1>2. CASE a.op = "disable"
  <2>1. a.kind \in Kinds
    BY <1>0 DEF AskOK
  <2>2. \A s \in Sites : Disabled(kept[a.kind][s], a.what) \in Seq(Row)
    BY <1>0, <2>1, RowsServed
  <2>3. Served(a) = [kept EXCEPT ![a.kind] = [s \in Sites |-> Disabled(kept[a.kind][s], a.what)]]
    BY <1>2 DEF Served
  <2>. QED  BY <1>0, <2>1, <2>2, <2>3
<1>3. CASE a.op = "delete"
  <2>1. a.kind \in Kinds
    BY <1>0 DEF AskOK
  <2>2. \A s \in Sites : Deleted(kept[a.kind][s], a.what) \in Seq(Row)
    BY <1>0, <2>1, RowsServed
  <2>3. Served(a) = [kept EXCEPT ![a.kind] = [s \in Sites |-> Deleted(kept[a.kind][s], a.what)]]
    BY <1>3 DEF Served
  <2>. QED  BY <1>0, <2>1, <2>2, <2>3
<1>4. CASE a.op \notin {"create", "disable", "delete"}
  BY <1>0, <1>4 DEF Served
<1>. QED  BY <1>1, <1>2, <1>3, <1>4

(* The requests of a step: none that breaks the lists' invariant. *)
LEMMA AsksOK ==
  ASSUME ListInv, NEW A, asks' \subseteq asks \cup A, UNCHANGED <<tab, mount>>,
         \A a \in A : AskOK(a)
  PROVE  \A a \in asks' : AskOK(a)'
  BY DEF ListInv, AskOK, OnScreen

(* One request more. *)
LEMMA AskAdded ==
  ASSUME ListInv, NEW d, asks' \subseteq asks \cup {d}, UNCHANGED <<tab, mount>>, AskOK(d)
  PROVE  \A a \in asks' : AskOK(a)'
  BY DEF ListInv, AskOK, OnScreen

(* The operator's steps at the lists. *)
LEMMA ListOperated ==
  ASSUME ListInv, ops \in Nat, ListOperator
  PROVE  ListInv'
<1>0. /\ table \in Seq(Row) /\ DOMAIN acts = Entries /\ mount \in Nat /\ site \in Sites \cup {0}
      /\ \A a \in asks : AskOK(a)
      /\ \A i \in DOMAIN table : table[i].id \in Entries /\ tab \in Kinds
  <2>1. table \in Seq(Row) /\ (table # <<>> => tab \in Kinds)
    BY DEF ListInv
  <2>2. ASSUME NEW i \in DOMAIN table PROVE table[i].id \in Entries /\ tab \in Kinds
    <3>1. table # <<>> /\ table[i] \in Row
      BY <2>1
    <3>. QED  BY <2>1, <3>1 DEF Row
  <2>. QED  BY <2>1, <2>2 DEF ListInv
<1>1. ASSUME NEW t \in Kinds \cup {"sites"}, OpenTab(t) PROVE ListInv'
  <2>1. /\ mount' = mount + 1 /\ tab' = t /\ table' = <<>> /\ entry' = [what |-> 0, busy |-> FALSE]
        /\ acts' = [k \in DOMAIN acts |-> Mounted(0)] /\ clicked' = {} /\ UNCHANGED <<site, kept>>
    BY <1>1 DEF OpenTab
  <2>2. PICK d : d = [Ask(ops', "list", 0, "none") EXCEPT !.kind = t, !.mount = mount']
    OBVIOUS
  <2>3. asks' \subseteq asks \cup {d} /\ (d \in asks' /\ d \notin asks => t \in Kinds /\ site # 0)
    BY <1>1, <2>2 DEF OpenTab
  <2>4. /\ DOMAIN d = AskFields /\ d.op = "list" /\ d.stage = "sent" /\ d.site = site
        /\ d.kind = t /\ d.mount = mount'
    BY <2>2 DEF Ask, AskFields
  <2>5. \A a \in asks : AskOK(a)'
    <3>1. \A a \in asks : a.mount \in Nat /\ a.mount <= mount' /\ a.mount # mount'
      BY <1>0, <2>1 DEF AskOK
    <3>. QED  BY <1>0, <3>1 DEF AskOK, OnScreen
  <2>6. ASSUME d \in asks', d \notin asks PROVE AskOK(d)'
    BY <1>0, <2>1, <2>3, <2>4, <2>6 DEF AskOK, OnScreen
  <2>7. \A a \in asks' : AskOK(a)'
    BY <2>3, <2>5, <2>6
  <2>8. DOMAIN acts' = Entries /\ \A k \in Entries : DOMAIN acts'[k] = RowState /\ ~acts'[k].confirming
    BY <1>0, <2>1 DEF Mounted, RowState
  <2>. QED  BY <1>0, <2>1, <2>7, <2>8 DEF ListInv
<1>2. ASSUME NEW s \in Sites, SwitchSite(s) PROVE ListInv'
  <2>1. s # 0
    BY SiteAdminConstants DEF Sites
  <2>2. UNCHANGED <<tab, mount, table, acts, entry, kept, clicked>> /\ site' = s
    BY <1>2 DEF SwitchSite, tabVars
  <2>. DEFINE A == IF tab \in Kinds THEN Refresh(ops', s, "none") ELSE {}
  <2>3. asks' = asks \cup A
    BY <1>2 DEF SwitchSite
  <2>4. ASSUME NEW a \in A PROVE AskOK(a)
    <3>1. a \in Refresh(ops', s, "none") /\ tab \in Kinds
      OBVIOUS
    <3>2. /\ DOMAIN a = AskFields /\ a.op = "list" /\ a.stage = "sent" /\ a.site = s /\ a.mount = mount
          /\ a.kind = tab
      BY <3>1, NewRefresh
    <3>. QED  BY <1>0, <2>1, <3>1, <3>2 DEF AskOK
  <2>5. \A a \in asks' : AskOK(a)'
    <3>. HIDE DEF A
    <3>1. PICK B : B = A
      OBVIOUS
    <3>. QED  BY <2>2, <2>3, <2>4, <3>1, AsksOK
  <2>. QED  BY <2>1, <2>2, <2>5 DEF ListInv
<1>3. ASSUME NEW e \in Entries, FillEntry(e) PROVE ListInv'
  <2>1. UNCHANGED <<tab, mount, site, table, acts, asks, kept, clicked>> /\ entry' = [entry EXCEPT !.what = e]
    BY <1>3 DEF FillEntry, tabVars
  <2>2. DOMAIN entry' = {"what", "busy"} /\ entry'.what = e
    BY <2>1 DEF ListInv
  <2>. QED  BY <2>1, <2>2 DEF ListInv, AskOK, OnScreen
<1>4. CASE SubmitEntry
  <2>1. UNCHANGED <<tab, mount, site, table, acts, kept, clicked>> /\ entry' = [entry EXCEPT !.busy = TRUE]
    BY <1>4 DEF SubmitEntry, tabVars
  <2>2. DOMAIN entry' = {"what", "busy"} /\ entry'.what = entry.what
    BY <2>1 DEF ListInv
  <2>3. PICK d : d = Ask(ops', "create", entry.what, "none") /\ asks' = asks \cup {d}
    BY <1>4 DEF SubmitEntry
  <2>4. /\ DOMAIN d = AskFields /\ d.op = "create" /\ d.what = entry.what /\ d.stage = "sent"
        /\ d.site = site /\ d.mount = mount /\ d.kind = tab /\ d.then = "none"
    BY <2>3, NewAsk
  <2>5. tab \in Kinds /\ entry.what \in Entries
    BY <1>4 DEF SubmitEntry, ListInv
  <2>6. AskOK(d)
    BY <1>0, <2>4, <2>5 DEF AskOK
  <2>7. \A a \in asks' : AskOK(a)'
    BY <2>1, <2>3, <2>6, AskAdded
  <2>. QED  BY <2>1, <2>2, <2>7 DEF ListInv
<1>5. ASSUME NEW i \in DOMAIN table, onDisable(i) PROVE ListInv'
  <2>1. UNCHANGED <<tab, mount, site, table, acts, entry, kept, clicked>>
    BY <1>5 DEF onDisable, tabVars
  <2>3. PICK d : d = Ask(ops', "disable", table[i].id, "none") /\ asks' = asks \cup {d}
    BY <1>5 DEF onDisable
  <2>4. DOMAIN d = AskFields /\ d.op = "disable" /\ d.site = site /\ d.mount = mount /\ d.kind = tab /\ d.then = "none"
    BY <2>3, NewAsk
  <2>6. AskOK(d)
    BY <1>0, <2>4 DEF AskOK
  <2>7. \A a \in asks' : AskOK(a)'
    BY <2>1, <2>3, <2>6, AskAdded
  <2>. QED  BY <2>1, <2>7 DEF ListInv
<1>6. ASSUME NEW i \in DOMAIN table, AskDelete(i) PROVE ListInv'
  <2>1. PICK u \in Entries : u = table[i].id
    BY <1>0
  <2>2. /\ UNCHANGED <<tab, mount, site, table, asks, entry, kept>>
        /\ acts' = [acts EXCEPT ![u].confirming = TRUE] /\ clicked' = clicked \cup {u}
    BY <1>6, <2>1 DEF AskDelete, RowKey, tabVars
  <2>3. DOMAIN acts' = Entries /\ \A k \in Entries : DOMAIN acts'[k] = RowState
    BY <2>1, <2>2 DEF ListInv
  <2>4. clicked' \subseteq Entries /\ \A k \in Entries : acts'[k].confirming => k \in clicked'
    BY <2>1, <2>2 DEF ListInv
  <2>. QED  BY <2>2, <2>3, <2>4 DEF ListInv, AskOK, OnScreen
<1>7. ASSUME NEW i \in DOMAIN table, CancelDelete(i) PROVE ListInv'
  <2>1. PICK u \in Entries : u = table[i].id
    BY <1>0
  <2>2. /\ UNCHANGED <<tab, mount, site, table, asks, entry, kept>>
        /\ acts' = [acts EXCEPT ![u].confirming = FALSE] /\ clicked' = clicked \ {u}
    BY <1>7, <2>1 DEF CancelDelete, RowKey, tabVars
  <2>3. DOMAIN acts' = Entries /\ \A k \in Entries : DOMAIN acts'[k] = RowState
    BY <2>1, <2>2 DEF ListInv
  <2>4. clicked' \subseteq Entries /\ \A k \in Entries : acts'[k].confirming => k \in clicked'
    BY <2>1, <2>2 DEF ListInv, RowState
  <2>. QED  BY <2>2, <2>3, <2>4 DEF ListInv, AskOK, OnScreen
<1>8. ASSUME NEW i \in DOMAIN table, onDelete(i) PROVE ListInv'
  <2>1. PICK u \in Entries : u = table[i].id
    BY <1>0
  <2>2. /\ UNCHANGED <<tab, mount, site, table, entry, kept, clicked>>
        /\ acts' = [acts EXCEPT ![u].busy = TRUE]
    BY <1>8, <2>1 DEF onDelete, RowKey, tabVars
  <2>3. /\ DOMAIN acts' = Entries
        /\ \A k \in Entries : DOMAIN acts'[k] = RowState /\ acts'[k].confirming = acts[k].confirming
    BY <2>1, <2>2 DEF ListInv, RowState
  <2>4. PICK d : /\ d = [Ask(ops', "delete", table[i].id, "none") EXCEPT !.key = RowKey(table, i), !.born = Of(i).born]
                 /\ asks' = asks \cup {d}
    BY <1>8 DEF onDelete
  <2>5. DOMAIN d = AskFields /\ d.op = "delete" /\ d.site = site /\ d.mount = mount /\ d.kind = tab /\ d.then = "none"
    BY <2>4 DEF Ask, AskFields
  <2>6. AskOK(d)
    BY <1>0, <2>5 DEF AskOK
  <2>7. \A a \in asks' : AskOK(a)'
    BY <2>2, <2>4, <2>6, AskAdded
  <2>. QED  BY <2>2, <2>3, <2>7 DEF ListInv
<1>. QED  BY <1>1, <1>2, <1>3, <1>4, <1>5, <1>6, <1>7, <1>8 DEF ListOperator

(* The server's answers, and what the console does with them. *)
LEMMA ListNetworked ==
  ASSUME ListInv, ListNetwork
  PROVE  ListInv'
<1>0. /\ table \in Seq(Row) /\ DOMAIN acts = Entries /\ mount \in Nat
      /\ \A a \in asks : AskOK(a)
      /\ kept \in [Kinds -> [Sites -> Seq(Row)]]
  BY DEF ListInv
<1>1. ASSUME NEW a \in asks, RefuseAsk(a) PROVE ListInv'
  <2>1. UNCHANGED <<tab, mount, site, table, acts, entry, kept, clicked>>
    BY <1>1 DEF RefuseAsk, tabVars
  <2>2. PICK d : d = [a EXCEPT !.stage = "err"] /\ asks' = (asks \ {a}) \cup {d}
    BY <1>1 DEF RefuseAsk
  <2>3. /\ DOMAIN d = AskFields /\ d.stage = "err"
        /\ d.op = a.op /\ d.kind = a.kind /\ d.mount = a.mount /\ d.site = a.site /\ d.what = a.what /\ d.then = a.then
    BY <1>0, <2>2, RefusedAsk DEF AskOK
  <2>4. AskOK(d)
    BY <1>0, <2>3 DEF AskOK, OnScreen
  <2>5. \A x \in asks' : AskOK(x)'
    BY <2>1, <2>2, <2>4, AskAdded
  <2>. QED  BY <2>1, <2>5 DEF ListInv
<1>2. ASSUME NEW a \in asks, NEW answer \in {"ok", "err"}, ServeAsk(a, answer) PROVE ListInv'
  <2>1. UNCHANGED <<tab, mount, site, table, acts, entry, clicked>> /\ kept' = Served(a)
    BY <1>2 DEF ServeAsk, tabVars
  <2>2. a.op = "create" => a.site # 0
    BY <1>2 DEF ServeAsk, Acceptable
  <2>3. kept' \in [Kinds -> [Sites -> Seq(Row)]]
    BY <2>1, <2>2, ServedRows
  <2>4. PICK sn : sn = IF a.op = "list" THEN kept[a.kind][a.site] ELSE <<>>
    OBVIOUS
  <2>5. a.op = "list" => sn \in Seq(Row)
    BY <1>0, <2>4 DEF AskOK
  <2>6. PICK d : d = [a EXCEPT !.stage = answer, !.snap = sn] /\ asks' = (asks \ {a}) \cup {d}
    BY <1>2, <2>4 DEF ServeAsk
  <2>7. /\ DOMAIN d = AskFields /\ d.stage = answer /\ d.snap = sn
        /\ d.op = a.op /\ d.kind = a.kind /\ d.mount = a.mount /\ d.site = a.site /\ d.what = a.what /\ d.then = a.then
    BY <1>0, <2>6, MovedAsk DEF AskOK
  <2>8. AskOK(d)
    BY <1>0, <2>2, <2>5, <2>7 DEF AskOK, OnScreen
  <2>9. \A x \in asks' : AskOK(x)'
    BY <2>1, <2>6, <2>8, AskAdded
  <2>. QED  BY <2>1, <2>3, <2>9 DEF ListInv
<1>3. ASSUME NEW a \in asks, ListAnswer(a), UNCHANGED <<tab, mount, site, kept>> PROVE ListInv'
  <2>1. \A x \in asks' : AskOK(x)'
    <3>1. asks' \subseteq asks
      BY <1>3 DEF ListAnswer
    <3>. QED  BY <1>3, <3>1 DEF ListInv, AskOK, OnScreen
  <2>2. DOMAIN entry' = {"what", "busy"} /\ entry'.what = entry.what
    BY <1>3 DEF ListAnswer, ListInv
  <2>3. CASE ~(a.stage = "ok" /\ OnScreen(a))
    BY <1>3, <2>1, <2>2, <2>3 DEF ListAnswer, ListInv
  <2>4. CASE a.stage = "ok" /\ OnScreen(a)
    <3>1. PICK sn \in Seq(Row) : sn = a.snap
      BY <1>0, <1>3, <2>4 DEF ListAnswer, AskOK
    <3>2. table' = sn /\ acts' = Carried(sn, a.id) /\ clicked' = {u \in clicked : Has(sn, u)}
      BY <1>3, <2>4, <3>1 DEF ListAnswer
    <3>3. tab \in Kinds
      BY <1>0, <2>4 DEF AskOK
    <3>4. DOMAIN acts' = Entries
      BY <1>0, <3>2 DEF Carried
    <3>5. ASSUME NEW k \in Entries
          PROVE  DOMAIN acts'[k] = RowState /\ (acts'[k].confirming => k \in clicked')
      <4>1. \/ acts'[k] = Mounted(0) \/ acts'[k] = Mounted(a.id)
            \/ acts'[k] = acts[k] /\ \E i \in DOMAIN sn : sn[i].id = k
        BY <1>0, <3>2 DEF Carried, RowKey
      <4>2. CASE acts'[k] = Mounted(0) \/ acts'[k] = Mounted(a.id)
        BY <4>2 DEF Mounted, RowState
      <4>3. CASE acts'[k] = acts[k] /\ Has(sn, k)
        BY <3>2, <4>3 DEF ListInv
      <4>. QED  BY <4>1, <4>2, <4>3 DEF Has
    <3>. QED  BY <1>3, <2>1, <2>2, <3>2, <3>3, <3>4, <3>5 DEF ListInv
  <2>. QED  BY <2>3, <2>4
<1>4. ASSUME NEW a \in asks, EntryAnswer(a) \/ RowAnswer(a), a.stage \in {"ok", "err"},
             UNCHANGED <<tab, mount, site, kept>>
      PROVE  ListInv'
  <2>1. PICK w : asks' = (asks \ {a}) \cup
                   (IF a.stage = "ok" /\ OnScreen(a) THEN Refresh(a.id, a.site, w) ELSE {})
    BY <1>4 DEF EntryAnswer, RowAnswer
  <2>2. PICK A : A = IF a.stage = "ok" /\ OnScreen(a) THEN Refresh(a.id, a.site, w) ELSE {}
    OBVIOUS
  <2>3. ASSUME NEW r \in A PROVE AskOK(r)
    <3>1. OnScreen(a) /\ r \in Refresh(a.id, a.site, w)
      BY <2>2
    <3>2. /\ DOMAIN r = AskFields /\ r.op = "list" /\ r.stage = "sent" /\ r.site = a.site /\ a.site # 0
          /\ r.mount = mount /\ r.kind = tab
      BY <3>1, NewRefresh
    <3>. QED  BY <1>0, <3>1, <3>2 DEF AskOK
  <2>4. \A x \in asks' : AskOK(x)'
    BY <1>4, <2>1, <2>2, <2>3, AsksOK
  <2>5. table' = table
    BY <1>4 DEF EntryAnswer, RowAnswer
  <2>6. DOMAIN entry' = {"what", "busy"} /\ entry'.what \in {0, entry.what}
    BY <1>4 DEF EntryAnswer, RowAnswer, ListInv
  <2>7. /\ DOMAIN acts' = Entries /\ \A k \in Entries : DOMAIN acts'[k] = RowState
        /\ clicked' \subseteq Entries /\ \A k \in Entries : acts'[k].confirming => k \in clicked'
    <3>1. CASE UNCHANGED <<acts, clicked>>
      BY <3>1 DEF ListInv
    <3>2. CASE /\ acts' = [k \in DOMAIN acts |-> IF acts[k].busy /\ acts[k].born = a.born /\ k = a.key
                                            THEN Mounted(a.born) ELSE acts[k]]
               /\ clicked' = {u \in clicked : acts[u].confirming => acts'[u].confirming}
      <4>1. /\ DOMAIN acts' = Entries
            /\ \A k \in Entries : acts'[k] = acts[k] \/ acts'[k] = Mounted(a.born)
        BY <1>0, <3>2
      <4>2. DOMAIN Mounted(a.born) = RowState /\ ~Mounted(a.born).confirming
        BY DEF Mounted, RowState
      <4>. QED  BY <3>2, <4>1, <4>2 DEF ListInv
    <3>. QED  BY <1>4, <3>1, <3>2 DEF EntryAnswer, RowAnswer
  <2>. QED  BY <1>4, <2>4, <2>5, <2>6, <2>7 DEF ListInv
<1>. QED  BY <1>1, <1>2, <1>3, <1>4 DEF ListNetwork, AskAnswer

(* The rows, the requests about them and the confirmations fit, always. *)
THEOREM ListInvariant == Spec => []ListInv
<1>1. Init => ListInv
  <2>. SUFFICES ASSUME Init PROVE ListInv
    OBVIOUS
  <2>1. /\ site \in Sites \cup {0} /\ mount = 1 /\ table = <<>> /\ entry = [what |-> 0, busy |-> FALSE]
        /\ asks = {} /\ clicked = {} /\ acts = [k \in Entries |-> Mounted(0)]
        /\ kept = [k \in Kinds |-> [s \in Sites |->
                     [i \in DOMAIN BootEntries[s] |-> [id |-> BootEntries[s][i], off |-> FALSE]]]]
    BY AdminConsoleConstants DEF Init, SitesInit
  <2>2. ASSUME NEW s \in Sites
        PROVE  [i \in DOMAIN BootEntries[s] |-> [id |-> BootEntries[s][i], off |-> FALSE]] \in Seq(Row)
    <3>1. PICK q \in Seq(Entries) : q = BootEntries[s]
      BY AdminConsoleConstants
    <3>2. Len(q) \in Nat /\ DOMAIN q = 1..Len(q) /\ \A i \in 1..Len(q) : [id |-> q[i], off |-> FALSE] \in Row
      BY DEF Row
    <3>. QED  BY <3>1, <3>2
  <2>3. kept \in [Kinds -> [Sites -> Seq(Row)]]
    BY <2>1, <2>2
  <2>4. DOMAIN acts = Entries /\ \A k \in Entries : DOMAIN acts[k] = RowState /\ ~acts[k].confirming
    BY <2>1 DEF Mounted, RowState
  <2>. QED  BY <2>1, <2>3, <2>4 DEF ListInv
<1>2. ListInv /\ StoreInv /\ [Next]_vars => ListInv'
  <2>. SUFFICES ASSUME ListInv, StoreInv, [Next]_vars PROVE ListInv'
    OBVIOUS
  <2>0. ops \in Nat
    BY DEF StoreInv, ScreenInv
  <2>1. CASE (AtSites \/ Network) /\ UNCHANGED listVars
    BY <2>1, SameTab, SameLists
  <2>2. CASE ListOperator \/ ListNetwork
    BY <2>0, <2>2, ListOperated, ListNetworked
  <2>3. CASE UNCHANGED vars
    BY <2>3, SameLists DEF vars, tabVars
  <2>. QED  BY <2>1, <2>2, <2>3 DEF Next, AtSites
<1>. QED  BY <1>1, <1>2, StoreInvariant, PTL DEF Spec

(* No user is asked to be erased but one whose Delete was clicked. *)
THEOREM DeletesConfirmed == Spec => DeleteConfirmed
<1>1. ListInv /\ [Next]_vars
      => [\A a \in asks' \ asks : a.op = "delete" /\ a.stage = "sent" => a.what \in clicked]_vars
  <2>. SUFFICES ASSUME ListInv, Next, NEW a \in asks' \ asks, a.op = "delete", a.stage = "sent"
                PROVE  a.what \in clicked
    OBVIOUS
  <2>1. CASE UNCHANGED asks
    BY <2>1
  <2>2. ASSUME NEW t, OpenTab(t) PROVE FALSE
    <3>1. a = [Ask(ops', "list", 0, "none") EXCEPT !.kind = t, !.mount = mount']
      BY <2>2 DEF OpenTab
    <3>2. a.op = "list"
      BY <3>1 DEF Ask
    <3>. QED  BY <3>2
  <2>3. ASSUME NEW id, NEW s, NEW w, a \in Refresh(id, s, w) PROVE FALSE
    BY <2>3, NewRefresh
  <2>4. CASE SubmitEntry
    <3>1. a = Ask(ops', "create", entry.what, "none")
      BY <2>4 DEF SubmitEntry
    <3>2. a.op = "create"
      BY <3>1, NewAsk
    <3>. QED  BY <3>2
  <2>5. ASSUME NEW i, onDisable(i) PROVE FALSE
    <3>1. a = Ask(ops', "disable", table[i].id, "none")
      BY <2>5 DEF onDisable
    <3>2. a.op = "disable"
      BY <3>1, NewAsk
    <3>. QED  BY <3>2
  <2>6. ASSUME NEW i \in DOMAIN table, onDelete(i) PROVE a.what \in clicked
    <3>1. a = [Ask(ops', "delete", table[i].id, "none") EXCEPT !.key = RowKey(table, i), !.born = Of(i).born]
      BY <2>6 DEF onDelete
    <3>2. a.what = table[i].id
      BY <3>1 DEF Ask
    <3>3. acts[table[i].id].confirming
      BY <2>6 DEF onDelete, Of, RowKey
    <3>4. table \in Seq(Row)
      BY DEF ListInv
    <3>5. table[i].id \in Entries
      <4>1. table[i] \in Row
        BY <3>4
      <4>. QED  BY <4>1 DEF Row
    <3>. QED  BY <3>2, <3>3, <3>5 DEF ListInv
  <2>7. ASSUME NEW b \in asks, RefuseAsk(b) \/ \E answer \in {"ok", "err"} : ServeAsk(b, answer)
        PROVE  FALSE
    <3>1. DOMAIN b = AskFields
      BY DEF ListInv, AskOK
    <3>2. CASE RefuseAsk(b)
      <4>1. a = [b EXCEPT !.stage = "err"]
        BY <3>2 DEF RefuseAsk
      <4>. QED  BY <3>1, <4>1, RefusedAsk
    <3>3. ASSUME NEW answer \in {"ok", "err"}, ServeAsk(b, answer) PROVE FALSE
      <4>1. PICK sn : a = [b EXCEPT !.stage = answer, !.snap = sn]
        BY <3>3 DEF ServeAsk
      <4>. QED  BY <3>1, <4>1, MovedAsk
    <3>. QED  BY <2>7, <3>2, <3>3
  <2>8. ASSUME NEW b \in asks, ListAnswer(b) \/ EntryAnswer(b) \/ RowAnswer(b) PROVE FALSE
    BY <2>3, <2>8 DEF ListAnswer, EntryAnswer, RowAnswer
  <2>9. ASSUME NEW s, SwitchSite(s) PROVE FALSE
    BY <2>3, <2>9 DEF SwitchSite
  <2>10. ASSUME NEW i, AskDelete(i) \/ CancelDelete(i) PROVE asks' = asks
    BY <2>10 DEF AskDelete, CancelDelete
  <2>11. ASSUME NEW e, FillEntry(e) PROVE asks' = asks
    BY <2>11 DEF FillEntry
  <2>12. CASE ListOperator
    BY <2>1, <2>2, <2>4, <2>5, <2>6, <2>9, <2>10, <2>11, <2>12 DEF ListOperator
  <2>13. CASE ListNetwork
    BY <2>7, <2>8, <2>13 DEF ListNetwork, AskAnswer
  <2>. QED  BY <2>1, <2>12, <2>13 DEF Next, listVars
<1>. QED  BY <1>1, ListInvariant, PTL DEF Spec, DeleteConfirmed

---------------------------------------------------------------------------
(* The new-user and new-goal form.                                         *)

(* A step that leaves the form and its holders as they are. *)
LEMMA SameHolders ==
  ASSUME HolderInv, entry'.busy = entry.busy, NEW A, NEW B, B \subseteq asks, asks' = (asks \ B) \cup A,
         mount' = mount, \A a \in A \cup B : ~Holder(a)
  PROVE  HolderInv'
<1>1. \A a : Holder(a)' = Holder(a)
  BY DEF Holder, OnScreen
<1>2. \A a : a \in asks' /\ Holder(a) <=> a \in asks /\ Holder(a)
  OBVIOUS
<1>. QED  BY <1>1, <1>2 DEF HolderInv

(* The holders of the form through every step at the lists. *)
LEMMA HeldSteps ==
  ASSUME ListInv, HolderInv, ops \in Nat, ListOperator \/ ListNetwork
  PROVE  HolderInv'
<1>0. \A a \in asks : AskOK(a) /\ DOMAIN a = AskFields
  BY DEF ListInv, AskOK
<1>1. DOMAIN entry = {"what", "busy"} /\ mount \in Nat
  BY DEF ListInv
<1>2. ASSUME UNCHANGED asks, entry'.busy = entry.busy, mount' = mount PROVE HolderInv'
  BY <1>2 DEF HolderInv, Holder, OnScreen
<1>3. ASSUME NEW d, ~Holder(d), asks' = asks \cup {d}, entry'.busy = entry.busy, mount' = mount
      PROVE  HolderInv'
  <2>1. PICK B \in SUBSET asks : B = {}
    OBVIOUS
  <2>2. PICK A : A = {d}
    OBVIOUS
  <2>3. asks' = (asks \ B) \cup A /\ \A a \in A \cup B : ~Holder(a)
    BY <1>3, <2>1, <2>2
  <2>. QED  BY <1>3, <2>3, SameHolders
<1>4. ASSUME NEW t \in Kinds \cup {"sites"}, OpenTab(t) PROVE HolderInv'
  <2>1. mount' = mount + 1 /\ entry' = [what |-> 0, busy |-> FALSE]
    BY <1>4 DEF OpenTab
  <2>2. PICK d : d = [Ask(ops', "list", 0, "none") EXCEPT !.kind = t, !.mount = mount']
    OBVIOUS
  <2>3. asks' \subseteq asks \cup {d} /\ d.op = "list" /\ d.then = "none"
    BY <1>4, <2>2 DEF OpenTab, Ask
  <2>4. \A a \in asks : a.mount # mount'
    BY <1>0, <1>1, <2>1 DEF AskOK
  <2>5. \A a \in asks' : ~Holder(a)'
    BY <2>3, <2>4 DEF Holder, OnScreen
  <2>6. ~entry'.busy
    BY <2>1
  <2>. QED  BY <2>5, <2>6 DEF HolderInv
<1>5. ASSUME NEW s \in Sites, SwitchSite(s) PROVE HolderInv'
  <2>1. mount' = mount /\ entry' = entry
    BY <1>5 DEF SwitchSite, tabVars
  <2>. DEFINE A == IF tab \in Kinds THEN Refresh(ops', s, "none") ELSE {}
  <2>2. asks' = asks \cup A
    BY <1>5 DEF SwitchSite
  <2>3. ASSUME NEW a \in A PROVE ~Holder(a)
    <3>1. a \in Refresh(ops', s, "none")
      OBVIOUS
    <3>2. a.op = "list" /\ a.then = "none"
      BY <3>1, NewRefresh
    <3>. QED  BY <3>2 DEF Holder
  <2>. HIDE DEF A
  <2>4. PICK B \in SUBSET asks : B = {}
    OBVIOUS
  <2>5. PICK C : C = A
    OBVIOUS
  <2>6. asks' = (asks \ B) \cup C /\ \A a \in C \cup B : ~Holder(a)
    BY <2>2, <2>3, <2>4, <2>5
  <2>. QED  BY <2>1, <2>6, SameHolders
<1>6. ASSUME NEW e, FillEntry(e) PROVE HolderInv'
  <2>1. asks' = asks /\ mount' = mount /\ entry' = [entry EXCEPT !.what = e]
    BY <1>6 DEF FillEntry, tabVars
  <2>2. entry'.busy = entry.busy
    BY <1>1, <2>1
  <2>. QED  BY <1>2, <2>1, <2>2
<1>7. CASE SubmitEntry
  <2>1. ~entry.busy /\ mount' = mount /\ entry' = [entry EXCEPT !.busy = TRUE]
    BY <1>7 DEF SubmitEntry, tabVars
  <2>2. PICK d : d = Ask(ops', "create", entry.what, "none") /\ asks' = asks \cup {d}
    BY <1>7 DEF SubmitEntry
  <2>3. d.op = "create" /\ d.mount = mount
    BY <2>2, NewAsk
  <2>4. Holder(d)' /\ \A a \in asks : ~Holder(a)'
    BY <2>1, <2>3 DEF HolderInv, Holder, OnScreen
  <2>5. entry'.busy
    BY <1>1, <2>1
  <2>. QED  BY <2>2, <2>4, <2>5 DEF HolderInv
<1>8. ASSUME NEW i, onDisable(i) PROVE HolderInv'
  <2>1. mount' = mount /\ entry' = entry
    BY <1>8 DEF onDisable, tabVars
  <2>2. PICK d : d = Ask(ops', "disable", table[i].id, "none") /\ asks' = asks \cup {d}
    BY <1>8 DEF onDisable
  <2>3. ~Holder(d)
    <3>1. d.op = "disable"
      BY <2>2, NewAsk
    <3>. QED  BY <3>1 DEF Holder
  <2>. QED  BY <1>3, <2>1, <2>2, <2>3
<1>9. ASSUME NEW i, onDelete(i) PROVE HolderInv'
  <2>1. mount' = mount /\ entry' = entry
    BY <1>9 DEF onDelete, tabVars
  <2>2. PICK d : /\ d = [Ask(ops', "delete", table[i].id, "none") EXCEPT !.key = RowKey(table, i), !.born = Of(i).born]
                 /\ asks' = asks \cup {d}
    BY <1>9 DEF onDelete
  <2>3. ~Holder(d)
    <3>1. d.op = "delete"
      BY <2>2 DEF Ask
    <3>. QED  BY <3>1 DEF Holder
  <2>. QED  BY <1>3, <2>1, <2>2, <2>3
<1>10. ASSUME NEW i, AskDelete(i) \/ CancelDelete(i) PROVE HolderInv'
  BY <1>2, <1>10 DEF AskDelete, CancelDelete, tabVars
<1>11. ASSUME NEW a \in asks, NEW d, asks' = (asks \ {a}) \cup {d}, UNCHANGED <<mount, entry>>,
              d.op = a.op, d.then = a.then, d.mount = a.mount
       PROVE  HolderInv'
  <2>1. \A x : Holder(x)' = Holder(x)
    BY <1>11 DEF Holder, OnScreen
  <2>2. Holder(d) <=> Holder(a)
    BY <1>11 DEF Holder, OnScreen
  <2>. QED  BY <1>11, <2>1, <2>2 DEF HolderInv
<1>12. ASSUME NEW a \in asks, RefuseAsk(a) PROVE HolderInv'
  <2>1. PICK d : d = [a EXCEPT !.stage = "err"] /\ asks' = (asks \ {a}) \cup {d}
    BY <1>12 DEF RefuseAsk
  <2>2. d.op = a.op /\ d.then = a.then /\ d.mount = a.mount
    BY <1>0, <2>1, RefusedAsk
  <2>. QED  BY <1>11, <1>12, <2>1, <2>2 DEF RefuseAsk, tabVars
<1>13. ASSUME NEW a \in asks, NEW answer \in {"ok", "err"}, ServeAsk(a, answer) PROVE HolderInv'
  <2>1. PICK sn, d : d = [a EXCEPT !.stage = answer, !.snap = sn] /\ asks' = (asks \ {a}) \cup {d}
    BY <1>13 DEF ServeAsk
  <2>2. d.op = a.op /\ d.then = a.then /\ d.mount = a.mount
    BY <1>0, <2>1, MovedAsk
  <2>. QED  BY <1>11, <1>13, <2>1, <2>2 DEF ServeAsk, tabVars
<1>14. ASSUME NEW a \in asks, Holder(a), asks' = asks \ {a}, ~entry'.busy, mount' = mount PROVE HolderInv'
  <2>1. \A x \in asks' : ~Holder(x)
    BY <1>14 DEF HolderInv
  <2>2. \A x \in asks' : ~Holder(x)'
    BY <1>14, <2>1 DEF Holder, OnScreen
  <2>. QED  BY <1>14, <2>2 DEF HolderInv
<1>15. ASSUME NEW a \in asks, ~Holder(a), NEW A, \A x \in A : ~Holder(x), asks' = (asks \ {a}) \cup A,
              entry'.busy = entry.busy, mount' = mount
       PROVE  HolderInv'
  <2>1. PICK B \in SUBSET asks : B = {a}
    OBVIOUS
  <2>2. asks' = (asks \ B) \cup A /\ \A x \in A \cup B : ~Holder(x)
    BY <1>15, <2>1
  <2>. QED  BY <1>15, <2>2, SameHolders
<1>16. ASSUME NEW a \in asks, ListAnswer(a), mount' = mount PROVE HolderInv'
  <2>0. asks' = asks \ {a} /\ a.op = "list"
    BY <1>16 DEF ListAnswer
  <2>1. CASE Holder(a)
    <3>1. entry' = [entry EXCEPT !.busy = FALSE]
      BY <1>16, <2>0, <2>1 DEF ListAnswer, Holder
    <3>2. ~entry'.busy
      BY <1>1, <3>1
    <3>. QED  BY <1>14, <1>16, <2>0, <2>1, <3>2
  <2>2. CASE ~Holder(a)
    <3>1. entry' = entry
      BY <1>16, <2>0, <2>2 DEF ListAnswer, Holder
    <3>2. PICK A : A = {}
      OBVIOUS
    <3>3. asks' = (asks \ {a}) \cup A /\ \A x \in A : ~Holder(x)
      BY <2>0, <3>2
    <3>. QED  BY <1>15, <1>16, <2>2, <3>1, <3>3
  <2>. QED  BY <2>1, <2>2
<1>17. ASSUME NEW a \in asks, EntryAnswer(a), a.stage \in {"ok", "err"}, mount' = mount PROVE HolderInv'
  <2>0. a.op = "create" /\ (Holder(a) <=> OnScreen(a))
    BY <1>17 DEF EntryAnswer, Holder
  <2>1. CASE ~OnScreen(a)
    <3>1. entry' = entry /\ asks' = asks \ {a}
      BY <1>17, <2>1 DEF EntryAnswer
    <3>2. PICK A : A = {}
      OBVIOUS
    <3>3. asks' = (asks \ {a}) \cup A /\ \A x \in A : ~Holder(x)
      BY <3>1, <3>2
    <3>. QED  BY <1>15, <1>17, <2>0, <2>1, <3>1, <3>3
  <2>2. CASE OnScreen(a) /\ a.stage = "err"
    <3>1. entry' = [entry EXCEPT !.busy = FALSE] /\ asks' = asks \ {a}
      BY <1>17, <2>2 DEF EntryAnswer
    <3>2. ~entry'.busy
      BY <1>1, <3>1
    <3>. QED  BY <1>14, <1>17, <2>0, <2>2, <3>1, <3>2
  <2>3. CASE OnScreen(a) /\ a.stage = "ok"
    <3>1. a.site # 0
      BY <1>0, <2>0, <2>3 DEF AskOK
    <3>2. PICK r : r = [Ask(a.id, "list", 0, "form") EXCEPT !.site = a.site]
      OBVIOUS
    <3>3. Refresh(a.id, a.site, "form") = {r}
      BY <3>1, <3>2 DEF Refresh
    <3>4. asks' = (asks \ {a}) \cup {r} /\ entry' = [entry EXCEPT !.what = 0]
      BY <1>17, <2>3, <3>3 DEF EntryAnswer
    <3>5. r.op = "list" /\ r.then = "form" /\ r.mount = mount
      BY <3>3, NewRefresh
    <3>6. entry'.busy = entry.busy /\ entry.busy
      BY <1>1, <2>0, <2>3, <3>4 DEF HolderInv
    <3>7. \A x \in asks \ {a} : ~Holder(x)
      BY <2>0, <2>3 DEF HolderInv
    <3>8. Holder(r)' /\ \A x \in asks \ {a} : ~Holder(x)'
      BY <1>17, <3>5, <3>7 DEF Holder, OnScreen
    <3>. QED  BY <3>4, <3>6, <3>8 DEF HolderInv
  <2>. QED  BY <1>17, <2>1, <2>2, <2>3
<1>18. ASSUME NEW a \in asks, RowAnswer(a), mount' = mount PROVE HolderInv'
  <2>0. a.op \in {"disable", "delete"} /\ entry' = entry
    BY <1>18 DEF RowAnswer
  <2>. DEFINE A == IF a.stage = "ok" /\ OnScreen(a) THEN Refresh(a.id, a.site, "none") ELSE {}
  <2>1. asks' = (asks \ {a}) \cup A
    BY <1>18 DEF RowAnswer
  <2>2. ASSUME NEW x \in A PROVE ~Holder(x)
    <3>1. x \in Refresh(a.id, a.site, "none")
      OBVIOUS
    <3>2. x.op = "list" /\ x.then = "none"
      BY <3>1, NewRefresh
    <3>. QED  BY <3>2 DEF Holder
  <2>. HIDE DEF A
  <2>3. PICK C : C = A
    OBVIOUS
  <2>4. ~Holder(a)
    BY <2>0 DEF Holder
  <2>. QED  BY <1>15, <1>18, <2>0, <2>1, <2>2, <2>3, <2>4
<1>. QED  BY <1>4, <1>5, <1>6, <1>7, <1>8, <1>9, <1>10, <1>12, <1>13, <1>16, <1>17, <1>18
          DEF ListOperator, ListNetwork, AskAnswer

(* A set with at most one element more, and a set with one element less. *)
LEMMA OneMore ==
  ASSUME NEW S, IsFiniteSet(S), NEW x, NEW T, T \subseteq S \cup {x}
  PROVE  IsFiniteSet(T) /\ Cardinality(T) \in Nat /\ Cardinality(T) <= Cardinality(S) + 1
<1>1. /\ IsFiniteSet(S \cup {x}) /\ Cardinality(S) \in Nat
      /\ Cardinality(S \cup {x}) = IF x \in S THEN Cardinality(S) ELSE Cardinality(S) + 1
  BY FS_AddElement, FS_CardinalityType
<1>2. IsFiniteSet(T) /\ Cardinality(T) <= Cardinality(S \cup {x})
  BY <1>1, FS_Subset
<1>3. Cardinality(T) \in Nat
  BY <1>2, FS_CardinalityType
<1>. QED  BY <1>1, <1>2, <1>3

(* The account of a form content through a step that accepts nothing. *)
LEMMA Accounted ==
  ASSUME NEW f \in Nat, NEW a \in Nat, NEW u \in Nat, NEW p \in Nat, NEW m \in Nat,
         a + p + m <= f + u,
         NEW f2 \in Nat, NEW a2 \in Nat, NEW u2 \in Nat, NEW p2 \in Nat, NEW m2 \in Nat,
         p2 + m2 + a2 + f + u <= p + m + a + f2 + u2
  PROVE  a2 + p2 + m2 <= f2 + u2
  OBVIOUS

(* What the account of e is made of. *)
LEMMA Account ==
  ASSUME TallyInv, NEW e \in Entries
  PROVE  /\ tally[e].filled \in Nat /\ tally[e].accepted \in Nat /\ tally[e].unheard \in Nat
         /\ IsFiniteSet(Pending(e)) /\ Cardinality(Pending(e)) \in Nat /\ Unsent(e) \in {0, 1}
         /\ tally[e].accepted + Cardinality(Pending(e)) + Unsent(e)
               <= tally[e].filled + tally[e].unheard
<1>1. tally[e] \in [filled : Nat, accepted : Nat, unheard : Nat]
  BY DEF TallyInv
<1>2. IsFiniteSet(Pending(e))
  BY FS_Subset DEF TallyInv, Pending
<1>3. Cardinality(Pending(e)) \in Nat
  BY <1>2, FS_CardinalityType
<1>. QED  BY <1>1, <1>2, <1>3 DEF TallyInv, Unsent

(* A step after which nothing more is pending, and the form counts as much *)
(* as before or not at all.                                                *)
LEMMA SameAccount ==
  ASSUME TallyInv, IsFiniteSet(asks'), tally' = tally,
         \A e \in Entries : Pending(e)' \subseteq Pending(e),
         \A e \in Entries : Unsent(e)' \in Nat /\ Unsent(e)' <= Unsent(e)
  PROVE  TallyInv'
<1>1. ASSUME NEW e \in Entries
      PROVE  tally'[e].accepted + Cardinality(Pending(e)') + Unsent(e)'
                 <= tally'[e].filled + tally'[e].unheard
  <2>1. /\ tally[e].filled \in Nat /\ tally[e].accepted \in Nat /\ tally[e].unheard \in Nat
        /\ IsFiniteSet(Pending(e)) /\ Cardinality(Pending(e)) \in Nat /\ Unsent(e) \in {0, 1}
        /\ tally[e].accepted + Cardinality(Pending(e)) + Unsent(e)
               <= tally[e].filled + tally[e].unheard
    BY Account
  <2>2. Cardinality(Pending(e)') \in Nat /\ Cardinality(Pending(e)') <= Cardinality(Pending(e))
    BY <2>1, FS_Subset, FS_CardinalityType
  <2>3. Unsent(e)' \in Nat /\ Unsent(e)' <= Unsent(e)
    OBVIOUS
  <2>. QED  BY <2>1, <2>2, <2>3
<1>. QED  BY <1>1 DEF TallyInv

(* A step that sends no form, and takes away none that was sent from the   *)
(* form on screen unless it was refused or the form is cleared.            *)
LEMMA Neutral ==
  ASSUME TallyInv, IsFiniteSet(asks'), tally' = tally,
         \A a \in asks' \ asks : a.op # "create",
         \/ entry'.what = 0
         \/ /\ entry'.what = entry.what /\ mount' = mount
            /\ \A a \in asks \ asks' : a.op # "create" \/ a.stage = "err" \/ ~OnScreen(a)
  PROVE  TallyInv'
<1>1. \A e \in Entries : Pending(e)' \subseteq Pending(e)
  BY DEF Pending
<1>2. ASSUME NEW e \in Entries PROVE Unsent(e)' \in Nat /\ Unsent(e)' <= Unsent(e)
  <2>1. CASE entry'.what = 0
    BY <2>1, AdminConsoleConstants DEF Unsent
  <2>2. CASE /\ entry'.what = entry.what /\ mount' = mount
             /\ \A a \in asks \ asks' : a.op # "create" \/ a.stage = "err" \/ ~OnScreen(a)
    <3>1. \A a : OnScreen(a)' = OnScreen(a)
      BY <2>2 DEF OnScreen
    <3>2. ASSUME NEW a \in asks, OnScreen(a), a.op = "create", a.what = e, a.stage \in {"sent", "ok"}
          PROVE  a \in asks' /\ OnScreen(a)'
      BY <2>2, <3>1, <3>2
    <3>. HIDE DEF OnScreen
    <3>. QED  BY <2>2, <3>2 DEF Unsent
  <2>. QED  BY <2>1, <2>2
<1>. QED  BY <1>1, <1>2, SameAccount

(* A form's request is answered or fails. *)
LEMMA MovedForm ==
  ASSUME TallyInv, NEW a \in asks, a.op = "create", a.stage = "sent", a.what \in Entries,
         NEW d, d.op = a.op, d.what = a.what, d.mount = a.mount, d.stage \in {"ok", "err"},
         asks' = (asks \ {a}) \cup {d}, UNCHANGED <<mount, entry>>
  PROVE  /\ Cardinality(Pending(a.what)') + 1 = Cardinality(Pending(a.what))
         /\ Cardinality(Pending(a.what)') \in Nat
         /\ Unsent(a.what)' \in Nat /\ Unsent(a.what)' <= Unsent(a.what) + 1
         /\ d.stage = "ok" => Unsent(a.what)' = Unsent(a.what)
         /\ \A e \in Entries \ {a.what} : Pending(e)' = Pending(e) /\ Unsent(e)' = Unsent(e)
<1>0. \A x : OnScreen(x)' = OnScreen(x)
  BY DEF OnScreen
<1>1. Pending(a.what)' = Pending(a.what) \ {a} /\ a \in Pending(a.what)
  BY DEF Pending
<1>2. IsFiniteSet(Pending(a.what))
  BY Account
<1>3. /\ Cardinality(Pending(a.what)') + 1 = Cardinality(Pending(a.what))
      /\ Cardinality(Pending(a.what)') \in Nat
  <2>1. Cardinality(Pending(a.what) \ {a}) = Cardinality(Pending(a.what)) - 1
    BY <1>1, <1>2, FS_RemoveElement
  <2>2. IsFiniteSet(Pending(a.what) \ {a})
    BY <1>2, FS_Subset
  <2>3. Cardinality(Pending(a.what) \ {a}) \in Nat /\ Cardinality(Pending(a.what)) \in Nat
    BY <1>2, <2>2, FS_CardinalityType
  <2>. QED  BY <1>1, <2>1, <2>3
<1>4. Unsent(a.what)' \in Nat /\ Unsent(a.what)' <= Unsent(a.what) + 1
  BY DEF Unsent
<1>5. ASSUME NEW e \in Entries PROVE Pending(e)' = Pending(e) \/ e = a.what
  BY DEF Pending
<1>6. OnScreen(d) <=> OnScreen(a)
  BY DEF OnScreen
<1>7. ASSUME NEW e \in Entries, e # a.what \/ d.stage = "ok" PROVE Unsent(e)' = Unsent(e)
  <2>. HIDE DEF OnScreen
  <2>1. (\A x \in asks' : ~(OnScreen(x) /\ x.op = "create" /\ x.what = e /\ x.stage \in {"sent", "ok"}))
        <=> (\A x \in asks : ~(OnScreen(x) /\ x.op = "create" /\ x.what = e /\ x.stage \in {"sent", "ok"}))
    BY <1>6, <1>7
  <2>. QED  BY <1>0, <2>1 DEF Unsent
<1>. QED  BY <1>3, <1>4, <1>5, <1>7

(* The account through every step at the lists. *)
LEMMA TallySteps ==
  ASSUME ListInv, HolderInv, TallyInv, ops \in Nat, ListOperator \/ ListNetwork
  PROVE  TallyInv'
<1>0. /\ IsFiniteSet(asks) /\ \A a \in asks : AskOK(a) /\ DOMAIN a = AskFields
      /\ DOMAIN entry = {"what", "busy"} /\ DOMAIN tally = Entries /\ mount \in Nat
      /\ \A e \in Entries : tally[e] \in [filled : Nat, accepted : Nat, unheard : Nat]
  BY DEF ListInv, AskOK, TallyInv
<1>a. ASSUME NEW B, NEW d, asks' \subseteq (asks \ B) \cup {d} PROVE IsFiniteSet(asks')
  <2>1. asks' \subseteq asks \cup {d}
    BY <1>a
  <2>. QED  BY <1>0, <2>1, OneMore
<1>b. ASSUME NEW id, NEW s, NEW w, asks' \subseteq asks \cup Refresh(id, s, w)
      PROVE  IsFiniteSet(asks') /\ \A a \in asks' \ asks : a.op = "list"
  <2>1. PICK r : r = [Ask(id, "list", 0, w) EXCEPT !.site = s]
    OBVIOUS
  <2>2. Refresh(id, s, w) \subseteq {r}
    BY <2>1 DEF Refresh
  <2>3. IsFiniteSet(asks')
    BY <1>0, <1>b, <2>2, OneMore
  <2>4. \A a \in Refresh(id, s, w) : a.op = "list"
    BY NewRefresh
  <2>. QED  BY <1>b, <2>3, <2>4
<1>1. ASSUME NEW t \in Kinds \cup {"sites"}, OpenTab(t) PROVE TallyInv'
  <2>1. tally' = tally /\ entry'.what = 0
    BY <1>1 DEF OpenTab
  <2>2. PICK d : d = [Ask(ops', "list", 0, "none") EXCEPT !.kind = t, !.mount = mount']
    OBVIOUS
  <2>3. asks' \subseteq asks \cup {d} /\ d.op = "list"
    BY <1>1, <2>2 DEF OpenTab, Ask
  <2>4. IsFiniteSet(asks') /\ \A a \in asks' \ asks : a.op # "create"
    BY <1>0, <2>3, OneMore
  <2>. QED  BY <2>1, <2>4, Neutral
<1>2. ASSUME NEW s \in Sites, SwitchSite(s) PROVE TallyInv'
  <2>1. asks' \subseteq asks \cup Refresh(ops', s, "none") /\ asks \subseteq asks'
        /\ UNCHANGED <<tally, entry, mount>>
    BY <1>2 DEF SwitchSite, tabVars
  <2>2. IsFiniteSet(asks') /\ \A a \in asks' \ asks : a.op # "create"
    BY <1>b, <2>1
  <2>. QED  BY <2>1, <2>2, Neutral
<1>3. ASSUME NEW e \in Entries, FillEntry(e) PROVE TallyInv'
  <2>1. /\ entry.what # e /\ entry' = [entry EXCEPT !.what = e] /\ UNCHANGED <<asks, mount>>
        /\ tally' = [tally EXCEPT ![e].filled = @ + 1]
    BY <1>3 DEF FillEntry, tabVars
  <2>2. entry'.what = e /\ \A x : OnScreen(x)' = OnScreen(x)
    BY <1>0, <2>1 DEF OnScreen
  <2>3. \A x \in Entries : Pending(x)' = Pending(x)
    BY <2>1 DEF Pending
  <2>4. Unsent(e) = 0 /\ Unsent(e)' \in {0, 1} /\ \A x \in Entries \ {e} : Unsent(x)' = 0
    BY <2>1, <2>2 DEF Unsent
  <2>5. /\ tally' \in [Entries -> [filled : Nat, accepted : Nat, unheard : Nat]]
        /\ tally'[e].filled = tally[e].filled + 1
        /\ tally'[e].accepted = tally[e].accepted /\ tally'[e].unheard = tally[e].unheard
        /\ \A x \in Entries \ {e} : tally'[x] = tally[x]
    <3>. DEFINE T == [filled : Nat, accepted : Nat, unheard : Nat]
    <3>1. PICK r : r = [tally[e] EXCEPT !.filled = tally[e].filled + 1]
      OBVIOUS
    <3>2. /\ r \in T /\ r.filled = tally[e].filled + 1
          /\ r.accepted = tally[e].accepted /\ r.unheard = tally[e].unheard
      BY <1>0, <3>1
    <3>3. tally' = [tally EXCEPT ![e] = r]
      BY <2>1, <3>1
    <3>. HIDE DEF T
    <3>4. \A x \in Entries : tally[x] \in T
      BY <1>0 DEF T
    <3>5. tally \in [Entries -> T]
      BY DEF TallyInv, T
    <3>6. tally' \in [Entries -> T] /\ tally'[e] = r /\ \A x \in Entries \ {e} : tally'[x] = tally[x]
      BY <3>2, <3>3, <3>5
    <3>. QED  BY <3>2, <3>6 DEF T
  <2>6. ASSUME NEW x \in Entries
        PROVE  tally'[x].accepted + Cardinality(Pending(x)') + Unsent(x)'
                  <= tally'[x].filled + tally'[x].unheard
    <3>1. /\ tally[x].filled \in Nat /\ tally[x].accepted \in Nat /\ tally[x].unheard \in Nat
          /\ Cardinality(Pending(x)) \in Nat /\ Unsent(x) \in {0, 1}
          /\ tally[x].accepted + Cardinality(Pending(x)) + Unsent(x)
                 <= tally[x].filled + tally[x].unheard
      BY Account
    <3>2. CASE x = e
      BY <2>3, <2>4, <2>5, <3>1, <3>2
    <3>3. CASE x # e
      BY <2>3, <2>4, <2>5, <3>1, <3>3
    <3>. QED  BY <3>2, <3>3
  <2>. QED  BY <1>0, <2>1, <2>5, <2>6 DEF TallyInv
<1>4. CASE SubmitEntry
  <2>1. ~entry.busy /\ mount' = mount /\ entry' = [entry EXCEPT !.busy = TRUE] /\ tally' = tally
    BY <1>4 DEF SubmitEntry, tabVars
  <2>2. PICK d : d = Ask(ops', "create", entry.what, "none") /\ asks' = asks \cup {d}
    BY <1>4 DEF SubmitEntry
  <2>3. d.op = "create" /\ d.mount = mount /\ d.what = entry.what /\ d.stage = "sent"
    BY <2>2, NewAsk
  <2>4. entry'.what = entry.what /\ IsFiniteSet(asks')
    BY <1>0, <2>1, <2>2, OneMore
  <2>5. ASSUME NEW x \in Entries
        PROVE  tally'[x].accepted + Cardinality(Pending(x)') + Unsent(x)'
                  <= tally'[x].filled + tally'[x].unheard
    <3>1. /\ tally[x].filled \in Nat /\ tally[x].accepted \in Nat /\ tally[x].unheard \in Nat
          /\ IsFiniteSet(Pending(x)) /\ Cardinality(Pending(x)) \in Nat /\ Unsent(x) \in {0, 1}
          /\ tally[x].accepted + Cardinality(Pending(x)) + Unsent(x)
                 <= tally[x].filled + tally[x].unheard
      BY Account
    <3>2. CASE x = entry.what
      <4>1. Unsent(x) = 1
        BY <2>1, <3>2 DEF Unsent, HolderInv, Holder
      <4>2. Unsent(x)' = 0
        BY <2>1, <2>2, <2>3, <3>2 DEF Unsent, OnScreen
      <4>3. Pending(x)' \subseteq Pending(x) \cup {d}
        BY <2>2 DEF Pending
      <4>4. Cardinality(Pending(x)') \in Nat /\ Cardinality(Pending(x)') <= Cardinality(Pending(x)) + 1
        BY <3>1, <4>3, OneMore
      <4>. QED  BY <2>1, <3>1, <4>1, <4>2, <4>4
    <3>3. CASE x # entry.what
      <4>1. Unsent(x)' = 0
        BY <2>4, <3>3 DEF Unsent
      <4>2. Pending(x)' = Pending(x)
        BY <2>2, <2>3, <3>3 DEF Pending
      <4>. QED  BY <2>1, <3>1, <4>1, <4>2
    <3>. QED  BY <3>2, <3>3
  <2>. QED  BY <2>1, <2>4, <2>5 DEF TallyInv
<1>5. ASSUME NEW i, onDisable(i) PROVE TallyInv'
  <2>1. UNCHANGED <<tally, entry, mount>>
    BY <1>5 DEF onDisable, tabVars
  <2>2. PICK d : d = Ask(ops', "disable", table[i].id, "none") /\ asks' = asks \cup {d}
    BY <1>5 DEF onDisable
  <2>3. d.op = "disable"
    BY <2>2, NewAsk
  <2>4. IsFiniteSet(asks')
    BY <1>0, <2>2, OneMore
  <2>. QED  BY <2>1, <2>2, <2>3, <2>4, Neutral
<1>6. ASSUME NEW i, onDelete(i) PROVE TallyInv'
  <2>1. UNCHANGED <<tally, entry, mount>>
    BY <1>6 DEF onDelete, tabVars
  <2>2. PICK d : /\ d = [Ask(ops', "delete", table[i].id, "none") EXCEPT !.key = RowKey(table, i), !.born = Of(i).born]
                 /\ asks' = asks \cup {d}
    BY <1>6 DEF onDelete
  <2>3. d.op = "delete"
    BY <2>2 DEF Ask
  <2>4. IsFiniteSet(asks')
    BY <1>0, <2>2, OneMore
  <2>. QED  BY <2>1, <2>2, <2>3, <2>4, Neutral
<1>7. ASSUME NEW i, AskDelete(i) \/ CancelDelete(i) PROVE TallyInv'
  <2>1. UNCHANGED <<tally, entry, mount, asks>>
    BY <1>7 DEF AskDelete, CancelDelete, tabVars
  <2>. QED  BY <1>0, <2>1, Neutral
<1>8. ASSUME NEW a \in asks, NEW d, d.op = a.op, a.op # "create", asks' = (asks \ {a}) \cup {d},
             UNCHANGED <<tally, entry, mount>>
      PROVE  TallyInv'
  <2>1. IsFiniteSet(asks')
    BY <1>a, <1>8
  <2>2. (\A x \in asks' \ asks : x.op # "create") /\ (\A x \in asks \ asks' : x.op # "create")
    BY <1>8
  <2>. QED  BY <1>8, <2>1, <2>2, Neutral
<1>9. ASSUME NEW a \in asks, RefuseAsk(a) PROVE TallyInv'
  <2>1. UNCHANGED <<tally, entry, mount>> /\ a.stage = "sent"
    BY <1>9 DEF RefuseAsk, tabVars
  <2>2. PICK d : d = [a EXCEPT !.stage = "err"] /\ asks' = (asks \ {a}) \cup {d}
    BY <1>9 DEF RefuseAsk
  <2>3. d.op = a.op /\ d.what = a.what /\ d.mount = a.mount /\ d.stage = "err"
    BY <1>0, <2>2, RefusedAsk
  <2>4. CASE a.op # "create"
    BY <1>8, <2>1, <2>2, <2>3, <2>4
  <2>5. CASE a.op = "create"
    <3>0. a.what \in Entries /\ IsFiniteSet(asks')
      BY <1>0, <1>a, <2>2, <2>5 DEF AskOK
    <3>1. /\ Cardinality(Pending(a.what)') + 1 = Cardinality(Pending(a.what))
          /\ Cardinality(Pending(a.what)') \in Nat
          /\ Unsent(a.what)' \in Nat /\ Unsent(a.what)' <= Unsent(a.what) + 1
          /\ \A e \in Entries \ {a.what} : Pending(e)' = Pending(e) /\ Unsent(e)' = Unsent(e)
      BY <2>1, <2>2, <2>3, <2>5, <3>0, MovedForm
    <3>2. ASSUME NEW x \in Entries
          PROVE  tally'[x].accepted + Cardinality(Pending(x)') + Unsent(x)'
                    <= tally'[x].filled + tally'[x].unheard
      <4>1. /\ tally[x].filled \in Nat /\ tally[x].accepted \in Nat /\ tally[x].unheard \in Nat
            /\ Cardinality(Pending(x)) \in Nat /\ Unsent(x) \in {0, 1}
            /\ tally[x].accepted + Cardinality(Pending(x)) + Unsent(x)
                   <= tally[x].filled + tally[x].unheard
        BY Account
      <4>2. CASE x = a.what
        BY <2>1, <3>1, <4>1, <4>2
      <4>3. CASE x # a.what
        BY <2>1, <3>1, <4>1, <4>3
      <4>. QED  BY <4>2, <4>3
    <3>. QED  BY <2>1, <3>0, <3>2 DEF TallyInv
  <2>. QED  BY <2>4, <2>5
<1>10. ASSUME NEW a \in asks, NEW answer \in {"ok", "err"}, ServeAsk(a, answer) PROVE TallyInv'
  <2>1. UNCHANGED <<entry, mount>> /\ a.stage = "sent"
    BY <1>10 DEF ServeAsk, tabVars
  <2>2. PICK sn, d : d = [a EXCEPT !.stage = answer, !.snap = sn] /\ asks' = (asks \ {a}) \cup {d}
    BY <1>10 DEF ServeAsk
  <2>3. d.op = a.op /\ d.what = a.what /\ d.mount = a.mount /\ d.stage = answer
    BY <1>0, <2>2, MovedAsk
  <2>4. CASE a.op # "create"
    <3>1. tally' = tally
      BY <1>10, <2>4 DEF ServeAsk
    <3>. QED  BY <1>8, <2>1, <2>2, <2>3, <2>4, <3>1
  <2>5. CASE a.op = "create"
    <3>0. a.what \in Entries /\ IsFiniteSet(asks')
      BY <1>0, <1>a, <2>2, <2>5 DEF AskOK
    <3>1. /\ Cardinality(Pending(a.what)') + 1 = Cardinality(Pending(a.what))
          /\ Cardinality(Pending(a.what)') \in Nat
          /\ Unsent(a.what)' \in Nat /\ Unsent(a.what)' <= Unsent(a.what) + 1
          /\ answer = "ok" => Unsent(a.what)' = Unsent(a.what)
          /\ \A e \in Entries \ {a.what} : Pending(e)' = Pending(e) /\ Unsent(e)' = Unsent(e)
      BY <2>1, <2>2, <2>3, <2>5, <3>0, MovedForm
    <3>2. PICK u : u = IF answer = "err" THEN tally[a.what].unheard + 1 ELSE tally[a.what].unheard
      OBVIOUS
    <3>3. PICK r : r = [tally[a.what] EXCEPT !.accepted = tally[a.what].accepted + 1, !.unheard = u]
      OBVIOUS
    <3>. DEFINE T == [filled : Nat, accepted : Nat, unheard : Nat]
    <3>4. /\ tally' \in [Entries -> T]
          /\ \A x \in Entries \ {a.what} : tally'[x] = tally[x]
          /\ tally'[a.what] = tally[a.what] \/ tally'[a.what] = r
      <4>0. u \in Nat
        BY <1>0, <3>0, <3>2
      <4>1. r \in T
        <5>1. PICK t \in T : t = tally[a.what]
          BY <1>0, <3>0
        <5>2. t.accepted + 1 \in Nat
          BY <5>1
        <5>3. r = [t EXCEPT !.accepted = t.accepted + 1, !.unheard = u]
          BY <3>3, <5>1
        <5>. QED  BY <4>0, <5>1, <5>2, <5>3
      <4>2. \/ tally' = tally
            \/ tally' = [tally EXCEPT ![a.what] = r]
        <5>1. tally[a.what].unheard = [tally EXCEPT ![a.what].accepted = tally[a.what].accepted + 1][a.what].unheard
          BY <1>0, <3>0
        <5>. QED  BY <1>10, <3>2, <3>3, <5>1 DEF ServeAsk
      <4>3. tally \in [Entries -> T]
        BY DEF TallyInv
      <4>. HIDE DEF T
      <4>. QED  BY <3>0, <4>1, <4>2, <4>3
    <3>5. /\ tally'[a.what].filled = tally[a.what].filled
          /\ \/ tally'[a.what].accepted = tally[a.what].accepted /\ tally'[a.what].unheard = tally[a.what].unheard
             \/ tally'[a.what].accepted = tally[a.what].accepted + 1 /\ tally'[a.what].unheard = u
      <4>1. r.filled = tally[a.what].filled /\ r.accepted = tally[a.what].accepted + 1 /\ r.unheard = u
        BY <1>0, <3>0, <3>3
      <4>. QED  BY <3>4, <4>1
    <3>6. ASSUME NEW x \in Entries
          PROVE  tally'[x].accepted + Cardinality(Pending(x)') + Unsent(x)'
                    <= tally'[x].filled + tally'[x].unheard
      <4>1. /\ tally[x].filled \in Nat /\ tally[x].accepted \in Nat /\ tally[x].unheard \in Nat
            /\ Cardinality(Pending(x)) \in Nat /\ Unsent(x) \in {0, 1}
            /\ tally[x].accepted + Cardinality(Pending(x)) + Unsent(x)
                   <= tally[x].filled + tally[x].unheard
        BY Account
      <4>2. CASE x = a.what
        <5>1. CASE answer = "ok"
          BY <3>1, <3>2, <3>4, <3>5, <4>1, <4>2, <5>1
        <5>2. CASE answer = "err"
          BY <3>1, <3>2, <3>4, <3>5, <4>1, <4>2, <5>2
        <5>. QED  BY <5>1, <5>2
      <4>3. CASE x # a.what
        BY <3>1, <3>4, <4>1, <4>3
      <4>. QED  BY <4>2, <4>3
    <3>. QED  BY <3>0, <3>4, <3>6 DEF TallyInv
  <2>. QED  BY <2>4, <2>5
<1>11. ASSUME NEW a \in asks, ListAnswer(a), UNCHANGED <<mount, tally>> PROVE TallyInv'
  <2>1. asks' = asks \ {a} /\ a.op = "list"
    BY <1>11 DEF ListAnswer
  <2>2. entry'.what = entry.what
    BY <1>0, <1>11 DEF ListAnswer
  <2>3. IsFiniteSet(asks')
    BY <1>0, <2>1, FS_Subset
  <2>. QED  BY <1>11, <2>1, <2>2, <2>3, Neutral
<1>12. ASSUME NEW a \in asks, EntryAnswer(a) \/ RowAnswer(a), a.stage \in {"ok", "err"}, UNCHANGED <<mount, tally>>
       PROVE  TallyInv'
  <2>1. PICK w : asks' \subseteq asks \cup Refresh(a.id, a.site, w) /\ asks \ {a} \subseteq asks'
    BY <1>12 DEF EntryAnswer, RowAnswer
  <2>2. IsFiniteSet(asks') /\ \A x \in asks' \ asks : x.op # "create"
    BY <1>b, <2>1
  <2>3. \/ entry'.what = 0
        \/ entry'.what = entry.what /\ (a.op # "create" \/ a.stage = "err" \/ ~OnScreen(a))
    BY <1>0, <1>12 DEF EntryAnswer, RowAnswer
  <2>. QED  BY <1>12, <2>1, <2>2, <2>3, Neutral
<1>. QED  BY <1>1, <1>2, <1>3, <1>4, <1>5, <1>6, <1>7, <1>9, <1>10, <1>11, <1>12
          DEF ListOperator, ListNetwork, AskAnswer

(* The form's requests are accounted for, always. *)
THEOREM FormInvariant == Spec => [](HolderInv /\ TallyInv)
<1>1. Init => HolderInv /\ TallyInv
  <2>. SUFFICES ASSUME Init PROVE HolderInv /\ TallyInv
    OBVIOUS
  <2>1. /\ asks = {} /\ entry = [what |-> 0, busy |-> FALSE]
        /\ tally = [e \in Entries |-> [filled |-> 0, accepted |-> 0, unheard |-> 0]]
    BY DEF Init
  <2>2. HolderInv
    BY <2>1 DEF HolderInv
  <2>3. ASSUME NEW e \in Entries
        PROVE  Cardinality(Pending(e)) = 0 /\ Unsent(e) = 0
    <3>1. Pending(e) = {}
      BY <2>1 DEF Pending
    <3>2. Unsent(e) = 0
      BY <2>1, AdminConsoleConstants DEF Unsent
    <3>. QED  BY <3>1, <3>2, FS_EmptySet
  <2>4. IsFiniteSet(asks)
    BY <2>1, FS_EmptySet
  <2>5. /\ tally \in [Entries -> [filled : Nat, accepted : Nat, unheard : Nat]]
        /\ \A e \in Entries : tally[e].filled = 0 /\ tally[e].accepted = 0 /\ tally[e].unheard = 0
    BY <2>1
  <2>6. TallyInv
    BY <2>3, <2>4, <2>5 DEF TallyInv
  <2>. QED  BY <2>2, <2>6
<1>2. ListInv /\ StoreInv /\ (HolderInv /\ TallyInv) /\ [Next]_vars => (HolderInv /\ TallyInv)'
  <2>. SUFFICES ASSUME ListInv, StoreInv, HolderInv, TallyInv, [Next]_vars PROVE HolderInv' /\ TallyInv'
    OBVIOUS
  <2>0. ops \in Nat
    BY DEF StoreInv, ScreenInv
  <2>1. CASE (AtSites \/ Network) /\ UNCHANGED listVars
    BY <2>1, SameTab, SameLists
  <2>2. CASE ListOperator \/ ListNetwork
    BY <2>0, <2>2, HeldSteps, TallySteps
  <2>3. CASE UNCHANGED vars
    BY <2>3, SameLists DEF vars, tabVars
  <2>. QED  BY <2>1, <2>2, <2>3 DEF Next, AtSites
<1>. QED  BY <1>1, <1>2, StoreInvariant, ListInvariant, PTL DEF Spec

(* A form filled in once makes one goal. *)
THEOREM GoalsCreatedOnce == Spec => []CreatedOnce
<1>1. TallyInv => CreatedOnce
  <2>. SUFFICES ASSUME TallyInv, NEW e \in Entries
                PROVE  tally[e].accepted <= tally[e].filled + tally[e].unheard
    BY DEF CreatedOnce
  <2>1. /\ tally[e].filled \in Nat /\ tally[e].accepted \in Nat /\ tally[e].unheard \in Nat
        /\ Cardinality(Pending(e)) \in Nat /\ Unsent(e) \in {0, 1}
        /\ tally[e].accepted + Cardinality(Pending(e)) + Unsent(e)
               <= tally[e].filled + tally[e].unheard
    BY Account
  <2>. QED  BY <2>1
<1>. QED  BY <1>1, FormInvariant, PTL

---------------------------------------------------------------------------
(* The modal and the new-site form.                                        *)

(* What holds an instance of the modal, and the form of a mount: requests  *)
(* sent and lists read after them.                                         *)
Saves(i) == {c \in calls : c.who = "modal" /\ c.modal = i}
Closes(i) == {l \in lists : l.then = "close" /\ l.modal = i}
Creations(m) == {c \in calls : c.who = "form" /\ c.mount = m}
Frees(m) == {l \in lists : l.then = "form" /\ l.mount = m}

HeldScreen ==
    /\ modal # NoModal => HeldBy(modal.saving, Saves(modal.id) \cup Closes(modal.id))
    /\ HeldBy(form.busy, Creations(mount) \cup Frees(mount))

(* Requests, lists and modals are told apart by their numbers, and what    *)
(* holds the modal was sent from the mount the modal is on.                *)
Numbered ==
    /\ mount \in Nat
    /\ \A c \in calls : c.id <= ops /\ c.mount \in Nat /\ c.mount <= mount
    /\ \A c \in calls : c.who = "modal" => c.modal \in Nat /\ c.modal <= ops
    /\ \A l \in lists : l.id <= ops /\ l.mount \in Nat /\ l.mount <= mount
    /\ \A l \in lists : l.then = "close" => l.modal \in Nat /\ l.modal <= ops
    /\ modal # NoModal => modal.id <= ops

Unique ==
    /\ \A c, d \in calls : c.id = d.id => c = d
    /\ \A l, k \in lists : l.id = k.id => l = k
    /\ \A c \in calls, l \in lists : c.id # l.id

Apart ==
    /\ \A c \in calls : c.who = "modal" => /\ \A d \in calls : c.modal # d.id
                                           /\ \A l \in lists : c.modal # l.id
    /\ \A k \in lists : k.then = "close" => /\ \A d \in calls : k.modal # d.id
                                            /\ \A l \in lists : k.modal # l.id
    /\ modal # NoModal => /\ \A d \in calls : modal.id # d.id
                          /\ \A l \in lists : modal.id # l.id

OnMount ==
    modal # NoModal => /\ \A c \in Saves(modal.id) : c.mount = mount
                       /\ \A l \in Closes(modal.id) : l.mount = mount

IdInv == Numbered /\ Unique /\ Apart /\ OnMount

(* The numbers are numbers. *)
LEMMA Numbers ==
  ASSUME StoreInv
  PROVE  /\ ops \in Nat /\ \A c \in calls : c.id \in Nat
         /\ \A l \in lists : l.id \in Nat
         /\ modal # NoModal => modal.id \in Nat
  BY ModalFields DEF StoreInv, TableInv, ScreenInv, CallOK, ListOK

(* A request put in the place of the only one that holds a form.           *)
LEMMA Exchanged ==
  ASSUME NEW A, NEW B, NEW x \in A \cup B, NEW y, \E r \in A \cup B : A \cup B = {r}
  PROVE  /\ ((A \cup B) \ {x}) \cup {y} = {y}
         /\ (A \cup B) \ {x} = {}
<1>1. A \cup B = {x}
  OBVIOUS
<1>. QED  BY <1>1

(* Requests that move on, and lists that are read or fail, keep what tells *)
(* them apart.                                                             *)
LEMMA SameIds ==
  ASSUME IdInv, ops \in Nat, ops' \in Nat, ops <= ops', mount' = mount, StoreInv,
         \A x \in calls' : \E y \in calls : x.id = y.id /\ x.who = y.who /\ x.modal = y.modal /\ x.mount = y.mount,
         \A x \in lists' : \E y \in lists : x.id = y.id /\ x.then = y.then /\ x.modal = y.modal /\ x.mount = y.mount,
         \A x, y \in calls' : x.id = y.id => x = y,
         \A x, y \in lists' : x.id = y.id => x = y,
         modal' = NoModal \/ (modal # NoModal /\ modal'.id = modal.id)
  PROVE  IdInv'
<1>0. /\ \A c \in calls : c.id \in Nat
      /\ \A l \in lists : l.id \in Nat
      /\ modal # NoModal => modal.id \in Nat
  BY Numbers
<1>1. Numbered'
  <2>1. \A n \in Nat : n <= ops => n <= ops'
    OBVIOUS
  <2>2. /\ \A c \in calls' : c.id <= ops' /\ c.mount \in Nat /\ c.mount <= mount'
        /\ \A c \in calls' : c.who = "modal" => c.modal \in Nat /\ c.modal <= ops'
    BY <1>0, <2>1 DEF IdInv, Numbered
  <2>3. /\ \A l \in lists' : l.id <= ops' /\ l.mount \in Nat /\ l.mount <= mount'
        /\ \A l \in lists' : l.then = "close" => l.modal \in Nat /\ l.modal <= ops'
    BY <1>0, <2>1 DEF IdInv, Numbered
  <2>4. mount' \in Nat /\ (modal' # NoModal => modal'.id <= ops')
    BY <1>0, <2>1 DEF IdInv, Numbered
  <2>. QED  BY <2>2, <2>3, <2>4 DEF Numbered
<1>2. Unique'
  <2>1. \A x \in calls', y \in lists' : x.id # y.id
    BY DEF IdInv, Unique
  <2>. QED  BY <2>1 DEF Unique
<1>3. Apart'
  <2>1. ASSUME NEW x \in calls', x.who = "modal"
        PROVE  (\A y \in calls' : x.modal # y.id) /\ (\A y \in lists' : x.modal # y.id)
    BY <2>1 DEF IdInv, Apart
  <2>2. ASSUME NEW x \in lists', x.then = "close"
        PROVE  (\A y \in calls' : x.modal # y.id) /\ (\A y \in lists' : x.modal # y.id)
    BY <2>2 DEF IdInv, Apart
  <2>3. modal' # NoModal => /\ \A x \in calls' : modal'.id # x.id
                            /\ \A x \in lists' : modal'.id # x.id
    BY DEF IdInv, Apart
  <2>. QED  BY <2>1, <2>2, <2>3 DEF Apart
<1>4. OnMount'
  <2>1. ASSUME modal' # NoModal, NEW x \in calls', x.who = "modal", x.modal = modal'.id PROVE x.mount = mount'
    BY <2>1 DEF IdInv, OnMount, Saves
  <2>2. ASSUME modal' # NoModal, NEW x \in lists', x.then = "close", x.modal = modal'.id PROVE x.mount = mount'
    BY <2>2 DEF IdInv, OnMount, Closes
  <2>. QED  BY <2>1, <2>2 DEF OnMount, Saves, Closes
<1>. QED  BY <1>1, <1>2, <1>3, <1>4 DEF IdInv

(* A step that sends a request. *)
LEMMA NewCallIds ==
  ASSUME StoreInv, IdInv, NEW d, calls' = calls \cup {d}, lists' = lists, mount' = mount,
         ops' = ops + 1, d.id = ops', d.mount \in {0, mount},
         d.who = "modal" => modal # NoModal /\ d.modal = modal.id /\ d.mount = mount,
         modal' = NoModal \/ (modal # NoModal /\ modal'.id = modal.id)
  PROVE  IdInv'
<1>0. /\ ops \in Nat /\ mount \in Nat /\ \A c \in calls : c.id \in Nat
      /\ \A l \in lists : l.id \in Nat
      /\ modal # NoModal => modal.id \in Nat
  BY Numbers DEF IdInv, Numbered
<1>1. /\ \A c \in calls : c.id # d.id /\ (c.who = "modal" => c.modal # d.id)
      /\ \A l \in lists : l.id # d.id /\ (l.then = "close" => l.modal # d.id)
      /\ modal # NoModal => modal.id # d.id
  BY <1>0 DEF IdInv, Numbered
<1>2. Numbered'
  <2>1. \A n \in Nat : n <= ops => n <= ops'
    BY <1>0
  <2>2. d.id <= ops' /\ d.mount \in Nat /\ d.mount <= mount
    BY <1>0
  <2>3. d.who = "modal" => d.modal \in Nat /\ d.modal <= ops'
    BY <1>0, <2>1 DEF IdInv, Numbered
  <2>4. modal' # NoModal => modal'.id <= ops'
    BY <1>0, <2>1 DEF IdInv, Numbered
  <2>. QED  BY <1>0, <2>1, <2>2, <2>3, <2>4 DEF IdInv, Numbered
<1>3. Unique'
  BY <1>1 DEF IdInv, Unique
<1>4. Apart'
  <2>1. ASSUME NEW c \in calls', c.who = "modal"
        PROVE  (\A x \in calls' : c.modal # x.id) /\ (\A l \in lists' : c.modal # l.id)
    BY <1>1, <2>1 DEF IdInv, Apart
  <2>2. ASSUME NEW k \in lists', k.then = "close"
        PROVE  (\A x \in calls' : k.modal # x.id) /\ (\A l \in lists' : k.modal # l.id)
    BY <1>1, <2>2 DEF IdInv, Apart
  <2>3. modal' # NoModal => /\ \A x \in calls' : modal'.id # x.id
                            /\ \A l \in lists' : modal'.id # l.id
    BY <1>1 DEF IdInv, Apart
  <2>. QED  BY <2>1, <2>2, <2>3 DEF Apart
<1>5. OnMount'
  BY DEF IdInv, OnMount, Saves, Closes
<1>. QED  BY <1>2, <1>3, <1>4, <1>5 DEF IdInv

(* What a new request does to the holders. *)
LEMMA NewHolder ==
  ASSUME NEW d, calls' = calls \cup {d}, lists' = lists
  PROVE  /\ \A i : /\ Saves(i)' = IF d.who = "modal" /\ d.modal = i THEN Saves(i) \cup {d} ELSE Saves(i)
                   /\ Closes(i)' = Closes(i)
         /\ \A m : /\ Creations(m)' = IF d.who = "form" /\ d.mount = m THEN Creations(m) \cup {d} ELSE Creations(m)
                   /\ Frees(m)' = Frees(m)
  BY DEF Saves, Closes, Creations, Frees


(* The holders after a step, one by one. *)
LEMMA HeldAnew ==
  ASSUME NEW i, NEW m,
         modal' = NoModal \/ (modal'.id = i /\ HeldBy(modal'.saving, Saves(i)' \cup Closes(i)')),
         mount' = m, HeldBy(form'.busy, Creations(m)' \cup Frees(m)')
  PROVE  HeldScreen'
  BY DEF HeldScreen, Saves, Closes, Creations, Frees

(* A step that leaves what holds the modal and the form. *)
LEMMA HeldKept ==
  ASSUME HeldScreen, mount' = mount, UNCHANGED <<calls, lists>>, form'.busy = form.busy,
         \/ modal' = NoModal
         \/ modal # NoModal /\ modal'.id = modal.id /\ modal'.saving = modal.saving
  PROVE  HeldScreen'
<1>1. PICK i, m : i = modal.id /\ m = mount
  OBVIOUS
<1>2. /\ modal # NoModal => HeldBy(modal.saving, Saves(i) \cup Closes(i))
      /\ HeldBy(form.busy, Creations(m) \cup Frees(m))
  BY <1>1 DEF HeldScreen
<1>3. /\ Saves(i)' = Saves(i) /\ Closes(i)' = Closes(i)
      /\ Creations(m)' = Creations(m) /\ Frees(m)' = Frees(m)
  BY DEF Saves, Closes, Creations, Frees
<1>4. modal' = NoModal \/ (modal'.id = i /\ HeldBy(modal'.saving, Saves(i)' \cup Closes(i)'))
  BY <1>1, <1>2, <1>3
<1>5. HeldBy(form'.busy, Creations(m)' \cup Frees(m)')
  BY <1>2, <1>3
<1>. QED  BY <1>1, <1>4, <1>5, HeldAnew

(* A step that sends a request which holds neither. *)
LEMMA HeldBeside ==
  ASSUME HeldScreen, NEW d, calls' = calls \cup {d}, d.who \notin {"modal", "form"},
         UNCHANGED <<mount, lists, modal, form>>
  PROVE  HeldScreen'
<1>1. PICK i, m : i = modal.id /\ m = mount
  OBVIOUS
<1>2. /\ modal # NoModal => HeldBy(modal.saving, Saves(i) \cup Closes(i))
      /\ HeldBy(form.busy, Creations(m) \cup Frees(m))
  BY <1>1 DEF HeldScreen
<1>3. /\ Saves(i)' = Saves(i) /\ Closes(i)' = Closes(i)
      /\ Creations(m)' = Creations(m) /\ Frees(m)' = Frees(m)
  BY NewHolder
<1>4. modal' = NoModal \/ (modal'.id = i /\ HeldBy(modal'.saving, Saves(i)' \cup Closes(i)'))
  BY <1>1, <1>2, <1>3
<1>5. HeldBy(form'.busy, Creations(m)' \cup Frees(m)')
  BY <1>2, <1>3
<1>. QED  BY <1>1, <1>4, <1>5, HeldAnew

(* Nothing held the modal or the form, and a request sent does. *)
LEMMA HeldNow ==
  ASSUME NEW A, NEW B, A \cup B = {}, NEW d
  PROVE  HeldBy(TRUE, (A \cup {d}) \cup B)
<1>1. (A \cup {d}) \cup B = {d}
  OBVIOUS
<1>. QED  BY <1>1 DEF HeldBy

(* The steps at the sites, by the operator and by another admin. *)
LEMMA HeldSites ==
  ASSUME StoreInv, IdInv, HeldScreen, AtSites
  PROVE  IdInv' /\ HeldScreen'
<1>0. /\ ops \in Nat /\ (modal # NoModal => modal \in Modals) /\ mount \in Nat
      /\ DOMAIN form = {"new", "busy"}
  BY Numbers DEF StoreInv, ScreenInv, IdInv, Numbered
<1>1. ASSUME Act PROVE ops' = ops + 1 /\ ops' \in Nat /\ ops <= ops'
  BY <1>0, <1>1, Acted
<1>2. ASSUME Act, UNCHANGED <<mount, calls, lists>>, form'.busy = form.busy,
             \/ modal' = NoModal
             \/ modal # NoModal /\ modal'.id = modal.id /\ modal'.saving = modal.saving
      PROVE  IdInv' /\ HeldScreen'
  <2>1. IdInv'
    BY <1>0, <1>1, <1>2, SameIds DEF IdInv, Unique
  <2>2. HeldScreen'
    BY <1>2, HeldKept
  <2>. QED  BY <2>1, <2>2
<1>3. ASSUME NEW d, Draft(d) PROVE IdInv' /\ HeldScreen'
  <2>1. modal # NoModal /\ modal' = [modal EXCEPT !.draft = d] /\ UNCHANGED <<mount, calls, lists, form>> /\ Act
    BY <1>3 DEF Draft, serverVars
  <2>2. modal'.id = modal.id /\ modal'.saving = modal.saving
    BY <1>0, <2>1, ModalSaving
  <2>. QED  BY <1>2, <2>1, <2>2
<1>4. ASSUME NEW q, AddressRows(q), modal # NoModal PROVE IdInv' /\ HeldScreen'
  <2>1. modal' = [modal EXCEPT !.hosts = q] /\ UNCHANGED <<mount, calls, lists, form>> /\ Act
    BY <1>4 DEF AddressRows, serverVars
  <2>2. modal'.id = modal.id /\ modal'.saving = modal.saving
    BY <1>0, <1>4, <2>1, ModalSaving
  <2>. QED  BY <1>2, <1>4, <2>1, <2>2
<1>5. CASE onClose
  BY <1>2, <1>5 DEF onClose, serverVars
<1>6. ASSUME NEW s, FillSite(s) PROVE IdInv' /\ HeldScreen'
  <2>1. form' = [form EXCEPT !.new = s] /\ modal = NoModal /\ UNCHANGED <<mount, calls, lists, modal>> /\ Act
    BY <1>6 DEF FillSite, serverVars
  <2>2. form'.busy = form.busy
    BY <1>0, <2>1
  <2>. QED  BY <1>2, <2>1, <2>2
<1>7. ASSUME NEW k \in DOMAIN rows, Configure(k) PROVE IdInv' /\ HeldScreen'
  <2>1. PICK s, r : /\ modal = NoModal /\ modal' = MountModal(ops', s, r) /\ Act
                    /\ UNCHANGED <<mount, calls, lists, form>>
    BY <1>7 DEF Configure, serverVars
  <2>2. modal'.id = ops' /\ modal'.saving = FALSE
    BY <2>1 DEF MountModal
  <2>4. ops' = ops + 1
    BY <1>1, <2>1
  <2>5. /\ \A c \in calls : c.id \in Nat /\ c.id <= ops
        /\ \A c \in calls : c.who = "modal" => c.modal \in Nat /\ c.modal <= ops
        /\ \A l \in lists : l.id \in Nat /\ l.id <= ops
        /\ \A l \in lists : l.then = "close" => l.modal \in Nat /\ l.modal <= ops
    BY Numbers DEF IdInv, Numbered
  <2>6. /\ \A c \in calls : c.id <= ops' /\ c.id # ops'
        /\ \A c \in calls : c.who = "modal" => c.modal <= ops' /\ c.modal # ops'
        /\ \A l \in lists : l.id <= ops' /\ l.id # ops'
        /\ \A l \in lists : l.then = "close" => l.modal <= ops' /\ l.modal # ops'
    BY <1>0, <2>4, <2>5
  <2>7. ops' <= ops'
    BY <1>0, <2>4
  <2>8. Numbered' /\ Unique' /\ Apart'
    BY <2>1, <2>2, <2>6, <2>7 DEF IdInv, Numbered, Unique, Apart
  <2>9. PICK i, m : i = ops' /\ m = mount
    OBVIOUS
  <2>10. Saves(i)' = {} /\ Closes(i)' = {}
    BY <2>1, <2>6, <2>9 DEF Saves, Closes
  <2>11. OnMount'
    BY <2>2, <2>9, <2>10 DEF OnMount, Saves, Closes
  <2>12. HeldBy(form'.busy, Creations(m)' \cup Frees(m)')
    BY <2>1, <2>9 DEF HeldScreen, Creations, Frees
  <2>13. HeldBy(modal'.saving, Saves(i)' \cup Closes(i)')
    BY <2>2, <2>10 DEF HeldBy
  <2>14. HeldScreen'
    BY <2>1, <2>2, <2>9, <2>12, <2>13, HeldAnew
  <2>. QED  BY <2>8, <2>11, <2>14 DEF IdInv
<1>8. ASSUME NEW who, NEW mdl, NEW mnt \in {0, mount}, NEW s, NEW p,
             calls' = calls \cup {Request(ops', who, mnt, mdl, s, p)},
             Act, lists' = lists, mount' = mount,
             who = "modal" => modal # NoModal /\ mdl = modal.id /\ mnt = mount,
             modal' = NoModal \/ (modal # NoModal /\ modal'.id = modal.id)
      PROVE  \E d : /\ IdInv' /\ calls' = calls \cup {d}
                    /\ d.who = who /\ d.modal = mdl /\ d.mount = mnt
  <2>1. PICK d : d = Request(ops', who, mnt, mdl, s, p)
    OBVIOUS
  <2>2. d.id = ops' /\ d.who = who /\ d.modal = mdl /\ d.mount = mnt
    BY <2>1 DEF Request
  <2>3. calls' = calls \cup {d}
    BY <1>8, <2>1
  <2>4. ops' = ops + 1
    BY <1>1, <1>8
  <2>5. IdInv'
    BY <1>8, <2>2, <2>3, <2>4, NewCallIds
  <2>. QED  BY <2>2, <2>3, <2>5
<1>9. CASE onSave
  <2>1. PICK p : /\ calls' = calls \cup {Request(ops', "modal", mount, modal.id, modal.site, p)}
                 /\ modal # NoModal /\ modal' = [modal EXCEPT !.saving = TRUE, !.err = FALSE]
                 /\ Act /\ UNCHANGED <<mount, lists, form>> /\ ~modal.saving
    BY <1>9 DEF onSave
  <2>2. modal'.id = modal.id /\ modal' \in Modals
    BY <1>0, <2>1, ModalFields
  <2>3. modal'.saving = TRUE
    BY <1>0, <2>1 DEF Modals
  <2>4. PICK i, m : i = modal.id /\ m = mount
    OBVIOUS
  <2>5. PICK d : IdInv' /\ calls' = calls \cup {d} /\ d.who = "modal" /\ d.modal = i
    <3>1. PICK d : d = Request(ops', "modal", mount, modal.id, modal.site, p)
      OBVIOUS
    <3>2. d.id = ops' /\ d.who = "modal" /\ d.modal = modal.id /\ d.mount = mount
      BY <3>1 DEF Request
    <3>3. calls' = calls \cup {d} /\ ops' = ops + 1 /\ lists' = lists /\ mount' = mount /\ modal # NoModal
      BY <1>1, <2>1, <3>1
    <3>4. d.mount \in {0, mount}
      BY <3>2
    <3>5. modal # NoModal /\ modal'.id = modal.id
      BY <2>1, <2>2
    <3>6. IdInv'
      BY <3>2, <3>3, <3>4, <3>5, NewCallIds
    <3>. QED  BY <2>4, <3>2, <3>3, <3>6
  <2>6. HeldBy(modal.saving, Saves(i) \cup Closes(i)) /\ HeldBy(form.busy, Creations(m) \cup Frees(m))
    BY <2>1, <2>4 DEF HeldScreen
  <2>7. /\ Saves(i)' = Saves(i) \cup {d} /\ Closes(i)' = Closes(i)
        /\ Creations(m)' = Creations(m) /\ Frees(m)' = Frees(m)
    BY <2>1, <2>5, NewHolder
  <2>8. HeldBy(modal'.saving, Saves(i)' \cup Closes(i)')
    <3>1. Saves(i) \cup Closes(i) = {}
      BY <2>1, <2>6 DEF HeldBy
    <3>3. HeldBy(TRUE, (Saves(i) \cup {d}) \cup Closes(i))
      BY <3>1, HeldNow
    <3>. QED  BY <2>3, <2>7, <3>3
  <2>9. HeldBy(form'.busy, Creations(m)' \cup Frees(m)')
    BY <2>1, <2>6, <2>7
  <2>10. HeldScreen'
    BY <2>1, <2>2, <2>4, <2>8, <2>9, HeldAnew
  <2>. QED  BY <2>5, <2>10
<1>10. ASSUME NEW k, onToggleEnabled(k) PROVE IdInv' /\ HeldScreen'
  <2>1. PICK s, p : /\ calls' = calls \cup {Request(ops', "button", mount, 0, s, p)}
                    /\ Act /\ modal = NoModal /\ UNCHANGED <<mount, lists, form, modal>>
    BY <1>10 DEF onToggleEnabled, tabVars
  <2>2. PICK d : IdInv' /\ calls' = calls \cup {d} /\ d.who = "button"
    BY <1>8, <2>1
  <2>. QED  BY <2>1, <2>2, HeldBeside
<1>11. CASE SubmitSite
  <2>1. PICK p : /\ calls' = calls \cup {Request(ops', "form", mount, 0, 0, p)}
                 /\ Act /\ modal = NoModal /\ UNCHANGED <<mount, lists, modal>>
                 /\ ~form.busy /\ form' = [form EXCEPT !.busy = TRUE]
    BY <1>11 DEF SubmitSite
  <2>2. form'.busy = TRUE
    BY <1>0, <2>1
  <2>3. PICK m : m = mount
    OBVIOUS
  <2>4. PICK d : IdInv' /\ calls' = calls \cup {d} /\ d.who = "form" /\ d.mount = m
    BY <1>8, <2>1, <2>3
  <2>5. HeldBy(form.busy, Creations(m) \cup Frees(m))
    BY <2>3 DEF HeldScreen
  <2>6. Creations(m)' = Creations(m) \cup {d} /\ Frees(m)' = Frees(m)
    BY <2>1, <2>4, NewHolder
  <2>7. HeldBy(form'.busy, Creations(m)' \cup Frees(m)')
    <3>1. Creations(m) \cup Frees(m) = {}
      BY <2>1, <2>5 DEF HeldBy
    <3>3. HeldBy(TRUE, (Creations(m) \cup {d}) \cup Frees(m))
      BY <3>1, HeldNow
    <3>. QED  BY <2>2, <2>6, <3>3
  <2>8. HeldScreen'
    BY <2>1, <2>3, <2>7, HeldAnew
  <2>. QED  BY <2>4, <2>8
<1>12. ASSUME NEW s, NEW p, OtherPatch(s, p) \/ OtherCreate(p) PROVE IdInv' /\ HeldScreen'
  <2>1. PICK n : /\ calls' = calls \cup {Request(ops', "other", 0, 0, n, p)}
                 /\ Act /\ UNCHANGED <<mount, lists, form, modal>>
    BY <1>12 DEF OtherPatch, OtherCreate, tabVars
  <2>2. PICK d : IdInv' /\ calls' = calls \cup {d} /\ d.who = "other"
    BY <1>8, <2>1
  <2>. QED  BY <2>1, <2>2, HeldBeside
<1>13. CASE AtModal
  BY <1>3, <1>4, <1>5, <1>9, <1>13
     DEF AtModal, ChangeField, onChangeJurisdiction, setOriginAt, removeOrigin, addOrigin
<1>14. CASE AtRows \/ Adding \/ OtherPatching
  BY <1>6, <1>7, <1>10, <1>11, <1>12, <1>14 DEF AtRows, Adding, OtherPatching
<1>. QED  BY <1>13, <1>14 DEF AtSites

(* A request moves on: the holders are the same, but for that one.         *)
LEMMA HeldOn ==
  ASSUME StoreInv, IdInv, HeldScreen, NEW c \in calls, NEW d, calls' = (calls \ {c}) \cup {d},
         d.id = c.id, d.who = c.who, d.modal = c.modal, d.mount = c.mount,
         UNCHANGED <<mount, ops, modal, lists, form>>
  PROVE  IdInv' /\ HeldScreen'
<1>0. ops \in Nat /\ ops' \in Nat /\ ops <= ops'
  BY Numbers
<1>1. IdInv'
  <2>1. ASSUME NEW x \in calls'
        PROVE  \E y \in calls : x.id = y.id /\ x.who = y.who /\ x.modal = y.modal /\ x.mount = y.mount
    OBVIOUS
  <2>2. ASSUME NEW x \in calls', NEW y \in calls', x.id = y.id PROVE x = y
    BY <2>2 DEF IdInv, Unique
  <2>3. \A x, y \in lists' : x.id = y.id => x = y
    BY DEF IdInv, Unique
  <2>4. \A x \in lists' : \E y \in lists : x.id = y.id /\ x.then = y.then /\ x.modal = y.modal /\ x.mount = y.mount
    OBVIOUS
  <2>. QED  BY <1>0, <2>1, <2>2, <2>3, <2>4, SameIds
<1>2. PICK i, m : i = modal.id /\ m = mount
  OBVIOUS
<1>3. /\ Saves(i)' = IF c \in Saves(i) THEN (Saves(i) \ {c}) \cup {d} ELSE Saves(i)
      /\ Creations(m)' = IF c \in Creations(m) THEN (Creations(m) \ {c}) \cup {d} ELSE Creations(m)
      /\ Closes(i)' = Closes(i) /\ Frees(m)' = Frees(m)
  BY DEF Saves, Creations, Closes, Frees
<1>4. c \notin Closes(i) /\ c \notin Frees(m)
  BY DEF IdInv, Unique, Closes, Frees
<1>5. modal' = NoModal \/ (modal'.id = i /\ HeldBy(modal'.saving, Saves(i)' \cup Closes(i)'))
  <2>. SUFFICES ASSUME modal # NoModal PROVE HeldBy(modal.saving, Saves(i)' \cup Closes(i)')
    BY <1>2
  <2>1. HeldBy(modal.saving, Saves(i) \cup Closes(i))
    BY <1>2 DEF HeldScreen
  <2>2. CASE c \in Saves(i)
    <3>0. c \in Saves(i) \cup Closes(i)
      BY <2>2
    <3>1. HeldBy(modal.saving, ((Saves(i) \cup Closes(i)) \ {c}) \cup {d})
      <4>1. modal.saving /\ \E r \in Saves(i) \cup Closes(i) : Saves(i) \cup Closes(i) = {r}
        BY <2>1, <3>0 DEF HeldBy
      <4>2. ((Saves(i) \cup Closes(i)) \ {c}) \cup {d} = {d}
        BY <3>0, <4>1, Exchanged
      <4>. QED  BY <4>1, <4>2 DEF HeldBy
    <3>2. ((Saves(i) \cup Closes(i)) \ {c}) \cup {d} = Saves(i)' \cup Closes(i)'
      BY <1>3, <1>4, <2>2
    <3>. QED  BY <3>1, <3>2
  <2>3. CASE c \notin Saves(i)
    BY <1>3, <2>1, <2>3
  <2>. QED  BY <2>2, <2>3
<1>6. HeldBy(form'.busy, Creations(m)' \cup Frees(m)')
  <2>1. HeldBy(form'.busy, Creations(m) \cup Frees(m))
    BY <1>2 DEF HeldScreen
  <2>2. CASE c \in Creations(m)
    <3>0. c \in Creations(m) \cup Frees(m)
      BY <2>2
    <3>1. HeldBy(form'.busy, ((Creations(m) \cup Frees(m)) \ {c}) \cup {d})
      <4>1. form'.busy /\ \E r \in Creations(m) \cup Frees(m) : Creations(m) \cup Frees(m) = {r}
        BY <2>1, <3>0 DEF HeldBy
      <4>2. ((Creations(m) \cup Frees(m)) \ {c}) \cup {d} = {d}
        BY <3>0, <4>1, Exchanged
      <4>. QED  BY <4>1, <4>2 DEF HeldBy
    <3>2. ((Creations(m) \cup Frees(m)) \ {c}) \cup {d} = Creations(m)' \cup Frees(m)'
      BY <1>3, <1>4, <2>2
    <3>. QED  BY <3>1, <3>2
  <2>3. CASE c \notin Creations(m)
    BY <1>3, <2>1, <2>3
  <2>. QED  BY <2>2, <2>3
<1>. QED  BY <1>1, <1>2, <1>5, <1>6, HeldAnew

(* A list is read or fails. *)
LEMMA HeldRead ==
  ASSUME StoreInv, IdInv, HeldScreen, NEW l \in lists, NEW k, lists' = (lists \ {l}) \cup {k},
         k.id = l.id, k.then = l.then, k.modal = l.modal, k.mount = l.mount,
         UNCHANGED <<mount, ops, modal, calls, form>>
  PROVE  IdInv' /\ HeldScreen'
<1>0. ops \in Nat /\ ops' \in Nat /\ ops <= ops'
  BY Numbers
<1>1. IdInv'
  <2>1. ASSUME NEW x \in lists'
        PROVE  \E y \in lists : x.id = y.id /\ x.then = y.then /\ x.modal = y.modal /\ x.mount = y.mount
    OBVIOUS
  <2>2. ASSUME NEW x \in lists', NEW y \in lists', x.id = y.id PROVE x = y
    BY <2>2 DEF IdInv, Unique
  <2>3. \A x, y \in calls' : x.id = y.id => x = y
    BY DEF IdInv, Unique
  <2>4. \A x \in calls' : \E y \in calls : x.id = y.id /\ x.who = y.who /\ x.modal = y.modal /\ x.mount = y.mount
    OBVIOUS
  <2>. QED  BY <1>0, <2>1, <2>2, <2>3, <2>4, SameIds
<1>2. PICK i, m : i = modal.id /\ m = mount
  OBVIOUS
<1>3. /\ Closes(i)' = IF l \in Closes(i) THEN (Closes(i) \ {l}) \cup {k} ELSE Closes(i)
      /\ Frees(m)' = IF l \in Frees(m) THEN (Frees(m) \ {l}) \cup {k} ELSE Frees(m)
      /\ Saves(i)' = Saves(i) /\ Creations(m)' = Creations(m)
  BY DEF Saves, Creations, Closes, Frees
<1>4. l \notin Saves(i) /\ l \notin Creations(m)
  BY DEF IdInv, Unique, Saves, Creations
<1>5. modal' = NoModal \/ (modal'.id = i /\ HeldBy(modal'.saving, Saves(i)' \cup Closes(i)'))
  <2>. SUFFICES ASSUME modal # NoModal PROVE HeldBy(modal.saving, Saves(i)' \cup Closes(i)')
    BY <1>2
  <2>1. HeldBy(modal.saving, Saves(i) \cup Closes(i))
    BY <1>2 DEF HeldScreen
  <2>2. CASE l \in Closes(i)
    <3>0. l \in Saves(i) \cup Closes(i)
      BY <2>2
    <3>1. HeldBy(modal.saving, ((Saves(i) \cup Closes(i)) \ {l}) \cup {k})
      <4>1. modal.saving /\ \E r \in Saves(i) \cup Closes(i) : Saves(i) \cup Closes(i) = {r}
        BY <2>1, <3>0 DEF HeldBy
      <4>2. ((Saves(i) \cup Closes(i)) \ {l}) \cup {k} = {k}
        BY <3>0, <4>1, Exchanged
      <4>. QED  BY <4>1, <4>2 DEF HeldBy
    <3>2. ((Saves(i) \cup Closes(i)) \ {l}) \cup {k} = Saves(i)' \cup Closes(i)'
      BY <1>3, <1>4, <2>2
    <3>. QED  BY <3>1, <3>2
  <2>3. CASE l \notin Closes(i)
    BY <1>3, <2>1, <2>3
  <2>. QED  BY <2>2, <2>3
<1>6. HeldBy(form'.busy, Creations(m)' \cup Frees(m)')
  <2>1. HeldBy(form'.busy, Creations(m) \cup Frees(m))
    BY <1>2 DEF HeldScreen
  <2>2. CASE l \in Frees(m)
    <3>0. l \in Creations(m) \cup Frees(m)
      BY <2>2
    <3>1. HeldBy(form'.busy, ((Creations(m) \cup Frees(m)) \ {l}) \cup {k})
      <4>1. form'.busy /\ \E r \in Creations(m) \cup Frees(m) : Creations(m) \cup Frees(m) = {r}
        BY <2>1, <3>0 DEF HeldBy
      <4>2. ((Creations(m) \cup Frees(m)) \ {l}) \cup {k} = {k}
        BY <3>0, <4>1, Exchanged
      <4>. QED  BY <4>1, <4>2 DEF HeldBy
    <3>2. ((Creations(m) \cup Frees(m)) \ {l}) \cup {k} = Creations(m)' \cup Frees(m)'
      BY <1>3, <1>4, <2>2
    <3>. QED  BY <3>1, <3>2
  <2>3. CASE l \notin Frees(m)
    BY <1>3, <2>1, <2>3
  <2>. QED  BY <2>2, <2>3
<1>. QED  BY <1>1, <1>2, <1>5, <1>6, HeldAnew

(* A request is answered: its number may go to the list read next.         *)
LEMMA AnsweredIds ==
  ASSUME StoreInv, IdInv, NEW c \in calls, calls' = calls \ {c}, NEW k,
         lists' = lists \/ lists' = lists \cup {k},
         k.id = c.id, k.mount = mount, k.then = "close" => c.who = "modal" /\ k.modal = c.modal,
         UNCHANGED <<mount, ops>>, modal' = modal \/ (modal # NoModal /\ modal'.id = modal.id)
  PROVE  IdInv'
<1>1. Numbered'
  BY Numbers DEF IdInv, Numbered
<1>2. Unique'
  <2>1. ASSUME NEW x \in lists', NEW y \in lists', x.id = y.id PROVE x = y
    BY <2>1 DEF IdInv, Unique
  <2>. QED  BY <2>1 DEF IdInv, Unique
<1>3. \A l \in lists' : l \in lists \/ l = k
  OBVIOUS
<1>4. Apart'
  <2>1. ASSUME NEW x \in calls', x.who = "modal"
        PROVE  (\A y \in calls' : x.modal # y.id) /\ (\A y \in lists' : x.modal # y.id)
    BY <1>3, <2>1 DEF IdInv, Apart
  <2>2. ASSUME NEW x \in lists', x.then = "close"
        PROVE  (\A y \in calls' : x.modal # y.id) /\ (\A y \in lists' : x.modal # y.id)
    BY <1>3, <2>2 DEF IdInv, Apart
  <2>3. modal' # NoModal => /\ \A x \in calls' : modal'.id # x.id
                            /\ \A x \in lists' : modal'.id # x.id
    BY <1>3 DEF IdInv, Apart
  <2>. QED  BY <2>1, <2>2, <2>3 DEF Apart
<1>5. OnMount'
  BY <1>3 DEF IdInv, OnMount, Saves, Closes
<1>. QED  BY <1>1, <1>2, <1>4, <1>5 DEF IdInv

(* An answer: the modal stays held by the list that is read next, or is    *)
(* free; so does the form; an answer to another request changes neither.   *)
LEMMA HeldAnswer ==
  ASSUME StoreInv, IdInv, HeldScreen, Answer
  PROVE  IdInv' /\ HeldScreen'
<1>0. /\ modal # NoModal => modal \in Modals
      /\ DOMAIN form = {"new", "busy"}
  BY DEF StoreInv, ScreenInv
<1>1. PICK c \in calls :
         /\ c.stage \in {"ok", "err"} /\ calls' = calls \ {c}
         /\ SaveAnswer(c) \/ ToggleAnswer(c) \/ CreateAnswer(c) \/ OtherAnswer(c)
         /\ UNCHANGED <<mount, ops>>
  BY DEF Answer, bounds
<1>2. PICK i, m : i = modal.id /\ m = mount
  OBVIOUS
<1>3. /\ Saves(i)' = Saves(i) \ {c} /\ Creations(m)' = Creations(m) \ {c}
      /\ c \notin Closes(i) /\ c \notin Frees(m)
  BY <1>1 DEF Saves, Creations, Closes, Frees, IdInv, Unique
<1>4. /\ modal # NoModal => HeldBy(modal.saving, Saves(i) \cup Closes(i))
      /\ HeldBy(form.busy, Creations(m) \cup Frees(m))
  BY <1>2 DEF HeldScreen
<1>5. \A w, v : /\ List(c.id, w, v).id = c.id /\ List(c.id, w, v).mount = mount
                /\ List(c.id, w, v).then = w /\ List(c.id, w, v).modal = v
  BY DEF List
<1>6. CASE SaveAnswer(c)
  <2>1. c.who = "modal" /\ UNCHANGED form /\ c \notin Creations(m)
    BY <1>6 DEF SaveAnswer, Creations
  <2>2. PICK k : k = List(c.id, "close", c.modal)
    OBVIOUS
  <2>3. k.id = c.id /\ k.mount = mount /\ k.then = "close" /\ k.modal = c.modal
    BY <1>5, <2>2
  <2>4. /\ lists' = IF c.stage = "ok" /\ Here(c) THEN lists \cup {k} ELSE lists
        /\ modal' = IF c.stage = "err" /\ Same(c)
                    THEN [modal EXCEPT !.saving = FALSE, !.err = TRUE] ELSE modal
    BY <1>6, <2>2 DEF SaveAnswer
  <2>5. Frees(m)' = Frees(m)
    BY <2>3, <2>4 DEF Frees
  <2>6. modal' = modal \/ (modal # NoModal /\ modal'.id = modal.id /\ modal'.saving = FALSE)
    <3>1. CASE c.stage = "err" /\ Same(c)
      <4>1. modal # NoModal /\ modal' = [modal EXCEPT !.saving = FALSE, !.err = TRUE]
        BY <2>4, <3>1 DEF Same
      <4>. QED  BY <1>0, <4>1 DEF Modals
    <3>. QED  BY <2>4, <3>1
  <2>7. IdInv'
    BY <1>1, <2>1, <2>3, <2>4, <2>6, AnsweredIds
  <2>8. HeldBy(form'.busy, Creations(m)' \cup Frees(m)')
    BY <1>3, <1>4, <2>1, <2>5
  <2>9. modal' = NoModal \/ (modal'.id = i /\ HeldBy(modal'.saving, Saves(i)' \cup Closes(i)'))
    <3>. SUFFICES ASSUME modal' # NoModal PROVE modal'.id = i /\ HeldBy(modal'.saving, Saves(i)' \cup Closes(i)')
      OBVIOUS
    <3>1. modal # NoModal /\ modal'.id = i
      BY <1>2, <2>6
    <3>2. CASE c \in Saves(i)
      <4>1. Here(c) /\ Same(c)
        BY <1>2, <3>1, <3>2 DEF IdInv, OnMount, Saves, Here, Same
      <4>2. /\ (Saves(i) \cup Closes(i)) \ {c} = {}
            /\ HeldBy(modal.saving, ((Saves(i) \cup Closes(i)) \ {c}) \cup {k})
        <5>1. HeldBy(modal.saving, Saves(i) \cup Closes(i)) /\ c \in Saves(i) \cup Closes(i)
          BY <1>4, <3>1, <3>2
        <5>2. modal.saving /\ \E r \in Saves(i) \cup Closes(i) : Saves(i) \cup Closes(i) = {r}
          BY <5>1 DEF HeldBy
        <5>3. /\ ((Saves(i) \cup Closes(i)) \ {c}) \cup {k} = {k}
              /\ (Saves(i) \cup Closes(i)) \ {c} = {}
          BY <5>1, <5>2, Exchanged
        <5>. QED  BY <5>2, <5>3 DEF HeldBy
      <4>3. CASE c.stage = "ok"
        <5>1. Closes(i)' = Closes(i) \cup {k} /\ modal' = modal
          BY <2>3, <2>4, <3>2, <4>1, <4>3 DEF Closes, Saves
        <5>2. ((Saves(i) \cup Closes(i)) \ {c}) \cup {k} = Saves(i)' \cup Closes(i)'
          BY <1>3, <5>1
        <5>. QED  BY <3>1, <4>2, <5>1, <5>2
      <4>4. CASE c.stage = "err"
        <5>1. Closes(i)' = Closes(i) /\ modal' = [modal EXCEPT !.saving = FALSE, !.err = TRUE]
          BY <2>4, <4>1, <4>4 DEF Closes
        <5>2. modal'.saving = FALSE
          BY <1>0, <3>1, <5>1 DEF Modals
        <5>3. Saves(i)' \cup Closes(i)' = {}
          BY <1>3, <4>2, <5>1
        <5>. QED  BY <3>1, <5>2, <5>3 DEF HeldBy
      <4>. QED  BY <1>1, <4>3, <4>4
    <3>3. CASE c \notin Saves(i)
      <4>1. c.modal # i
        BY <2>1, <3>3 DEF Saves
      <4>2. modal' = modal /\ Closes(i)' = Closes(i) /\ Saves(i)' = Saves(i)
        BY <1>2, <1>3, <2>3, <2>4, <3>3, <4>1 DEF Same, Closes
      <4>. QED  BY <1>4, <3>1, <4>2
    <3>. QED  BY <3>2, <3>3
  <2>. QED  BY <1>1, <1>2, <2>7, <2>8, <2>9, HeldAnew
<1>7. CASE CreateAnswer(c)
  <2>1. c.who = "form" /\ modal' = modal /\ c \notin Saves(i)
    BY <1>7 DEF CreateAnswer, Saves
  <2>2. PICK k : k = List(c.id, "form", 0)
    OBVIOUS
  <2>3. k.id = c.id /\ k.mount = mount /\ k.then = "form"
    BY <1>5, <2>2
  <2>4. /\ lists' = IF c.stage = "ok" /\ Here(c) THEN lists \cup {k} ELSE lists
        /\ form' = IF ~Here(c) THEN form
                   ELSE IF c.stage = "ok" THEN [form EXCEPT !.new = Blank]
                   ELSE [form EXCEPT !.busy = FALSE]
    BY <1>7, <2>2 DEF CreateAnswer
  <2>5. Closes(i)' = Closes(i)
    BY <2>3, <2>4 DEF Closes
  <2>7. IdInv'
    BY <1>1, <2>1, <2>3, <2>4, AnsweredIds
  <2>8. modal' = NoModal \/ (modal'.id = i /\ HeldBy(modal'.saving, Saves(i)' \cup Closes(i)'))
    BY <1>2, <1>3, <1>4, <2>1, <2>5
  <2>9. HeldBy(form'.busy, Creations(m)' \cup Frees(m)')
    <3>2. CASE Here(c)
      <4>1. c \in Creations(m)
        BY <1>2, <2>1, <3>2 DEF Creations, Here
      <4>2. /\ (Creations(m) \cup Frees(m)) \ {c} = {}
            /\ HeldBy(form.busy, ((Creations(m) \cup Frees(m)) \ {c}) \cup {k})
        <5>1. HeldBy(form.busy, Creations(m) \cup Frees(m)) /\ c \in Creations(m) \cup Frees(m)
          BY <1>4, <4>1
        <5>2. form.busy /\ \E r \in Creations(m) \cup Frees(m) : Creations(m) \cup Frees(m) = {r}
          BY <5>1 DEF HeldBy
        <5>3. /\ ((Creations(m) \cup Frees(m)) \ {c}) \cup {k} = {k}
              /\ (Creations(m) \cup Frees(m)) \ {c} = {}
          BY <5>1, <5>2, Exchanged
        <5>. QED  BY <5>2, <5>3 DEF HeldBy
      <4>3. CASE c.stage = "ok"
        <5>1. Frees(m)' = Frees(m) \cup {k} /\ form' = [form EXCEPT !.new = Blank]
          BY <1>2, <2>3, <2>4, <3>2, <4>3 DEF Frees
        <5>2. ((Creations(m) \cup Frees(m)) \ {c}) \cup {k} = Creations(m)' \cup Frees(m)'
          BY <1>3, <5>1
        <5>3. form'.busy = form.busy
          BY <1>0, <5>1
        <5>. QED  BY <4>2, <5>2, <5>3
      <4>4. CASE c.stage = "err"
        <5>1. Frees(m)' = Frees(m) /\ form' = [form EXCEPT !.busy = FALSE]
          BY <2>4, <3>2, <4>4 DEF Frees
        <5>2. form'.busy = FALSE
          BY <1>0, <5>1
        <5>3. Creations(m)' \cup Frees(m)' = {}
          BY <1>3, <4>2, <5>1
        <5>. QED  BY <5>2, <5>3 DEF HeldBy
      <4>. QED  BY <1>1, <4>3, <4>4
    <3>3. CASE ~Here(c)
      <4>1. form' = form /\ Frees(m)' = Frees(m) /\ Creations(m)' = Creations(m)
        BY <1>2, <1>3, <2>4, <3>3 DEF Here, Frees, Creations
      <4>. QED  BY <1>4, <4>1
    <3>. QED  BY <3>2, <3>3
  <2>. QED  BY <1>1, <1>2, <2>7, <2>8, <2>9, HeldAnew
<1>8. CASE ToggleAnswer(c) \/ OtherAnswer(c)
  <2>1. UNCHANGED <<modal, form>> /\ c \notin Saves(i) /\ c \notin Creations(m)
    BY <1>8 DEF ToggleAnswer, OtherAnswer, Saves, Creations
  <2>2. PICK k : k = List(c.id, "none", 0)
    OBVIOUS
  <2>3. k.id = c.id /\ k.mount = mount /\ k.then = "none"
    BY <1>5, <2>2
  <2>4. lists' = lists \/ lists' = lists \cup {k}
    BY <1>8, <2>2 DEF ToggleAnswer, OtherAnswer
  <2>5. Closes(i)' = Closes(i) /\ Frees(m)' = Frees(m)
    BY <2>3, <2>4 DEF Closes, Frees
  <2>7. IdInv'
    BY <1>1, <2>1, <2>3, <2>4, AnsweredIds
  <2>8. modal' = NoModal \/ (modal'.id = i /\ HeldBy(modal'.saving, Saves(i)' \cup Closes(i)'))
    BY <1>2, <1>3, <1>4, <2>1, <2>5
  <2>9. HeldBy(form'.busy, Creations(m)' \cup Frees(m)')
    BY <1>3, <1>4, <2>1, <2>5
  <2>. QED  BY <1>1, <1>2, <2>7, <2>8, <2>9, HeldAnew
<1>. QED  BY <1>1, <1>6, <1>7, <1>8

(* A list arrives: the modal whose save it follows is gone, a modal that   *)
(* comes back is a new one, which nothing holds, and the form is free if   *)
(* the list was its own.                                                   *)
LEMMA HeldListed ==
  ASSUME StoreInv, IdInv, HeldScreen, Listed
  PROVE  IdInv' /\ HeldScreen'
<1>0. /\ ops \in Nat /\ ops <= ops
      /\ DOMAIN form = {"new", "busy"}
  BY Numbers DEF StoreInv, ScreenInv
<1>1. PICK l \in lists :
         /\ lists' = lists \ {l}
         /\ configuring' = IF l.then = "close" /\ Here(l) THEN 0 ELSE configuring
         /\ modal' = Shown(l.id, configuring', rows')
         /\ form' = IF l.then = "form" /\ Here(l) THEN [form EXCEPT !.busy = FALSE] ELSE form
         /\ UNCHANGED <<calls, ops, mount>>
  BY DEF Listed, bounds, serverVars
<1>2. PICK m : m = mount
  OBVIOUS
<1>3. Creations(m)' = Creations(m) /\ Frees(m)' = Frees(m) \ {l}
  BY <1>1 DEF Creations, Frees
<1>4. HeldBy(form'.busy, Creations(m)' \cup Frees(m)')
  <2>1. HeldBy(form.busy, Creations(m) \cup Frees(m))
    BY <1>2 DEF HeldScreen
  <2>2. CASE l \in Frees(m)
    <3>1. form' = [form EXCEPT !.busy = FALSE]
      BY <1>1, <1>2, <2>2 DEF Frees, Here
    <3>2. form'.busy = FALSE
      BY <1>0, <3>1
    <3>3. Creations(m) \cup Frees(m) = {l}
      BY <2>1, <2>2 DEF HeldBy
    <3>4. l \notin Creations(m)
      BY <1>1 DEF IdInv, Unique, Creations
    <3>5. Creations(m)' \cup Frees(m)' = {}
      BY <1>3, <3>3, <3>4
    <3>. QED  BY <3>2, <3>5 DEF HeldBy
  <2>3. CASE l \notin Frees(m)
    <3>1. form' = form
      BY <1>1, <1>2, <2>3 DEF Frees, Here
    <3>2. Creations(m)' = Creations(m) /\ Frees(m)' = Frees(m)
      BY <1>3, <2>3
    <3>. QED  BY <2>1, <3>1, <3>2
  <2>. QED  BY <2>2, <2>3
<1>5. \/ modal' = NoModal
      \/ modal # NoModal /\ modal' = modal /\ l \notin Closes(modal.id)
      \/ modal = NoModal /\ modal' # NoModal /\ modal'.id = l.id /\ modal'.saving = FALSE
  <2>1. SUFFICES ASSUME modal' # NoModal
        PROVE  \/ modal # NoModal /\ modal' = modal /\ l \notin Closes(modal.id)
               \/ modal = NoModal /\ modal' # NoModal /\ modal'.id = l.id /\ modal'.saving = FALSE
    OBVIOUS
  <2>2. CASE modal # NoModal
    <3>1. modal' = modal /\ configuring' # 0
      BY <1>1, <2>1, <2>2 DEF Shown
    <3>2. ~(l.then = "close" /\ Here(l))
      BY <1>1, <3>1
    <3>3. l \notin Closes(modal.id)
      BY <2>2, <3>2 DEF IdInv, OnMount, Closes, Here
    <3>. QED  BY <2>2, <3>1, <3>3
  <2>3. CASE modal = NoModal
    <3>1. modal' = MountModal(l.id, configuring', Found(rows', configuring'))
      BY <1>1, <2>1, <2>3 DEF Shown
    <3>. QED  BY <2>1, <2>3, <3>1 DEF MountModal
  <2>. QED  BY <2>2, <2>3
<1>6. CASE modal' = NoModal \/ (modal # NoModal /\ modal' = modal /\ l \notin Closes(modal.id))
  <2>1. /\ \A x \in calls' : \E y \in calls : x.id = y.id /\ x.who = y.who /\ x.modal = y.modal /\ x.mount = y.mount
        /\ \A x \in lists' : \E y \in lists : x.id = y.id /\ x.then = y.then /\ x.modal = y.modal /\ x.mount = y.mount
    BY <1>1
  <2>2. /\ \A x, y \in calls' : x.id = y.id => x = y
        /\ \A x, y \in lists' : x.id = y.id => x = y
    BY <1>1 DEF IdInv, Unique
  <2>3. modal' = NoModal \/ (modal # NoModal /\ modal'.id = modal.id)
    BY <1>6
  <2>4. IdInv'
    BY <1>0, <1>1, <2>1, <2>2, <2>3, SameIds
  <2>5. PICK i : i = modal.id
    OBVIOUS
  <2>6. Saves(i)' = Saves(i) /\ Closes(i)' = Closes(i) \ {l}
    BY <1>1 DEF Saves, Closes
  <2>7. modal' = NoModal \/ (modal'.id = i /\ HeldBy(modal'.saving, Saves(i)' \cup Closes(i)'))
    <3>1. ASSUME modal # NoModal, modal' = modal, l \notin Closes(modal.id)
          PROVE  modal'.id = i /\ HeldBy(modal'.saving, Saves(i)' \cup Closes(i)')
      <4>1. HeldBy(modal.saving, Saves(i) \cup Closes(i))
        BY <2>5, <3>1 DEF HeldScreen
      <4>2. Saves(i)' = Saves(i) /\ Closes(i)' = Closes(i)
        BY <2>5, <2>6, <3>1
      <4>. QED  BY <2>5, <3>1, <4>1, <4>2
    <3>. QED  BY <1>6, <3>1
  <2>. QED  BY <1>1, <1>2, <1>4, <2>4, <2>7, HeldAnew
<1>7. CASE modal = NoModal /\ modal' # NoModal /\ modal'.id = l.id /\ modal'.saving = FALSE
  <2>1. PICK i : i = l.id
    OBVIOUS
  <2>2. Saves(i)' = {} /\ Closes(i)' = {}
    BY <1>1, <2>1 DEF IdInv, Apart, Saves, Closes
  <2>3. Numbered' /\ Unique' /\ Apart'
    BY <1>1, <1>7 DEF IdInv, Numbered, Unique, Apart
  <2>4. OnMount'
    BY <1>7, <2>1, <2>2 DEF OnMount, Saves, Closes
  <2>5. HeldBy(modal'.saving, Saves(i)' \cup Closes(i)')
    BY <1>7, <2>2 DEF HeldBy
  <2>6. HeldScreen'
    BY <1>1, <1>2, <1>4, <1>7, <2>1, <2>5, HeldAnew
  <2>. QED  BY <2>3, <2>4, <2>6 DEF IdInv
<1>. QED  BY <1>5, <1>6, <1>7

(* A request moves on at the server, or fails. *)
LEMMA HeldServed ==
  ASSUME StoreInv, IdInv, HeldScreen, NEW c \in calls,
         UNCHANGED <<mount, ops, modal, lists, form>>,
         \/ PatchLookup(c) \/ CheckOrigins(c) \/ WritePolicy(c)
         \/ WriteAttributes(c) \/ WriteEnabled(c) \/ CreateSite(c) \/ Fail(c)
  PROVE  IdInv' /\ HeldScreen'
<1>1. DOMAIN c = CallFields
  BY DEF StoreInv, TableInv, CallOK
<1>2. ASSUME NEW d, calls' = (calls \ {c}) \cup {d},
             d.id = c.id, d.who = c.who, d.modal = c.modal, d.mount = c.mount
      PROVE  IdInv' /\ HeldScreen'
  BY <1>2, HeldOn
<1>3. ASSUME NEW s, Advance(c, s) PROVE IdInv' /\ HeldScreen'
  <2>1. PICK d : d = [c EXCEPT !.stage = s]
    OBVIOUS
  <2>2. d.id = c.id /\ d.who = c.who /\ d.modal = c.modal /\ d.mount = c.mount
    BY <1>1, <2>1 DEF CallFields
  <2>. QED  BY <1>2, <1>3, <2>1, <2>2 DEF Advance
<1>4. CASE PatchLookup(c)
  <2>1. ASSUME NEW row, NEW s, calls' = (calls \ {c}) \cup {[c EXCEPT !.row = row, !.stage = s]}
        PROVE  IdInv' /\ HeldScreen'
    <3>1. PICK d : d = [c EXCEPT !.row = row, !.stage = s]
      OBVIOUS
    <3>2. d.id = c.id /\ d.who = c.who /\ d.modal = c.modal /\ d.mount = c.mount
      BY <1>1, <3>1 DEF CallFields
    <3>. QED  BY <1>2, <2>1, <3>1, <3>2
  <2>. QED  BY <1>3, <1>4, <2>1 DEF PatchLookup
<1>5. CASE NumberSite(c)
  <2>1. PICK n : calls' = (calls \ {c}) \cup {[c EXCEPT !.site = n, !.stage = "insert"]}
    BY <1>5 DEF NumberSite
  <2>2. PICK d : d = [c EXCEPT !.site = n, !.stage = "insert"]
    OBVIOUS
  <2>3. d.id = c.id /\ d.who = c.who /\ d.modal = c.modal /\ d.mount = c.mount
    BY <1>1, <2>2 DEF CallFields
  <2>. QED  BY <1>2, <2>1, <2>2, <2>3
<1>6. CASE CheckOrigins(c)
  BY <1>3, <1>6 DEF CheckOrigins
<1>7. CASE WritePolicy(c) \/ WriteAttributes(c) \/ WriteEnabled(c)
  BY <1>3, <1>7 DEF WritePolicy, WriteAttributes, WriteEnabled
<1>8. CASE LookupHost(c) \/ ResolveSlug(c)
  BY <1>3, <1>8 DEF LookupHost, ResolveSlug
<1>9. CASE InsertSite(c) \/ Fail(c)
  BY <1>3, <1>9 DEF InsertSite, Fail
<1>. QED  BY <1>4, <1>5, <1>6, <1>7, <1>8, <1>9 DEF CreateSite

(* The steps of the server and of the answers. *)
LEMMA HeldNetwork ==
  ASSUME StoreInv, IdInv, HeldScreen, Network
  PROVE  IdInv' /\ HeldScreen'
<1>1. CASE ServeCall /\ UNCHANGED <<tabVars, bounds>>
  <2>1. UNCHANGED <<mount, ops, modal, lists, form>>
    BY <1>1 DEF tabVars, bounds
  <2>. QED  BY <1>1, <2>1, HeldServed DEF ServeCall
<1>2. ASSUME NEW c \in calls, Fault, Fail(c), UNCHANGED tabVars PROVE IdInv' /\ HeldScreen'
  <2>1. UNCHANGED <<mount, ops, modal, lists, form>>
    BY <1>2 DEF tabVars, Fault
  <2>. QED  BY <1>2, <2>1, HeldServed
<1>3. ASSUME NEW l \in lists, ServeList(l) \/ FailList(l) PROVE IdInv' /\ HeldScreen'
  <2>1. UNCHANGED <<mount, ops, modal, calls, form>>
    BY <1>3 DEF ServeList, FailList, Fault, bounds, serverVars
  <2>2. PICK s, snap : lists' = (lists \ {l}) \cup {[l EXCEPT !.stage = s, !.snap = snap]}
    BY <1>3 DEF ServeList, FailList
  <2>3. PICK k : k = [l EXCEPT !.stage = s, !.snap = snap]
    OBVIOUS
  <2>4. DOMAIN l = ListFields
    BY DEF StoreInv, ScreenInv, ListOK
  <2>5. k.id = l.id /\ k.then = l.then /\ k.modal = l.modal /\ k.mount = l.mount
    BY <2>3, <2>4 DEF ListFields
  <2>. QED  BY <2>1, <2>2, <2>3, <2>5, HeldRead
<1>4. CASE Answer
  BY <1>4, HeldAnswer
<1>5. CASE Listed
  BY <1>5, HeldListed
<1>. QED  BY <1>1, <1>2, <1>3, <1>4, <1>5 DEF Network

(* The steps at the other tabs: switching tabs leaves nothing that was     *)
(* held, the others leave the Sites tab as it is.                          *)
LEMMA HeldLists ==
  ASSUME StoreInv, IdInv, HeldScreen, ListOperator \/ ListNetwork
  PROVE  IdInv' /\ HeldScreen'
<1>0. ops \in Nat /\ mount \in Nat
  BY Numbers DEF IdInv, Numbered
<1>1. ASSUME NEW t, OpenTab(t) PROVE IdInv' /\ HeldScreen'
  <2>1. ops' = ops + 1 /\ mount' = mount + 1 /\ modal' = NoModal /\ form' = NewForm /\ calls' = calls
    BY <1>0, <1>1, Acted DEF OpenTab, serverVars
  <2>2. PICK d : d = [List(ops', "none", 0) EXCEPT !.mount = mount']
    OBVIOUS
  <2>3. lists' \subseteq lists \cup {d} /\ d.id = ops' /\ d.then = "none" /\ d.mount = mount'
    BY <1>1, <2>2 DEF OpenTab, List
  <2>4. /\ \A c \in calls : c.id \in Nat /\ c.id <= ops /\ c.mount \in Nat /\ c.mount <= mount
        /\ \A c \in calls : c.who = "modal" => c.modal \in Nat /\ c.modal <= ops
        /\ \A l \in lists : l.id \in Nat /\ l.id <= ops /\ l.mount \in Nat /\ l.mount <= mount
        /\ \A l \in lists : l.then = "close" => l.modal \in Nat /\ l.modal <= ops
    BY Numbers DEF IdInv, Numbered
  <2>5. /\ \A c \in calls : c.id <= ops' /\ c.id # ops' /\ c.mount <= mount' /\ c.mount # mount'
        /\ \A c \in calls : c.who = "modal" => c.modal <= ops' /\ c.modal # ops'
        /\ \A l \in lists : l.id <= ops' /\ l.id # ops' /\ l.mount <= mount' /\ l.mount # mount'
        /\ \A l \in lists : l.then = "close" => l.modal <= ops' /\ l.modal # ops'
    BY <1>0, <2>1, <2>4
  <2>6. ops' <= ops' /\ mount' \in Nat /\ mount' <= mount'
    BY <1>0, <2>1
  <2>7. \A l \in lists' : l \in lists \/ l = d
    BY <2>3
  <2>8. Numbered'
    BY <2>1, <2>3, <2>4, <2>5, <2>6, <2>7 DEF Numbered
  <2>9. Unique'
    <3>1. ASSUME NEW x \in lists', NEW y \in lists', x.id = y.id PROVE x = y
      BY <2>3, <2>5, <2>7, <3>1 DEF IdInv, Unique
    <3>2. ASSUME NEW x \in calls', NEW y \in lists' PROVE x.id # y.id
      BY <2>1, <2>3, <2>5, <2>7 DEF IdInv, Unique
    <3>3. \A x, y \in calls' : x.id = y.id => x = y
      BY <2>1 DEF IdInv, Unique
    <3>. QED  BY <3>1, <3>2, <3>3 DEF Unique
  <2>10. Apart'
    <3>1. ASSUME NEW x \in calls', x.who = "modal"
          PROVE  (\A y \in calls' : x.modal # y.id) /\ (\A y \in lists' : x.modal # y.id)
      BY <2>1, <2>3, <2>5, <2>7, <3>1 DEF IdInv, Apart
    <3>2. ASSUME NEW x \in lists', x.then = "close"
          PROVE  (\A y \in calls' : x.modal # y.id) /\ (\A y \in lists' : x.modal # y.id)
      BY <2>1, <2>3, <2>5, <2>7, <3>2 DEF IdInv, Apart
    <3>. QED  BY <2>1, <3>1, <3>2 DEF Apart
  <2>11. OnMount'
    BY <2>1 DEF OnMount
  <2>12. PICK m : m = mount'
    OBVIOUS
  <2>13. Creations(m)' = {} /\ Frees(m)' = {}
    BY <2>1, <2>3, <2>5, <2>7, <2>12 DEF Creations, Frees
  <2>14. HeldBy(form'.busy, Creations(m)' \cup Frees(m)')
    BY <2>1, <2>13 DEF NewForm, HeldBy
  <2>15. HeldScreen'
    BY <2>1, <2>12, <2>14, HeldAnew
  <2>. QED  BY <2>8, <2>9, <2>10, <2>11, <2>15 DEF IdInv
<1>2. ASSUME UNCHANGED <<mount, lists, modal, form, calls>>, ops' \in Nat, ops <= ops'
      PROVE  IdInv' /\ HeldScreen'
  <2>1. IdInv'
    BY <1>0, <1>2, SameIds DEF IdInv, Unique
  <2>2. HeldScreen'
    BY <1>2, HeldKept
  <2>. QED  BY <2>1, <2>2
<1>3. ASSUME Act PROVE ops' \in Nat /\ ops <= ops'
  BY <1>0, <1>3, Acted
<1>4. ASSUME ops' = ops PROVE ops' \in Nat /\ ops <= ops'
  BY <1>0, <1>4
<1>5. ASSUME NEW s, SwitchSite(s) PROVE IdInv' /\ HeldScreen'
  BY <1>2, <1>3, <1>5 DEF SwitchSite, tabVars, serverVars
<1>6. ASSUME NEW e, FillEntry(e) PROVE IdInv' /\ HeldScreen'
  BY <1>2, <1>3, <1>6 DEF FillEntry, tabVars, serverVars
<1>7. CASE SubmitEntry
  BY <1>2, <1>3, <1>7 DEF SubmitEntry, tabVars, serverVars
<1>8. ASSUME NEW i, onDisable(i) \/ AskDelete(i) \/ CancelDelete(i) \/ onDelete(i) PROVE IdInv' /\ HeldScreen'
  BY <1>2, <1>3, <1>8 DEF onDisable, AskDelete, CancelDelete, onDelete, tabVars, serverVars
<1>9. ASSUME NEW a, RefuseAsk(a) PROVE IdInv' /\ HeldScreen'
  BY <1>2, <1>4, <1>9 DEF RefuseAsk, tabVars, serverVars, bounds, Fault
<1>10. ASSUME NEW a, NEW answer, ServeAsk(a, answer) PROVE IdInv' /\ HeldScreen'
  BY <1>2, <1>4, <1>10 DEF ServeAsk, tabVars, serverVars, bounds, Fault
<1>11. CASE AskAnswer
  BY <1>2, <1>4, <1>11 DEF AskAnswer, bounds, serverVars
<1>. QED  BY <1>1, <1>5, <1>6, <1>7, <1>8, <1>9, <1>10, <1>11 DEF ListOperator, ListNetwork

(* A save or a form that is held is held by exactly one request of its     *)
(* own, from the click to the list read after it, and one that is free by  *)
(* none: no answer to another request releases it (SitesTab.tsx,           *)
(* UsersTab.tsx, GoalsTab.tsx).                                            *)
THEOREM FormsHeld == Spec => []HeldByRequest
<1>1. Init => IdInv /\ HeldScreen
  <2>. SUFFICES ASSUME Init PROVE IdInv /\ HeldScreen
    OBVIOUS
  <2>1. /\ calls = {} /\ modal = NoModal /\ form = NewForm /\ ops = 0 /\ mount = 1
        /\ lists = {[id |-> 0, mount |-> 1, then |-> "none", modal |-> 0, snap |-> NoRows, stage |-> "sent"]}
    BY DEF Init, SitesInit
  <2>2. \A l \in lists : l.id = 0 /\ l.mount = 1 /\ l.then = "none"
    BY <2>1
  <2>3. Numbered /\ Unique /\ Apart /\ OnMount
    BY <2>1, <2>2 DEF Numbered, Unique, Apart, OnMount
  <2>4. Creations(mount) = {} /\ Frees(mount) = {} /\ ~form.busy
    BY <2>1, <2>2 DEF Creations, Frees, NewForm
  <2>5. HeldBy(form.busy, Creations(mount) \cup Frees(mount))
    BY <2>4 DEF HeldBy
  <2>. QED  BY <2>1, <2>3, <2>5 DEF HeldScreen, IdInv
<1>2. StoreInv /\ (IdInv /\ HeldScreen) /\ [Next]_vars => (IdInv /\ HeldScreen)'
  <2>. SUFFICES ASSUME StoreInv, IdInv, HeldScreen, [Next]_vars PROVE IdInv' /\ HeldScreen'
    OBVIOUS
  <2>1. CASE AtSites
    BY <2>1, HeldSites
  <2>2. CASE Network
    BY <2>2, HeldNetwork
  <2>3. CASE ListOperator \/ ListNetwork
    BY <2>3, HeldLists
  <2>4. CASE UNCHANGED vars
    <3>1. UNCHANGED <<calls, lists, modal, form, mount, ops>>
      BY <2>4 DEF vars, tabVars, serverVars, bounds
    <3>2. HeldScreen'
      BY <3>1, HeldKept
    <3>3. IdInv'
      BY <3>1, SameIds, Numbers DEF IdInv, Unique
    <3>. QED  BY <3>2, <3>3
  <2>. QED  BY <2>1, <2>2, <2>3, <2>4 DEF Next, AtSites
<1>3. HeldScreen /\ HolderInv /\ ListInv => HeldByRequest
  <2>. SUFFICES ASSUME HeldScreen, HolderInv, ListInv PROVE HeldByRequest
    OBVIOUS
  <2>1. modal # NoModal =>
          HeldBy(modal.saving, {c \in calls : c.who = "modal" /\ c.modal = modal.id}
                                 \cup {l \in lists : l.then = "close" /\ l.modal = modal.id})
    BY DEF HeldScreen, Saves, Closes
  <2>2. /\ {c \in calls : c.who = "form" /\ Here(c)} = Creations(mount)
        /\ {l \in lists : l.then = "form" /\ Here(l)} = Frees(mount)
    BY DEF Creations, Frees, Here
  <2>3. HeldBy(form.busy, {c \in calls : c.who = "form" /\ Here(c)}
                            \cup {l \in lists : l.then = "form" /\ Here(l)})
    BY <2>2 DEF HeldScreen
  <2>4. HeldBy(entry.busy, {a \in asks : OnScreen(a) /\ (a.op = "create" \/ a.then = "form")})
    <3>1. PICK own : own = {a \in asks : OnScreen(a) /\ (a.op = "create" \/ a.then = "form")}
      OBVIOUS
    <3>2. \A a \in asks : (a \in own) <=> Holder(a)
      BY <3>1 DEF ListInv, AskOK, Holder
    <3>3. (\A a \in own : a \in asks) /\ \A a, b \in own : a = b
      BY <3>1, <3>2 DEF HolderInv
    <3>4. CASE entry.busy
      <4>1. \E a \in asks : Holder(a)
        BY <3>4 DEF HolderInv
      <4>2. PICK r \in own : TRUE
        BY <3>2, <4>1
      <4>3. own = {r}
        BY <3>3, <4>2
      <4>. QED  BY <3>1, <3>4, <4>2, <4>3 DEF HeldBy
    <3>5. CASE ~entry.busy
      <4>1. \A a \in asks : ~Holder(a)
        BY <3>5 DEF HolderInv
      <4>2. own = {}
        BY <3>2, <3>3, <4>1
      <4>. QED  BY <3>1, <3>5, <4>2 DEF HeldBy
    <3>. QED  BY <3>4, <3>5
  <2>. QED  BY <2>1, <2>3, <2>4 DEF HeldByRequest
<1>. QED  BY <1>1, <1>2, <1>3, StoreInvariant, ListInvariant, FormInvariant, PTL DEF Spec


=============================================================================
