------------------------------ MODULE Reports ------------------------------
(***************************************************************************)
(* What the Campaigns, Sources and Geo panels make of an answer: the       *)
(* campaign tree (web/src/lib/campaignTree.ts), the groups of the other    *)
(* two tables, the donuts and the lists beside them (lib/chart.ts,         *)
(* panels/), and the rows the operator has opened, which outlive the       *)
(* answers.  When an answer comes is Dashboard's matter: here it may come  *)
(* at any time, with any rows.                                             *)
(*                                                                         *)
(* Names are numbers and 0 is the empty one; a row carries its path        *)
(* (campaign, source, medium, content; channel, referrer; country, place). *)
(* Goals are summed like views and are left out.                           *)
(***************************************************************************)
EXTENDS Lists, SequencesExt

CONSTANTS
    Answers(_),  \* the answers a panel may get: [rows, top]
    Known,       \* channels with a hue of their own (CHANNEL_PIE_TOKEN)
    Palette,     \* hues for the others
    TopN,        \* entries of Geo's list
    MaxOps       \* steps in a behaviour

PanelsWithRows == {"campaigns", "sources", "geo"}
Columns == {"views", "visitors", "revenue"}

(* The server counts in unsigned integers; a row has a path. *)
TableRow == [path : Seq(Nat) \ {<<>>}, channel : Nat, views : Nat, visitors : Nat, revenue : Nat]
TopEntry == [name : Nat, views : Nat, visitors : Nat, revenue : Nat]
Response == [rows : Seq(TableRow), top : Seq(TopEntry)]

ASSUME ReportsConstants ==
    /\ Palette \in Nat \ {0} /\ TopN \in Nat \ {0} /\ MaxOps \in Nat
    /\ \A p \in PanelsWithRows : Answers(p) \subseteq Response

VARIABLES
    view,        \* the panel on screen, its answer and its own signals
    clicked,     \* history: the rows the operator has opened
    untagged,    \* history: an answer had a row without a campaign
    ops

vars == <<view, clicked, untagged, ops>>

NoAnswer == [rows |-> <<>>, top |-> <<>>]
Unsorted == ""

Total(rows, column) == SumFunction([i \in DOMAIN rows |-> rows[i][column]])

---------------------------------------------------------------------------
(* A node's key is its parent's, a separator and its own value; the        *)
(* separator is left out below an empty key.                               *)
pathKey(node) ==
    FoldLeft(LAMBDA parent, value : IF parent = <<0>> THEN <<value>> ELSE Append(parent, value),
             <<0>>, node)

emptyNode(born) == [born |-> born, views |-> 0, visitors |-> 0, revenue |-> 0]

(* The node of a row at each level, created when it is first met. *)
accumulate(tree, node, row) ==
    LET old == IF node \in DOMAIN tree THEN tree[node] ELSE emptyNode(Cardinality(DOMAIN tree))
    IN [n \in DOMAIN tree \cup {node} |->
          IF n = node
          THEN [c \in DOMAIN old |-> IF c = "born" THEN old[c] ELSE old[c] + row[c]]
          ELSE tree[n]]

(* Mutant of Levels: one table of nodes for the whole tree, by key. *)
LevelsByKey(path) == [k \in DOMAIN path |-> pathKey(SubSeq(path, 1, k))]

(* Children are looked up in a table of their parent's own. *)
Levels(path) == [k \in DOMAIN path |-> SubSeq(path, 1, k)]

buildCampaignTree(rows) ==
    FoldLeft(LAMBDA tree, row :
                 FoldLeft(LAMBDA t, node : accumulate(t, node, row), tree, Levels(row.path)),
             <<>>, rows)

allPathKeys(tree) == {pathKey(n) : n \in DOMAIN tree}

(* byRevenueDesc, and the order of the rows among equals. *)
byRevenueDesc(a, b) ==
    \/ a.revenue > b.revenue
    \/ a.revenue = b.revenue /\ a.views > b.views
    \/ a.revenue = b.revenue /\ a.views = b.views /\ a.born < b.born

(* a[column] < b[column]; rpv is a quotient, 0 without visitors. *)
Less(tree, column, a, b) ==
    LET Up(n) == IF tree[n].visitors = 0 THEN 0 ELSE tree[n].revenue
        Down(n) == IF tree[n].visitors = 0 THEN 1 ELSE tree[n].visitors
    IN CASE column = "campaign" -> Last(a) < Last(b)
         [] column = "rpv" -> Up(a) * Down(b) < Up(b) * Down(a)
         [] OTHER -> tree[a][column] < tree[b][column]

SortKeys == Columns \cup {"campaign", "rpv"}      \* isCampaignSortKey

(* Mutant of sortCampaignTree: ties are broken, and then so is the rest. *)
SortTiesFirst(tree, sort, dir, a, b) == byRevenueDesc(tree[a], tree[b])

(* Whether a comes before b among their siblings. *)
sortCampaignTree(tree, sort, dir, a, b) ==
    LET Before(x, y) == IF dir = "asc" THEN Less(tree, sort, x, y) ELSE Less(tree, sort, y, x)
    IN \/ sort \in SortKeys /\ Before(a, b)
       \/ (sort \in SortKeys => ~Before(b, a)) /\ byRevenueDesc(tree[a], tree[b])

Children(tree, node) == {n \in DOMAIN tree : n # <<>> /\ Front(n) = node}

Siblings(tree, v, node) ==
    InOrder(Children(tree, node), LAMBDA a, b : sortCampaignTree(tree, v.sort, v.dir, a, b))

---------------------------------------------------------------------------
(* Geo's table: groupByCountry, then rolledRow of every group. *)
groupByCountry(rows) ==
    [c \in {rows[i].path[1] : i \in DOMAIN rows} |-> Keep(rows, LAMBDA r : r.path[1] = c)]

rolledRow(group) == [c \in Columns |-> Total(group, c)]

---------------------------------------------------------------------------
(* A slice, and an entry of a list: a channel the palette does not know    *)
(* gets the hue of its index.                                              *)
pieHueForChannel(name, i) == IF name \in Known THEN <<"channel", name>> ELSE <<"slot", i % Palette>>

buildPieData(name, value, i) ==
    [name |-> name, value |-> value, hue |-> pieHueForChannel(name, i)]

Positive(data) == Keep(data, LAMBDA d : d.value > 0)

(* The largest first; the sort is stable. *)
Ranked(data) ==
    LET Before(i, j) == \/ data[i].value > data[j].value
                        \/ data[i].value = data[j].value /\ i < j
        order == InOrder(DOMAIN data, Before)
    IN [k \in DOMAIN data |-> data[order[k]]]

FirstN(data, n) == SubSeq(data, 1, Min({n, Len(data)}))

Entries(top, column) == [i \in DOMAIN top |-> buildPieData(top[i].name, top[i][column], i)]

(* Sources: zero entries are dropped first, then the slices are numbered. *)
viewsPieOption(top, column) == Entries(Keep(top, LAMBDA r : r[column] > 0), column)

(* Campaigns: the rows' channels, in the order they are first met. *)
ByChannel(rows, column) ==
    LET met == At(rows, {i \in DOMAIN rows :
                            \A j \in 1 .. (i - 1) : rows[j].channel # rows[i].channel})
    IN [k \in DOMAIN met |->
          [name |-> met[k].channel,
           value |-> Total(Keep(rows, LAMBDA r : r.channel = met[k].channel), column)]]

campaignsPieOption(rows, column) ==
    LET kept == Positive(ByChannel(rows, column))
    IN [i \in DOMAIN kept |-> buildPieData(kept[i].name, kept[i].value, i)]

(* Mutant of pieOption: the slice of the others starts one too late. *)
PieOptionTailLate(top, column) ==
    LET sliced == Ranked(Positive(Entries(top, column)))
        tail == Total(SubSeq(sliced, TopN + 1, Len(sliced)), "value")
    IN FirstN(sliced, TopN - 1)
       \o (IF tail > 0 THEN <<[name |-> -1, value |-> tail, hue |-> <<"ink">>]>> ELSE <<>>)

(* Geo: the largest TopN - 1, and the others in one slice. *)
pieOption(top, column) ==
    LET sliced == Ranked(Positive(Entries(top, column)))
        tail == Total(SubSeq(sliced, TopN, Len(sliced)), "value")
    IN FirstN(sliced, TopN - 1)
       \o (IF tail > 0 THEN <<[name |-> -1, value |-> tail, hue |-> <<"ink">>]>> ELSE <<>>)

(* Mutant of pieRows: the entries are numbered after they were sorted. *)
PieRowsByRank(top, column) ==
    LET ranked == FirstN(Ranked(Positive(Entries(top, column))), TopN)
    IN [i \in DOMAIN ranked |-> buildPieData(ranked[i].name, ranked[i].value, i)]

(* The list beside Geo's donut. *)
pieRows(top, column) ==
    LET ranked == Ranked(Positive(Entries(top, column)))
    IN IF Total(top, column) <= 0 THEN <<>> ELSE FirstN(ranked, TopN)

(* The list beside the campaigns' donut. *)
ChannelSummary(rows, column) == Ranked(campaignsPieOption(rows, column))

(* The list beside a donut of the sources: the entries are numbered before *)
(* those that are zero are dropped.                                        *)
summary(top, column) ==
    IF Total(top, column) <= 0 THEN <<>> ELSE Ranked(Positive(Entries(top, column)))

---------------------------------------------------------------------------
Tree(a) == buildCampaignTree(a.rows)

(* The number in the middle of the campaigns' donut, which shows revenue   *)
(* where there is any; of a donut of the sources; under Geo's.             *)
CampaignTotal(a, column) ==
    SumFunction([n \in {m \in DOMAIN Tree(a) : Len(m) = 1} |-> Tree(a)[n][column]])

CampaignMetric(a) == IF CampaignTotal(a, "revenue") > 0 THEN "revenue" ELSE "visitors"

ChannelTotal(a, column) == Total(a.top, column)

CountryTotal(a, column) == Total(a.top, column)

Key(panel, node) == IF panel = "campaigns" THEN pathKey(node) ELSE node

(* The rows with something below them: nodes with children, channels that  *)
(* have referrers, countries.                                              *)
BranchNodes(a) == {n \in DOMAIN Tree(a) : Children(Tree(a), n) # {}}

SourcesTable(a) ==
    LET groups == {a.rows[i].path[1] : i \in DOMAIN a.rows}
    IN {<<a.top[i].name>> : i \in {k \in DOMAIN a.top : a.top[k].name \in groups}}

CountryTable(a) == {<<c>> : c \in DOMAIN groupByCountry(a.rows)}

Openable(v) ==
    CASE v.on = "campaigns" -> BranchNodes(v.answer)
      [] v.on = "sources"   -> SourcesTable(v.answer)
      [] v.on = "geo"       -> CountryTable(v.answer)

(* renderNode: a row is on screen when every row above it is open. *)
Shown(v, node) ==
    ~v.err /\ \A k \in 1 .. (Len(node) - 1) : Key(v.on, SubSeq(node, 1, k)) \in v.open

(* Mutant of Collected: nothing is forgotten. *)
KeepStale(v, a) == v.open

(* The keys that are left when the answer has come: Campaigns drops those  *)
(* its new tree lacks, the other two keep all.                             *)
Collected(v, a) == IF v.on = "campaigns" THEN v.open \cap allPathKeys(Tree(a)) ELSE v.open

---------------------------------------------------------------------------
Mounted(p) ==
    [on |-> p, answer |-> NoAnswer, err |-> FALSE, open |-> {}, sort |-> Unsorted, dir |-> Unsorted,
     metric |-> "visitors"]

Step == ops < MaxOps /\ ops' = ops + 1

(* Another tab: the panel and its signals are gone; the sort is the URL's. *)
Mount(p) ==
    /\ Step
    /\ view' = [Mounted(p) EXCEPT !.sort = view.sort, !.dir = view.dir]
    /\ clicked' = {} /\ untagged' = FALSE

(* The fetching effect runs again: what was shown stays until the answer. *)
Refetch ==
    /\ Step /\ view.err
    /\ view' = [view EXCEPT !.err = FALSE]
    /\ UNCHANGED <<clicked, untagged>>

Answer(a) ==
    /\ Step /\ ~view.err
    /\ view' = [view EXCEPT !.answer = a, !.open = Collected(view, a)]
    /\ clicked' = IF view.on = "campaigns" THEN clicked \cap DOMAIN Tree(a) ELSE clicked
    /\ untagged' = \/ untagged
                   \/ view.on = "campaigns" /\ \E i \in DOMAIN a.rows : a.rows[i].path[1] = 0

Fail ==
    /\ Step /\ ~view.err
    /\ view' = [view EXCEPT !.err = TRUE]
    /\ UNCHANGED <<clicked, untagged>>

Sort(column, dir) ==
    /\ Step /\ <<column, dir>> # <<view.sort, view.dir>>
    /\ view' = [view EXCEPT !.sort = column, !.dir = dir]
    /\ UNCHANGED <<clicked, untagged>>

(* Visitors or Revenue above Geo's donut. *)
PickMetric(m) ==
    /\ Step /\ view.on = "geo" /\ ~view.err /\ view.answer # NoAnswer /\ view.metric # m
    /\ view' = [view EXCEPT !.metric = m]
    /\ UNCHANGED <<clicked, untagged>>

Flip(set, x) == IF x \in set THEN set \ {x} ELSE set \cup {x}

toggle(node) ==
    /\ Step /\ Shown(view, node)
    /\ view' = [view EXCEPT !.open = Flip(@, Key(view.on, node))]
    /\ clicked' = Flip(clicked, node)
    /\ UNCHANGED untagged

Init ==
    /\ view \in {Mounted(p) : p \in PanelsWithRows}
    /\ clicked = {} /\ untagged = FALSE /\ ops = 0

Next ==
    \/ \E p \in PanelsWithRows \ {view.on} : Mount(p)
    \/ \E a \in Answers(view.on) : Answer(a)
    \/ Refetch \/ Fail
    \/ \E column \in SortKeys \cup {"channel"}, dir \in {"asc", "desc"} : Sort(column, dir)
    \/ \E m \in {"visitors", "revenue"} : PickMetric(m)
    \/ \E node \in Openable(view) : toggle(node)

Spec == Init /\ [][Next]_vars

---------------------------------------------------------------------------
(* The campaign tree, and Geo's table, show every row of the answer once:  *)
(* a node's numbers are the sums over the rows below it, and the same name *)
(* under two parents is two nodes.                                         *)
TreeAccounted ==
    LET rows == view.answer.rows
        Below(n) == Keep(rows, LAMBDA r : IsPrefix(n, r.path))
        Nodes == (UNION {Prefixes(rows[i].path) : i \in DOMAIN rows}) \ {<<>>}
    IN /\ view.on = "campaigns" =>
            /\ DOMAIN Tree(view.answer) = Nodes
            /\ \A n \in Nodes, c \in Columns : Tree(view.answer)[n][c] = Total(Below(n), c)
       /\ view.on = "geo" =>
            \A c \in Columns :
                SumFunction([g \in DOMAIN groupByCountry(rows) |-> rolledRow(groupByCountry(rows)[g])[c]])
                    = Total(rows, c)

(* A row is open exactly when the operator opened it and has not closed it *)
(* since, through answers, errors and sorts, and a row that went away      *)
(* comes back closed; as long as every row names a campaign.               *)
OpenAsClicked ==
    ~untagged => \A n \in Openable(view) : Key(view.on, n) \in view.open <=> n \in clicked

(* Siblings follow the column and direction asked for, whichever panel's   *)
(* header set them.                                                        *)
SortedAsAsked ==
    view.on = "campaigns" /\ view.sort \in SortKeys =>
        LET tree == Tree(view.answer) IN
        \A node \in DOMAIN tree \cup {<<>>} :
            LET shown == Siblings(tree, view, node) IN
            \A i, j \in DOMAIN shown :
                i < j => IF view.dir = "asc" THEN ~Less(tree, view.sort, shown[j], shown[i])
                         ELSE ~Less(tree, view.sort, shown[i], shown[j])

(* The number in the middle of a donut, or under it, is the sum of its     *)
(* slices, the slice of the others included.                               *)
CentreIsSum ==
    LET a == view.answer
        m == CampaignMetric(a)
    IN /\ view.on = "campaigns" => CampaignTotal(a, m) = Total(campaignsPieOption(a.rows, m), "value")
       /\ view.on = "sources" =>
            \A c \in {"views", "revenue"} : ChannelTotal(a, c) = Total(viewsPieOption(a.top, c), "value")
       /\ view.on = "geo" => CountryTotal(a, view.metric) = Total(pieOption(a.top, view.metric), "value")

(* A named slice is on the list beside its donut with the same value, and  *)
(* with the same hue, except that a source the palette does not know is    *)
(* numbered differently in its list.                                       *)
SlicesListed ==
    LET a == view.answer
        m == CampaignMetric(a)
        Listed(slices, list, plain) ==
            \A s \in Range(slices) : s.name # -1 =>
                \E e \in Range(list) :
                    /\ e.name = s.name /\ e.value = s.value
                    /\ s.name \in plain \/ e.hue = s.hue
    IN /\ view.on = "campaigns" => Listed(campaignsPieOption(a.rows, m), ChannelSummary(a.rows, m), {})
       /\ view.on = "sources" =>
            \A c \in {"views", "revenue"} :
                Listed(viewsPieOption(a.top, c), summary(a.top, c),
                       {a.top[i].name : i \in DOMAIN a.top} \ Known)
       /\ view.on = "geo" => Listed(pieOption(a.top, view.metric), pieRows(a.top, view.metric), {})

(* "NUL never appears in URL-decoded UTM values, so concatenating with it  *)
(* cannot collide" (campaignTree.ts:34-36): two nodes never share a key.   *)
KeysNeverCollide ==
    view.on = "campaigns" =>
        \A m, n \in DOMAIN Tree(view.answer) : pathKey(m) = pathKey(n) => m = n
=============================================================================
