--------------------------- MODULE ReportsProofs ---------------------------
(***************************************************************************)
(* The reports, for every answer the server may give: what the campaign    *)
(* tree holds, the order of its rows, the slices of the donuts, the number *)
(* in their centre and the rows that are open.                             *)
(*                                                                         *)
(* The invariant is small: the views are well typed and an open row was    *)
(* opened by a click (ViewsTyped).  The rest is about what a view computes *)
(* from an answer.  The tree is built by a fold over the rows, and MadeOf  *)
(* says what it holds after the first k of them; an order by several       *)
(* columns is a total order with the place in the answer as the last key;  *)
(* a sum over the rows is split into the sums of the slices and the rest.  *)
(***************************************************************************)
EXTENDS Reports, DataLemmas

(* Induction over the steps 0 .. n. *)
LEMMA StepInduct ==
    ASSUME NEW n \in Nat, NEW S, 0 \in S, \A k \in 1 .. n : k - 1 \in S => k \in S
    PROVE  \A k \in 0 .. n : k \in S
<1> DEFINE T == {k \in Nat : k <= n => k \in S}
<1>1. 0 \in T
    OBVIOUS
<1>2. \A k \in Nat : k \in T => k + 1 \in T
    <2>1. SUFFICES ASSUME NEW k \in Nat, k \in T, k + 1 <= n PROVE k + 1 \in S
        OBVIOUS
    <2>2. k \in S /\ k + 1 \in 1 .. n /\ (k + 1) - 1 = k
        BY <2>1
    <2> QED
        BY <2>2
<1>3. \A k \in Nat : k \in T
    <2> HIDE DEF T
    <2> QED
        BY <1>1, <1>2, NatInduct
<1> QED
    BY <1>3

---------------------------------------------------------------------------
(* Keys. *)

(* The key of a node below a parent. *)
KeyBelow(parent, value) == IF parent = <<0>> THEN <<value>> ELSE Append(parent, value)

(* A key stays a list of names. *)
LEMMA KeyBelowType ==
    ASSUME NEW parent \in Seq(Nat), NEW value \in Nat
    PROVE  KeyBelow(parent, value) \in Seq(Nat)
BY DEF KeyBelow

(* pathKey extends the key level by level. *)
LEMMA KeySteps ==
    ASSUME NEW node \in Seq(Nat), NEW n \in Nat, n = Len(node)
    PROVE  \E h : /\ h[0] = <<0>>
                  /\ \A k \in 1 .. n : h[k] = KeyBelow(h[k - 1], node[k])
                  /\ pathKey(node) = h[n]
<1> DEFINE D == 1 .. n
           g == [i \in D |-> [m \in Seq(Nat) |-> KeyBelow(m, node[i])]]
           P(f) == f = [s \in SUBSET D |-> IF s = {} THEN <<0>>
                                           ELSE KeyBelow(f[s \ {Max(s)}], node[Max(s)])]
           it == CHOOSE f : P(f)
<1>1. DOMAIN node = D /\ \A i \in D : node[i] \in Nat
    OBVIOUS
<1>2. <<0>> \in Seq(Nat)
    OBVIOUS
<1>3. g \in [D -> [Seq(Nat) -> Seq(Nat)]] /\ \A i \in D : \A m \in Seq(Nat) : g[i][m] = KeyBelow(m, node[i])
    <2>1. \A i \in D : \A m \in Seq(Nat) : KeyBelow(m, node[i]) \in Seq(Nat)
        BY <1>1, KeyBelowType
    <2> QED
        BY <2>1
<1> HIDE DEF g
<1>4. PICK f \in [SUBSET D -> Seq(Nat)] :
        \A s \in SUBSET D : f[s] = IF s = {} THEN <<0>> ELSE g[Max(s)][f[s \ {Max(s)}]]
    <2>1. PICK f : IsFoldLeft(f, n, Seq(Nat), <<0>>, g)
        BY <1>2, <1>3, FoldLeftExists
    <2> QED
        BY <2>1, Zenon DEF IsFoldLeft
<1>5. P(f)
    <2>1. ASSUME NEW s \in SUBSET D
          PROVE  f[s] = IF s = {} THEN <<0>> ELSE KeyBelow(f[s \ {Max(s)}], node[Max(s)])
        <3>1. CASE s = {}
            BY <1>4, <3>1
        <3>2. CASE s # {}
            <4>1. Max(s) \in D
                BY <3>2, MaxFacts
            <4>2. f[s \ {Max(s)}] \in Seq(Nat)
                BY <1>4
            <4>3. f[s] = g[Max(s)][f[s \ {Max(s)}]]
                BY <1>4, <3>2
            <4> QED
                BY <1>3, <3>2, <4>1, <4>2, <4>3
        <3> QED
            BY <3>1, <3>2
    <2>2. f = [s \in SUBSET D |-> f[s]]
        OBVIOUS
    <2> HIDE DEF D
    <2> QED
        BY <2>1, <2>2
<1>6. P(it)
    <2> HIDE DEF P
    <2> QED
        BY <1>5, Zenon
<1>7. pathKey(node) = it[D]
    BY <1>1, Zenon DEF pathKey, FoldLeft, MapThenFoldSet, KeyBelow
<1>8. \A s \in SUBSET D : it[s] = IF s = {} THEN <<0>> ELSE KeyBelow(it[s \ {Max(s)}], node[Max(s)])
    <2> HIDE DEF it
    <2> QED
        BY <1>6, Zenon
<1> HIDE DEF it, P
<1> DEFINE h == [k \in 0 .. n |-> it[1 .. k]]
<1>9. h[0] = <<0>>
    <2>1. 1 .. 0 = {} /\ {} \in SUBSET D /\ 0 \in 0 .. n
        OBVIOUS
    <2> QED
        BY <1>8, <2>1, Zenon
<1>10. ASSUME NEW k \in 1 .. n PROVE h[k] = KeyBelow(h[k - 1], node[k])
    <2>1. /\ 1 .. k \in SUBSET D /\ 1 .. k # {}
          /\ Max(1 .. k) = k /\ (1 .. k) \ {k} = 1 .. (k - 1)
        BY UpTo
    <2>2. it[1 .. k] = KeyBelow(it[(1 .. k) \ {Max(1 .. k)}], node[Max(1 .. k)])
        BY <1>8, <2>1, Zenon
    <2>3. it[1 .. k] = KeyBelow(it[1 .. (k - 1)], node[k])
        BY <2>1, <2>2, Zenon
    <2>4. k \in 0 .. n /\ k - 1 \in 0 .. n
        OBVIOUS
    <2>5. h[k] = it[1 .. k] /\ h[k - 1] = it[1 .. (k - 1)]
        BY <2>4, Zenon
    <2> QED
        BY <2>3, <2>5, Zenon
<1>11. pathKey(node) = h[n]
    <2>1. n \in 0 .. n
        OBVIOUS
    <2> QED
        BY <1>7, <2>1, Zenon
<1> HIDE DEF h
<1> QED
    BY <1>9, <1>10, <1>11, Zenon

(* The key of a node of a campaign with a name is the node itself. *)
LEMMA KeyOfTagged ==
    ASSUME NEW node \in Seq(Nat), node # <<>>, node[1] # 0
    PROVE  pathKey(node) = node
<1>1. PICK n \in Nat : n = Len(node) /\ n >= 1 /\ DOMAIN node = 1 .. n
    OBVIOUS
<1>2. PICK h : /\ h[0] = <<0>>
               /\ \A k \in 1 .. n : h[k] = KeyBelow(h[k - 1], node[k])
               /\ pathKey(node) = h[n]
    BY <1>1, KeySteps
<1> DEFINE S == {k \in 0 .. n : k >= 1 => h[k] = SubSeq(node, 1, k)}
<1>3. 0 \in S
    OBVIOUS
<1>4. ASSUME NEW k \in 1 .. n, k - 1 \in S PROVE k \in S
    <2>1. h[k] = KeyBelow(h[k - 1], node[k])
        BY <1>2
    <2>2. CASE k = 1
        <3>1. h[1] = <<node[1]>>
            BY <1>2, <2>1, <2>2 DEF KeyBelow
        <3>2. SubSeq(node, 1, 1) = <<node[1]>>
            <4>1. /\ SubSeq(node, 1, 1) \in Seq(Nat) /\ Len(SubSeq(node, 1, 1)) = 1
                  /\ SubSeq(node, 1, 1)[1] = node[1]
                BY <1>1
            <4>2. \A e \in Seq(Nat) : Len(e) = 1 => e = <<e[1]>>
                OBVIOUS
            <4> QED
                BY <4>1, <4>2, Zenon
        <3> QED
            BY <2>2, <3>1, <3>2
    <2>3. CASE k # 1
        <3>1. h[k - 1] = SubSeq(node, 1, k - 1)
            BY <1>4, <2>3
        <3>2. SubSeq(node, 1, k - 1) # <<0>>
            <4>1. SubSeq(node, 1, k - 1)[1] = node[1]
                BY <1>1, <2>3
            <4>2. <<0>>[1] = 0
                OBVIOUS
            <4> QED
                BY <4>1, <4>2
        <3>3. h[k] = Append(SubSeq(node, 1, k - 1), node[k])
            BY <2>1, <3>1, <3>2 DEF KeyBelow
        <3>4. Append(SubSeq(node, 1, k - 1), node[k]) = SubSeq(node, 1, k)
            BY <1>1, <2>3
        <3>5. h[k] = SubSeq(node, 1, k)
            BY <3>3, <3>4, Zenon
        <3> QED
            BY <3>5
    <2> QED
        BY <2>2, <2>3
<1> HIDE DEF S
<1>5. n \in S
    <2>1. \A k \in 0 .. n : k \in S
        BY <1>3, <1>4, StepInduct
    <2> QED
        BY <1>1, <2>1
<1>6. h[n] = SubSeq(node, 1, n)
    BY <1>1, <1>5 DEF S
<1>7. SubSeq(node, 1, n) = node
    BY <1>1
<1> QED
    BY <1>2, <1>6, <1>7

---------------------------------------------------------------------------
(* The campaign tree. *)

Node == [born : Nat, views : Nat, visitors : Nat, revenue : Nat]

Trees == UNION {[S -> Node] : S \in {U \in SUBSET Seq(Nat) : IsFiniteSet(U)}}

(* What a node shows, 0 where there is none. *)
Shows(tree, n, c) == IF n \in DOMAIN tree THEN tree[n][c] ELSE 0

(* The nodes were created one after the other. *)
BornInTurn(tree) ==
    \A m, n \in DOMAIN tree :
        tree[m].born < Cardinality(DOMAIN tree) /\ (tree[m].born = tree[n].born => m = n)

(* tree has the nodes N besides those of old, and row is counted on them. *)
Counted(tree, old, N, row) ==
    /\ tree \in Trees
    /\ DOMAIN tree = DOMAIN old \cup N
    /\ \A n \in DOMAIN tree, c \in Columns :
          tree[n][c] = Shows(old, n, c) + (IF n \in N THEN row[c] ELSE 0)
    /\ BornInTurn(old) => BornInTurn(tree)

(* A tree has finitely many nodes, each a list of names with counters. *)
LEMMA TreeType ==
    ASSUME NEW tree \in Trees
    PROVE  /\ DOMAIN tree \in SUBSET Seq(Nat) /\ IsFiniteSet(DOMAIN tree)
           /\ Cardinality(DOMAIN tree) \in Nat
           /\ tree \in [DOMAIN tree -> Node]
           /\ \A n \in DOMAIN tree :
                 tree[n] \in Node /\ tree[n].born \in Nat /\ \A c \in Columns : tree[n][c] \in Nat
<1>1. PICK S \in SUBSET Seq(Nat) : IsFiniteSet(S) /\ tree \in [S -> Node]
    BY Zenon DEF Trees
<1>2. DOMAIN tree = S /\ Cardinality(S) \in Nat
    BY <1>1, FS_CardinalityType
<1>3. \A x \in Node : x.born \in Nat /\ \A c \in Columns : x[c] \in Nat
    BY DEF Node, Columns
<1> QED
    BY <1>1, <1>2, <1>3

(* A row counts on one node, created if it is new. *)
LEMMA AccumulateFacts ==
    ASSUME NEW tree \in Trees, NEW node \in Seq(Nat), NEW row \in TableRow
    PROVE  Counted(accumulate(tree, node, row), tree, {node}, row)
<1> DEFINE size == Cardinality(DOMAIN tree)
           old == IF node \in DOMAIN tree THEN tree[node] ELSE emptyNode(size)
           new == [c \in DOMAIN old |-> IF c = "born" THEN old[c] ELSE old[c] + row[c]]
           all == DOMAIN tree \cup {node}
           result == [n \in all |-> IF n = node THEN new ELSE tree[n]]
<1>0. accumulate(tree, node, row) = result
    BY DEF accumulate
<1>1. /\ DOMAIN tree \in SUBSET Seq(Nat) /\ IsFiniteSet(DOMAIN tree) /\ size \in Nat
      /\ \A n \in DOMAIN tree :
            tree[n] \in Node /\ tree[n].born \in Nat /\ \A c \in Columns : tree[n][c] \in Nat
    BY TreeType
<1>2. \A c \in Columns : row[c] \in Nat
    BY DEF TableRow, Columns
<1>3. emptyNode(size) \in Node /\ emptyNode(size).born = size /\ \A c \in Columns : emptyNode(size)[c] = 0
    BY <1>1 DEF emptyNode, Node, Columns
<1>4. /\ old \in Node
      /\ old.born = IF node \in DOMAIN tree THEN tree[node].born ELSE size
      /\ \A c \in Columns : old[c] = Shows(tree, node, c)
    BY <1>1, <1>3 DEF Shows
<1> HIDE DEF old
<1>5. DOMAIN old = {"born", "views", "visitors", "revenue"} /\ \A c \in DOMAIN old : old[c] \in Nat
    BY <1>4 DEF Node
<1>6. new \in Node /\ new.born = old.born /\ \A c \in Columns : new[c] = old[c] + row[c]
    <2>1. DOMAIN new = {"born", "views", "visitors", "revenue"}
        BY <1>5
    <2>2. new.born = old.born /\ \A c \in Columns : new[c] = old[c] + row[c]
        BY <1>5 DEF Columns
    <2>3. new.born \in Nat /\ new.views \in Nat /\ new.visitors \in Nat /\ new.revenue \in Nat
        <3>1. "views" \in Columns /\ "visitors" \in Columns /\ "revenue" \in Columns
            BY DEF Columns
        <3>2. \A c \in Columns : old[c] \in Nat
            BY <1>5 DEF Columns
        <3>3. \A c \in Columns : new[c] \in Nat
            BY <1>2, <2>2, <3>2
        <3>4. new.born \in Nat
            BY <1>5, <2>2
        <3> HIDE DEF new
        <3> QED
            BY <3>1, <3>3, <3>4
    <2>4. new = [born |-> new.born, views |-> new.views, visitors |-> new.visitors, revenue |-> new.revenue]
        BY <2>1
    <2> HIDE DEF new
    <2> QED
        BY <2>2, <2>3, <2>4 DEF Node
<1> HIDE DEF new
<1>7. IsFiniteSet(all) /\ all \in SUBSET Seq(Nat)
      /\ Cardinality(all) = IF node \in DOMAIN tree THEN size ELSE size + 1
    BY <1>1, FS_AddElement
<1>8. DOMAIN result = all /\ \A n \in all : result[n] = IF n = node THEN new ELSE tree[n]
    OBVIOUS
<1>9. result \in Trees
    <2>1. result \in [all -> Node]
        BY <1>1, <1>6
    <2> QED
        BY <1>7, <2>1, Zenon DEF Trees
<1>10. PICK r : r = result
    OBVIOUS
<1>11. ASSUME NEW n \in all, NEW c \in Columns
       PROVE  r[n][c] = Shows(tree, n, c) + (IF n \in {node} THEN row[c] ELSE 0)
    <2>1. CASE n = node
        <3>1. r[n][c] = old[c] + row[c]
            BY <1>6, <1>8, <1>10, <2>1
        <3> QED
            BY <1>4, <2>1, <3>1
    <2>2. CASE n # node
        <3>1. n \in DOMAIN tree /\ r[n][c] = tree[n][c] /\ tree[n][c] \in Nat
            BY <1>1, <1>8, <1>10, <2>2
        <3> QED
            BY <2>2, <3>1 DEF Shows
    <2> QED
        BY <2>1, <2>2
<1>12. ASSUME BornInTurn(tree) PROVE BornInTurn(r)
    <2>1. DOMAIN r = all
        BY <1>8, <1>10
    <2>2. \A n \in all : r[n].born = IF n \in DOMAIN tree THEN tree[n].born ELSE size
        BY <1>4, <1>6, <1>8, <1>10
    <2>3. \A m, n \in DOMAIN tree : tree[m].born < size /\ (tree[m].born = tree[n].born => m = n)
        BY <1>12 DEF BornInTurn
    <2>4. \A n \in all : n \notin DOMAIN tree => n = node
        OBVIOUS
    <2>5. \A m, n \in all : r[m].born < Cardinality(all) /\ (r[m].born = r[n].born => m = n)
        <3> HIDE DEF all
        <3>1. SUFFICES ASSUME NEW m \in all, NEW n \in all
                       PROVE  r[m].born < Cardinality(all) /\ (r[m].born = r[n].born => m = n)
            OBVIOUS
        <3> HIDE DEF size
        <3>2. PICK sizeAfter : sizeAfter = Cardinality(all)
            OBVIOUS
        <3>3. size \in Nat /\ sizeAfter \in Nat /\ size <= sizeAfter
              /\ (node \notin DOMAIN tree => size < sizeAfter)
            BY <1>1, <1>7, <3>2
        <3>4. \A k \in DOMAIN tree : tree[k].born \in Nat
            BY <1>1
        <3>5. PICK bm, bn : bm = r[m].born /\ bn = r[n].born
            OBVIOUS
        <3>6. CASE m \in DOMAIN tree /\ n \in DOMAIN tree
            <4>1. bm = tree[m].born /\ bn = tree[n].born
                BY <2>2, <3>5, <3>6, Zenon
            <4>2. bm < size /\ (bm = bn => m = n) /\ bm \in Nat
                BY <2>3, <3>4, <3>6, <4>1, Zenon
            <4>3. bm < sizeAfter
                BY <3>3, <4>2
            <4> QED
                BY <3>2, <3>5, <4>2, <4>3, Zenon
        <3>7. CASE m \in DOMAIN tree /\ n \notin DOMAIN tree
            <4>1. bm = tree[m].born /\ bn = size
                BY <2>2, <3>5, <3>7, Zenon
            <4>2. bm < size /\ bm \in Nat
                BY <2>3, <3>4, <3>7, <4>1, Zenon
            <4>3. bm < sizeAfter /\ bm # bn
                BY <3>3, <4>1, <4>2
            <4> QED
                BY <3>2, <3>5, <4>3, Zenon
        <3>8. CASE m \notin DOMAIN tree /\ n \in DOMAIN tree
            <4>1. bm = size /\ bn = tree[n].born /\ node \notin DOMAIN tree
                BY <2>2, <2>4, <3>5, <3>8, Zenon
            <4>2. bn < size /\ bn \in Nat
                BY <2>3, <3>4, <3>8, <4>1, Zenon
            <4>3. bm < sizeAfter /\ bm # bn
                BY <3>3, <4>1, <4>2
            <4> QED
                BY <3>2, <3>5, <4>3, Zenon
        <3>9. CASE m \notin DOMAIN tree /\ n \notin DOMAIN tree
            <4>1. bm = size /\ m = n /\ node \notin DOMAIN tree
                BY <2>2, <2>4, <3>5, <3>9, Zenon
            <4>2. bm < sizeAfter
                BY <3>3, <4>1
            <4> QED
                BY <3>2, <3>5, <4>1, <4>2, Zenon
        <3> QED
            BY <3>6, <3>7, <3>8, <3>9
    <2> QED
        BY <2>1, <2>5, Zenon DEF BornInTurn
<1>13. Counted(r, tree, {node}, row)
    BY <1>8, <1>9, <1>10, <1>11, <1>12, Zenon DEF Counted
<1> QED
    BY <1>0, <1>10, <1>13, Zenon

(* A row counts on the nodes of its levels. *)
CountOn(tree, row, levels) ==
    FoldLeft(LAMBDA t, node : accumulate(t, node, row), tree, levels)

(* The nodes of a path. *)
Levelled(path) == {SubSeq(path, 1, k) : k \in 1 .. Len(path)}

(* One node after the other keeps a tree a tree. *)
LEMMA AccumulateType ==
    ASSUME NEW tree \in Trees, NEW node \in Seq(Nat), NEW row \in TableRow
    PROVE  accumulate(tree, node, row) \in Trees
BY AccumulateFacts DEF Counted

(* The levels are taken from the top. *)
LEMMA CountSteps ==
    ASSUME NEW tree \in Trees, NEW row \in TableRow, NEW levels \in Seq(Seq(Nat)), NEW n \in Nat, n = Len(levels)
    PROVE  \E h : /\ h[0] = tree
                  /\ \A k \in 1 .. n : h[k] = accumulate(h[k - 1], levels[k], row)
                  /\ CountOn(tree, row, levels) = h[n]
<1> DEFINE D == 1 .. n
           g == [i \in D |-> [m \in Trees |-> accumulate(m, levels[i], row)]]
           P(f) == f = [s \in SUBSET D |-> IF s = {} THEN tree
                                           ELSE accumulate(f[s \ {Max(s)}], levels[Max(s)], row)]
           it == CHOOSE f : P(f)
<1>1. DOMAIN levels = D /\ \A i \in D : levels[i] \in Seq(Nat)
    OBVIOUS
<1>2. tree \in Trees
    OBVIOUS
<1>3. g \in [D -> [Trees -> Trees]] /\ \A i \in D : \A m \in Trees : g[i][m] = accumulate(m, levels[i], row)
    <2>1. \A i \in D : \A m \in Trees : accumulate(m, levels[i], row) \in Trees
        BY <1>1, AccumulateType
    <2> QED
        BY <2>1
<1> HIDE DEF g
<1>4. PICK f \in [SUBSET D -> Trees] :
        \A s \in SUBSET D : f[s] = IF s = {} THEN tree ELSE g[Max(s)][f[s \ {Max(s)}]]
    <2>1. PICK f : IsFoldLeft(f, n, Trees, tree, g)
        BY <1>2, <1>3, FoldLeftExists
    <2> QED
        BY <2>1, Zenon DEF IsFoldLeft
<1>5. P(f)
    <2>1. ASSUME NEW s \in SUBSET D
          PROVE  f[s] = IF s = {} THEN tree ELSE accumulate(f[s \ {Max(s)}], levels[Max(s)], row)
        <3>1. CASE s = {}
            BY <1>4, <3>1
        <3>2. CASE s # {}
            <4>1. Max(s) \in D
                BY <3>2, MaxFacts
            <4>2. f[s \ {Max(s)}] \in Trees
                BY <1>4
            <4>3. f[s] = g[Max(s)][f[s \ {Max(s)}]]
                BY <1>4, <3>2
            <4> QED
                BY <1>3, <3>2, <4>1, <4>2, <4>3
        <3> QED
            BY <3>1, <3>2
    <2>2. f = [s \in SUBSET D |-> f[s]]
        OBVIOUS
    <2> HIDE DEF D
    <2> QED
        BY <2>1, <2>2
<1>6. P(it)
    <2> HIDE DEF P
    <2> QED
        BY <1>5, Zenon
<1>7. CountOn(tree, row, levels) = it[D]
    BY <1>1, Zenon DEF CountOn, FoldLeft, MapThenFoldSet
<1>8. \A s \in SUBSET D : it[s] = IF s = {} THEN tree ELSE accumulate(it[s \ {Max(s)}], levels[Max(s)], row)
    <2> HIDE DEF it
    <2> QED
        BY <1>6, Zenon
<1> HIDE DEF it, P
<1> DEFINE h == [k \in 0 .. n |-> it[1 .. k]]
<1>9. h[0] = tree
    <2>1. 1 .. 0 = {} /\ {} \in SUBSET D /\ 0 \in 0 .. n
        OBVIOUS
    <2> QED
        BY <1>8, <2>1, Zenon
<1>10. ASSUME NEW k \in 1 .. n PROVE h[k] = accumulate(h[k - 1], levels[k], row)
    <2>1. /\ 1 .. k \in SUBSET D /\ 1 .. k # {}
          /\ Max(1 .. k) = k /\ (1 .. k) \ {k} = 1 .. (k - 1)
        BY UpTo
    <2>2. it[1 .. k] = accumulate(it[(1 .. k) \ {Max(1 .. k)}], levels[Max(1 .. k)], row)
        BY <1>8, <2>1, Zenon
    <2>3. it[1 .. k] = accumulate(it[1 .. (k - 1)], levels[k], row)
        BY <2>1, <2>2, Zenon
    <2>4. k \in 0 .. n /\ k - 1 \in 0 .. n
        OBVIOUS
    <2>5. h[k] = it[1 .. k] /\ h[k - 1] = it[1 .. (k - 1)]
        BY <2>4, Zenon
    <2> QED
        BY <2>3, <2>5, Zenon
<1>11. CountOn(tree, row, levels) = h[n]
    <2>1. n \in 0 .. n
        OBVIOUS
    <2> QED
        BY <1>7, <2>1, Zenon
<1> HIDE DEF h
<1> QED
    BY <1>9, <1>10, <1>11, Zenon

(* The levels of a path are its nodes. *)
LEMMA LevelsFacts ==
    ASSUME NEW path \in Seq(Nat)
    PROVE  /\ Levels(path) \in Seq(Seq(Nat)) /\ Len(Levels(path)) = Len(path)
           /\ \A k \in 1 .. Len(path) : Levels(path)[k] = SubSeq(path, 1, k)
<1>1. PICK n \in Nat : n = Len(path) /\ DOMAIN path = 1 .. n
    OBVIOUS
<1>2. Levels(path) = [k \in 1 .. n |-> SubSeq(path, 1, k)]
    BY <1>1 DEF Levels
<1>3. \A k \in 1 .. n : SubSeq(path, 1, k) \in Seq(Nat)
    BY <1>1
<1>4. PICK e : e = Levels(path)
    OBVIOUS
<1>5. e \in [1 .. n -> Seq(Nat)] /\ \A k \in 1 .. n : e[k] = SubSeq(path, 1, k)
    BY <1>2, <1>3, <1>4
<1>6. e \in Seq(Seq(Nat)) /\ Len(e) = n
    BY <1>5
<1> QED
    BY <1>1, <1>4, <1>5, <1>6

(* Counting on one more node of different ones. *)
LEMMA CountedStep ==
    ASSUME NEW old \in Trees, NEW t \in Trees, NEW N, NEW node, NEW row \in TableRow, NEW r,
           node \notin N, Counted(t, old, N, row), Counted(r, t, {node}, row)
    PROVE  Counted(r, old, N \cup {node}, row)
<1>1. DOMAIN r = DOMAIN old \cup (N \cup {node}) /\ DOMAIN t = DOMAIN old \cup N
    BY DEF Counted
<1>2. \A c \in Columns : row[c] \in Nat
    BY DEF TableRow, Columns
<1>3. ASSUME NEW n \in DOMAIN r, NEW c \in Columns
      PROVE  r[n][c] = Shows(old, n, c) + (IF n \in N \cup {node} THEN row[c] ELSE 0)
    <2>1. r[n][c] = Shows(t, n, c) + (IF n \in {node} THEN row[c] ELSE 0)
        BY DEF Counted
    <2>2. Shows(old, n, c) \in Nat
        BY TreeType DEF Shows
    <2>3. CASE n \in DOMAIN t
        <3>1. Shows(t, n, c) = Shows(old, n, c) + (IF n \in N THEN row[c] ELSE 0)
            BY <2>3 DEF Shows, Counted
        <3> QED
            BY <1>2, <2>1, <2>2, <3>1
    <2>4. CASE n \notin DOMAIN t
        <3>1. n = node /\ Shows(t, n, c) = 0 /\ Shows(old, n, c) = 0
            BY <1>1, <2>4 DEF Shows
        <3> QED
            BY <1>2, <2>1, <3>1
    <2> QED
        BY <2>3, <2>4
<1>4. r \in Trees /\ (BornInTurn(old) => BornInTurn(r))
    BY DEF Counted
<1> QED
    BY <1>1, <1>3, <1>4, Zenon DEF Counted

(* A row counts once on each node of its path. *)
LEMMA CountOnFacts ==
    ASSUME NEW tree \in Trees, NEW row \in TableRow
    PROVE  Counted(CountOn(tree, row, Levels(row.path)), tree, Levelled(row.path), row)
<1>1. PICK path \in Seq(Nat) : path = row.path
    BY DEF TableRow
<1>2. PICK n \in Nat : n = Len(path) /\ DOMAIN path = 1 .. n
    BY <1>1
<1>3. PICK levels \in Seq(Seq(Nat)) :
        levels = Levels(path) /\ Len(levels) = n /\ \A k \in 1 .. n : levels[k] = SubSeq(path, 1, k)
    BY <1>2, LevelsFacts
<1>4. PICK h : /\ h[0] = tree
               /\ \A k \in 1 .. n : h[k] = accumulate(h[k - 1], levels[k], row)
               /\ CountOn(tree, row, levels) = h[n]
    BY <1>3, CountSteps
<1> DEFINE N(k) == {SubSeq(path, 1, j) : j \in 1 .. k}
           S == {k \in 0 .. n : Counted(h[k], tree, N(k), row)}
<1>5. 0 \in S
    <2>1. N(0) = {}
        OBVIOUS
    <2>2. \A m \in DOMAIN tree, c \in Columns : tree[m][c] = Shows(tree, m, c) + 0
        BY TreeType DEF Shows
    <2>3. Counted(tree, tree, {}, row)
        BY <2>2 DEF Counted
    <2> HIDE DEF N
    <2>4. Counted(h[0], tree, N(0), row)
        BY <1>4, <2>1, <2>3
    <2> QED
        BY <2>4
<1>6. ASSUME NEW k \in 1 .. n, k - 1 \in S PROVE k \in S
    <2>1. N(k) = N(k - 1) \cup {levels[k]}
        <3>1. 1 .. k = (1 .. (k - 1)) \cup {k}
            OBVIOUS
        <3> QED
            BY <1>3, <3>1
    <2>2. levels[k] \notin N(k - 1)
        <3>1. SUFFICES ASSUME NEW j \in 1 .. (k - 1) PROVE SubSeq(path, 1, j) # SubSeq(path, 1, k)
            BY <1>3
        <3>2. Len(SubSeq(path, 1, j)) = j /\ Len(SubSeq(path, 1, k)) = k
            BY <1>2
        <3> QED
            BY <3>2
    <2>3. Counted(h[k - 1], tree, N(k - 1), row)
        BY <1>6
    <2> HIDE DEF N
    <2>4. h[k - 1] \in Trees /\ levels[k] \in Seq(Nat)
        BY <1>3, <2>3 DEF Counted
    <2>5. Counted(h[k], h[k - 1], {levels[k]}, row)
        BY <1>4, <2>4, AccumulateFacts
    <2>6. Counted(h[k], tree, N(k - 1) \cup {levels[k]}, row)
        BY <2>2, <2>3, <2>4, <2>5, CountedStep
    <2>7. Counted(h[k], tree, N(k), row)
        BY <2>1, <2>6
    <2> QED
        BY <2>7
<1> HIDE DEF S
<1>7. n \in S
    <2>1. \A k \in 0 .. n : k \in S
        BY <1>5, <1>6, StepInduct
    <2> QED
        BY <2>1
<1>8. Counted(h[n], tree, N(n), row)
    BY <1>7 DEF S
<1>9. Levelled(row.path) = N(n)
    BY <1>1, <1>2 DEF Levelled
<1> HIDE DEF N
<1> QED
    BY <1>1, <1>3, <1>4, <1>8, <1>9, Zenon

(* The tree with one more row. *)
WithRow(tree, row) == CountOn(tree, row, Levels(row.path))

(* A tree with one more row is a tree. *)
LEMMA WithRowType ==
    ASSUME NEW tree \in Trees, NEW row \in TableRow
    PROVE  WithRow(tree, row) \in Trees
BY CountOnFacts DEF Counted, WithRow

(* The tree without nodes. *)
LEMMA NoTree ==
    /\ <<>> \in Trees /\ DOMAIN <<>> = {}
    /\ BornInTurn(<<>>)
<1>1. IsFiniteSet({}) /\ {} \in SUBSET Seq(Nat)
    BY FS_EmptySet
<1>2. <<>> \in [{} -> Node] /\ DOMAIN <<>> = {}
    OBVIOUS
<1>3. <<>> \in Trees
    BY <1>1, <1>2, Zenon DEF Trees
<1> QED
    BY <1>2, <1>3 DEF BornInTurn

(* The rows are taken in their order. *)
LEMMA TreeSteps ==
    ASSUME NEW rows \in Seq(TableRow), NEW n \in Nat, n = Len(rows)
    PROVE  \E h : /\ h[0] = <<>>
                  /\ \A k \in 1 .. n : h[k] = WithRow(h[k - 1], rows[k])
                  /\ buildCampaignTree(rows) = h[n]
<1> DEFINE D == 1 .. n
           g == [i \in D |-> [m \in Trees |-> WithRow(m, rows[i])]]
           P(f) == f = [s \in SUBSET D |-> IF s = {} THEN <<>>
                                           ELSE WithRow(f[s \ {Max(s)}], rows[Max(s)])]
           it == CHOOSE f : P(f)
<1>1. DOMAIN rows = D /\ \A i \in D : rows[i] \in TableRow
    OBVIOUS
<1>2. <<>> \in Trees
    BY NoTree
<1>3. g \in [D -> [Trees -> Trees]] /\ \A i \in D : \A m \in Trees : g[i][m] = WithRow(m, rows[i])
    <2>1. \A i \in D : \A m \in Trees : WithRow(m, rows[i]) \in Trees
        BY <1>1, WithRowType
    <2> QED
        BY <2>1
<1> HIDE DEF g
<1>4. PICK f \in [SUBSET D -> Trees] :
        \A s \in SUBSET D : f[s] = IF s = {} THEN <<>> ELSE g[Max(s)][f[s \ {Max(s)}]]
    <2>1. PICK f : IsFoldLeft(f, n, Trees, <<>>, g)
        BY <1>2, <1>3, FoldLeftExists
    <2> QED
        BY <2>1, Zenon DEF IsFoldLeft
<1>5. P(f)
    <2>1. ASSUME NEW s \in SUBSET D
          PROVE  f[s] = IF s = {} THEN <<>> ELSE WithRow(f[s \ {Max(s)}], rows[Max(s)])
        <3>1. CASE s = {}
            BY <1>4, <3>1
        <3>2. CASE s # {}
            <4>1. Max(s) \in D
                BY <3>2, MaxFacts
            <4>2. f[s \ {Max(s)}] \in Trees
                BY <1>4
            <4>3. f[s] = g[Max(s)][f[s \ {Max(s)}]]
                BY <1>4, <3>2
            <4> QED
                BY <1>3, <3>2, <4>1, <4>2, <4>3
        <3> QED
            BY <3>1, <3>2
    <2>2. f = [s \in SUBSET D |-> f[s]]
        OBVIOUS
    <2> HIDE DEF D
    <2> QED
        BY <2>1, <2>2
<1>6. P(it)
    <2> HIDE DEF P
    <2> QED
        BY <1>5, Zenon
<1>7. buildCampaignTree(rows) = it[D]
    BY <1>1, Zenon DEF buildCampaignTree, WithRow, CountOn, FoldLeft, MapThenFoldSet
<1>8. \A s \in SUBSET D : it[s] = IF s = {} THEN <<>> ELSE WithRow(it[s \ {Max(s)}], rows[Max(s)])
    <2> HIDE DEF it
    <2> QED
        BY <1>6, Zenon
<1> HIDE DEF it, P
<1> DEFINE h == [k \in 0 .. n |-> it[1 .. k]]
<1>9. h[0] = <<>>
    <2>1. 1 .. 0 = {} /\ {} \in SUBSET D /\ 0 \in 0 .. n
        OBVIOUS
    <2> QED
        BY <1>8, <2>1, Zenon
<1>10. ASSUME NEW k \in 1 .. n PROVE h[k] = WithRow(h[k - 1], rows[k])
    <2>1. /\ 1 .. k \in SUBSET D /\ 1 .. k # {}
          /\ Max(1 .. k) = k /\ (1 .. k) \ {k} = 1 .. (k - 1)
        BY UpTo
    <2>2. it[1 .. k] = WithRow(it[(1 .. k) \ {Max(1 .. k)}], rows[Max(1 .. k)])
        BY <1>8, <2>1, Zenon
    <2>3. it[1 .. k] = WithRow(it[1 .. (k - 1)], rows[k])
        BY <2>1, <2>2, Zenon
    <2>4. k \in 0 .. n /\ k - 1 \in 0 .. n
        OBVIOUS
    <2>5. h[k] = it[1 .. k] /\ h[k - 1] = it[1 .. (k - 1)]
        BY <2>4, Zenon
    <2> QED
        BY <2>3, <2>5, Zenon
<1>11. buildCampaignTree(rows) = h[n]
    <2>1. n \in 0 .. n
        OBVIOUS
    <2> QED
        BY <1>7, <2>1, Zenon
<1> HIDE DEF h
<1> QED
    BY <1>9, <1>10, <1>11, Zenon

(* The columns and the path of a row. *)
LEMMA RowType ==
    ASSUME NEW row \in TableRow
    PROVE  /\ \A c \in Columns : row[c] \in Nat
           /\ row.path \in Seq(Nat) /\ row.path # <<>> /\ row.channel \in Nat
BY DEF TableRow, Columns

(* What row i puts on node n. *)
Puts(rows, n, c) == [i \in DOMAIN rows |-> IF n \in Levelled(rows[i].path) THEN rows[i][c] ELSE 0]

(* A tree made of the first k rows: a node for every level of every row,   *)
(* which shows the sum of what the rows put on it.                         *)
MadeOf(tree, rows, k) ==
    /\ tree \in Trees /\ BornInTurn(tree)
    /\ DOMAIN tree = UNION {Levelled(rows[i].path) : i \in 1 .. k}
    /\ \A n \in DOMAIN tree, c \in Columns :
          tree[n][c] = SumFunctionOnSet(Puts(rows, n, c), 1 .. k)

(* The tree of an answer is made of all its rows. *)
LEMMA TreeMade ==
    ASSUME NEW rows \in Seq(TableRow)
    PROVE  MadeOf(buildCampaignTree(rows), rows, Len(rows))
<1>1. PICK n \in Nat : n = Len(rows) /\ DOMAIN rows = 1 .. n
    OBVIOUS
<1>2. PICK h : /\ h[0] = <<>>
               /\ \A k \in 1 .. n : h[k] = WithRow(h[k - 1], rows[k])
               /\ buildCampaignTree(rows) = h[n]
    BY <1>1, TreeSteps
<1>3. \A i \in 1 .. n : rows[i] \in TableRow /\ \A c \in Columns : rows[i][c] \in Nat
    BY <1>1, RowType
<1>4. ASSUME NEW m, NEW c \in Columns
      PROVE  /\ \A i \in 1 .. n : Puts(rows, m, c)[i] = IF m \in Levelled(rows[i].path) THEN rows[i][c] ELSE 0
             /\ \A i \in 1 .. n : Puts(rows, m, c)[i] \in Nat
    BY <1>1, <1>3 DEF Puts
<1>5. IsFiniteSet(1 .. n)
    BY FS_Interval
<1> DEFINE S == {k \in 0 .. n : MadeOf(h[k], rows, k)}
<1>6. 0 \in S
    <2>1. 1 .. 0 = {} /\ UNION {Levelled(rows[i].path) : i \in 1 .. 0} = {}
        OBVIOUS
    <2>2. MadeOf(h[0], rows, 0)
        BY <1>2, <2>1, NoTree DEF MadeOf
    <2> QED
        BY <2>2
<1>7. ASSUME NEW k \in 1 .. n, k - 1 \in S PROVE k \in S
    <2>1. MadeOf(h[k - 1], rows, k - 1)
        BY <1>7
    <2> DEFINE row == rows[k]
               old == h[k - 1]
    <2>2. old \in Trees /\ BornInTurn(old) /\ row \in TableRow
        BY <1>3, <2>1 DEF MadeOf
    <2>3. h[k] = WithRow(old, row)
        BY <1>2
    <2>4. Counted(h[k], old, Levelled(row.path), row)
        BY <2>2, <2>3, CountOnFacts DEF WithRow
    <2>5. DOMAIN h[k] = UNION {Levelled(rows[i].path) : i \in 1 .. k}
        <3>1. DOMAIN h[k] = DOMAIN old \cup Levelled(rows[k].path)
            BY <2>4 DEF Counted
        <3>2. DOMAIN old = UNION {Levelled(rows[i].path) : i \in 1 .. (k - 1)}
            BY <2>1 DEF MadeOf
        <3>3. 1 .. k = (1 .. (k - 1)) \cup {k}
            OBVIOUS
        <3> HIDE DEF old
        <3> QED
            BY <3>1, <3>2, <3>3
    <2>6. ASSUME NEW m \in DOMAIN h[k], NEW c \in Columns
          PROVE  h[k][m][c] = SumFunctionOnSet(Puts(rows, m, c), 1 .. k)
        <3> DEFINE F == Puts(rows, m, c)
                   P == 1 .. (k - 1)
        <3>1. h[k][m][c] = Shows(old, m, c) + (IF m \in Levelled(row.path) THEN row[c] ELSE 0)
            BY <2>4 DEF Counted
        <3>2. F[k] = IF m \in Levelled(row.path) THEN row[c] ELSE 0
            BY <1>4
        <3>3. \A i \in 1 .. n : F[i] \in Nat
            BY <1>4
        <3>4. P \in SUBSET (1 .. n) /\ k \notin P /\ P \cup {k} = 1 .. k
            OBVIOUS
        <3>5. Shows(old, m, c) = SumFunctionOnSet(F, P)
            <4>1. CASE m \in DOMAIN old
                BY <2>1, <4>1 DEF MadeOf, Shows
            <4>2. CASE m \notin DOMAIN old
                <5>1. \A i \in P : m \notin Levelled(rows[i].path)
                    BY <2>1, <4>2 DEF MadeOf
                <5>2. \A i \in P : F[i] = 0
                    BY <1>4, <3>4, <5>1
                <5>3. IsFiniteSet(P)
                    BY <1>5, <3>4, FS_Subset
                <5> HIDE DEF F, P
                <5>4. SumFunctionOnSet(F, P) = 0
                    BY <5>2, <5>3, SumZero
                <5> QED
                    BY <4>2, <5>4 DEF Shows
            <4> QED
                BY <4>1, <4>2
        <3> HIDE DEF F, P
        <3>6. SumFunctionOnSet(F, P \cup {k}) = F[k] + SumFunctionOnSet(F, P)
            BY <1>5, <3>3, <3>4, SumAdd
        <3>7. SumFunctionOnSet(F, P) \in Nat /\ F[k] \in Nat
            BY <1>5, <3>3, <3>4, SumType
        <3>8. h[k][m][c] = SumFunctionOnSet(F, P) + F[k]
            BY <3>1, <3>2, <3>5, Zenon
        <3>9. h[k][m][c] = SumFunctionOnSet(F, P \cup {k})
            BY <3>6, <3>7, <3>8
        <3> QED
            BY <3>4, <3>9, Zenon DEF F
    <2>7. h[k] \in Trees /\ BornInTurn(h[k])
        BY <2>2, <2>4 DEF Counted
    <2>8. MadeOf(h[k], rows, k)
        BY <2>5, <2>6, <2>7, Zenon DEF MadeOf
    <2> QED
        BY <2>8
<1> HIDE DEF S
<1>8. n \in S
    <2>1. \A k \in 0 .. n : k \in S
        BY <1>6, <1>7, StepInduct
    <2> QED
        BY <2>1
<1>9. MadeOf(h[n], rows, n)
    BY <1>8 DEF S
<1> QED
    BY <1>1, <1>2, <1>9

---------------------------------------------------------------------------
(* Sums over an answer. *)

(* The sum of a column over some of the rows. *)
LEMMA TotalAt ==
    ASSUME NEW X, NEW s \in Seq(X), NEW I \in SUBSET (DOMAIN s), NEW c, \A x \in X : x[c] \in Nat
    PROVE  /\ Total(At(s, I), c) = SumFunctionOnSet([i \in DOMAIN s |-> s[i][c]], I)
           /\ Total(At(s, I), c) \in Nat
<1>1. PICK n \in Nat : n = Len(s) /\ DOMAIN s = 1 .. n
    OBVIOUS
<1>2. PICK q : Ascends(q, I) /\ At(s, I) = [k \in 1 .. Cardinality(I) |-> s[q[k]]]
    <2>1. I \in SUBSET (1 .. n)
        BY <1>1
    <2>2. PICK q : Takes(q, At(s, I), s, I)
        BY <2>1, AtFacts
    <2> QED
        BY <2>2 DEF Takes
<1>3. PICK m \in Nat : m = Cardinality(I)
    BY <1>2 DEF Ascends
<1>4. /\ q \in [1 .. m -> I] /\ \A x \in I : \E k \in 1 .. m : q[k] = x
      /\ \A i, j \in 1 .. m : q[i] = q[j] => i = j
      /\ IsFiniteSet(I)
    BY <1>2, <1>3 DEF Ascends
<1>5. PICK F : F = [i \in DOMAIN s |-> s[i][c]]
    OBVIOUS
<1>6. \A i \in I : F[i] = s[i][c] /\ F[i] \in Nat
    BY <1>1, <1>5
<1>7. PICK t : t = At(s, I)
    OBVIOUS
<1>8. DOMAIN t = 1 .. m /\ \A k \in 1 .. m : t[k] = s[q[k]]
    BY <1>2, <1>3, <1>7
<1>9. PICK G : G = [k \in DOMAIN t |-> t[k][c]]
    OBVIOUS
<1>10. DOMAIN G = 1 .. m /\ \A k \in 1 .. m : G[k] = F[q[k]]
    BY <1>4, <1>6, <1>8, <1>9
<1>11. IsFiniteSet(1 .. m)
    BY FS_Interval
<1>12. SumFunctionOnSet(G, 1 .. m) = SumFunctionOnSet(F, I)
    <2>1. \A x \in I : F[x] \in Nat
        BY <1>6
    <2>2. \A k \in 1 .. m : G[k] = F[q[k]]
        BY <1>10
    <2>3. Renamed(G, 1 .. m, F, I, q)
        BY <1>4, <1>11, <2>1, <2>2 DEF Renamed
    <2> QED
        BY <2>3, SumRenamed
<1>13. Total(At(s, I), c) = SumFunctionOnSet(G, 1 .. m)
    BY <1>7, <1>9, <1>10, Zenon DEF Total, SumFunction
<1>14. SumFunctionOnSet(F, I) \in Nat
    BY <1>4, <1>6, SumType
<1> QED
    BY <1>5, <1>12, <1>13, <1>14

(* The sum of a column over all the rows. *)
LEMMA TotalAll ==
    ASSUME NEW X, NEW s \in Seq(X), NEW c, \A x \in X : x[c] \in Nat
    PROVE  /\ Total(s, c) = SumFunctionOnSet([i \in DOMAIN s |-> s[i][c]], DOMAIN s)
           /\ Total(s, c) \in Nat
<1>1. At(s, DOMAIN s) = s
    BY AtAll
<1>2. /\ Total(At(s, DOMAIN s), c) = SumFunctionOnSet([i \in DOMAIN s |-> s[i][c]], DOMAIN s)
      /\ Total(At(s, DOMAIN s), c) \in Nat
    BY TotalAt
<1> QED
    BY <1>1, <1>2

(* A node is a prefix of a path when it is one of its levels. *)
LEMMA PrefixLevel ==
    ASSUME NEW path \in Seq(Nat), NEW node \in Seq(Nat), node # <<>>
    PROVE  IsPrefix(node, path) <=> node \in Levelled(path)
<1>1. PICK n \in Nat : n = Len(path)
    OBVIOUS
<1>2. PICK m \in Nat : m = Len(node) /\ m >= 1
    OBVIOUS
<1>3. SubSeq(node, 1, m) = node
    BY <1>2
<1>4. \A k \in 1 .. n : SubSeq(path, 1, k) \in Seq(Nat) /\ Len(SubSeq(path, 1, k)) = k
    BY <1>1
<1>5. IsPrefix(node, path) <=> m <= n /\ node = SubSeq(path, 1, m)
    BY <1>1, <1>2, <1>3, Zenon DEF IsPrefix
<1>6. node \in Levelled(path) <=> \E k \in 1 .. n : node = SubSeq(path, 1, k)
    BY <1>1 DEF Levelled
<1>7. \A k \in 1 .. n : node = SubSeq(path, 1, k) => k = m
    BY <1>2, <1>4
<1>8. m <= n <=> m \in 1 .. n
    BY <1>2
<1> QED
    BY <1>5, <1>6, <1>7, <1>8, Zenon

(* The nonempty prefixes of a path are its levels. *)
LEMMA PrefixesLevelled ==
    ASSUME NEW path \in Seq(Nat)
    PROVE  Prefixes(path) \ {<<>>} = Levelled(path)
<1>1. PICK n \in Nat : n = Len(path)
    OBVIOUS
<1>2. \A k \in 1 .. n : SubSeq(path, 1, k) # <<>>
    <2>1. \A k \in 1 .. n : Len(SubSeq(path, 1, k)) = k
        BY <1>1
    <2>2. Len(<<>>) = 0 /\ \A k \in 1 .. n : k # 0
        OBVIOUS
    <2> QED
        BY <2>1, <2>2, Zenon
<1>3. SubSeq(path, 1, 0) = <<>>
    OBVIOUS
<1>4. 0 .. n = (1 .. n) \cup {0}
    OBVIOUS
<1>5. Prefixes(path) = {SubSeq(path, 1, k) : k \in 0 .. n} /\ Levelled(path) = {SubSeq(path, 1, k) : k \in 1 .. n}
    BY <1>1 DEF Prefixes, Levelled
<1> QED
    BY <1>2, <1>3, <1>4, <1>5

(* What the rows put on a node is the sum over the rows below it. *)
LEMMA PutsBelow ==
    ASSUME NEW rows \in Seq(TableRow), NEW node \in Seq(Nat), node # <<>>, NEW c \in Columns
    PROVE  SumFunctionOnSet(Puts(rows, node, c), 1 .. Len(rows))
             = Total(Keep(rows, LAMBDA r : IsPrefix(node, r.path)), c)
<1>1. PICK n \in Nat : n = Len(rows) /\ DOMAIN rows = 1 .. n
    OBVIOUS
<1>2. PICK I : I = {i \in DOMAIN rows : IsPrefix(node, rows[i].path)}
    OBVIOUS
<1>3. PICK F : F = [i \in DOMAIN rows |-> rows[i][c]]
    OBVIOUS
<1>4. PICK G : G = Puts(rows, node, c)
    OBVIOUS
<1>5. \A i \in 1 .. n : rows[i] \in TableRow
    BY <1>1
<1>6. \A i \in 1 .. n : rows[i].path \in Seq(Nat) /\ rows[i][c] \in Nat
    BY <1>5, RowType
<1>7. \A i \in 1 .. n : i \in I <=> node \in Levelled(rows[i].path)
    BY <1>1, <1>2, <1>6, PrefixLevel
<1>8. I \in SUBSET (1 .. n) /\ IsFiniteSet(1 .. n)
    BY <1>1, <1>2, FS_Interval
<1>9. \A i \in 1 .. n : G[i] = (IF i \in I THEN F[i] ELSE 0) /\ F[i] = rows[i][c]
    BY <1>1, <1>3, <1>4, <1>7 DEF Puts
<1>10. SumFunctionOnSet(G, I) = SumFunctionOnSet(G, 1 .. n)
    <2>1. ASSUME NEW i \in 1 .. n PROVE G[i] \in Nat
        <3>1. F[i] = rows[i][c] /\ rows[i][c] \in Nat
            BY <1>6, <1>9
        <3>2. G[i] = IF i \in I THEN F[i] ELSE 0
            BY <1>9
        <3> QED
            BY <3>1, <3>2
    <2>2. \A i \in (1 .. n) \ I : G[i] = 0
        BY <1>9
    <2> QED
        BY <1>8, <2>1, <2>2, SumSupport
<1>11. SumFunctionOnSet(F, I) = SumFunctionOnSet(G, I)
    <2>1. \A i \in I : G[i] \in Nat /\ F[i] = G[i]
        BY <1>6, <1>8, <1>9
    <2>2. IsFiniteSet(I)
        BY <1>8, FS_Subset
    <2> QED
        BY <2>1, <2>2, SumSame
<1>12. Total(At(rows, I), c) = SumFunctionOnSet(F, I)
    <2>1. \A x \in TableRow : x[c] \in Nat
        BY RowType
    <2>2. I \in SUBSET (DOMAIN rows)
        BY <1>1, <1>8
    <2> QED
        BY <1>3, <2>1, <2>2, TotalAt
<1>13. Keep(rows, LAMBDA r : IsPrefix(node, r.path)) = At(rows, I)
    BY <1>2, Zenon DEF Keep
<1> QED
    BY <1>1, <1>4, <1>10, <1>11, <1>12, <1>13, Zenon

(* The campaign tree accounts for its rows. *)
LEMMA CampaignsAccounted ==
    ASSUME NEW rows \in Seq(TableRow)
    PROVE  LET Below(n) == Keep(rows, LAMBDA r : IsPrefix(n, r.path))
               Nodes == (UNION {Prefixes(rows[i].path) : i \in DOMAIN rows}) \ {<<>>}
           IN /\ DOMAIN buildCampaignTree(rows) = Nodes
              /\ \A n \in Nodes, c \in Columns : buildCampaignTree(rows)[n][c] = Total(Below(n), c)
<1> DEFINE Nodes == (UNION {Prefixes(rows[i].path) : i \in DOMAIN rows}) \ {<<>>}
           tree == buildCampaignTree(rows)
<1>1. PICK n \in Nat : n = Len(rows) /\ DOMAIN rows = 1 .. n
    OBVIOUS
<1>2. MadeOf(tree, rows, n)
    BY <1>1, TreeMade
<1>3. \A i \in 1 .. n : rows[i].path \in Seq(Nat)
    BY <1>1, RowType
<1>4. \A i \in 1 .. n : Prefixes(rows[i].path) \ {<<>>} = Levelled(rows[i].path)
    BY <1>3, PrefixesLevelled
<1>5. Nodes = UNION {Levelled(rows[i].path) : i \in 1 .. n}
    <2>1. ASSUME NEW x \in Nodes PROVE x \in UNION {Levelled(rows[i].path) : i \in 1 .. n}
        <3>1. PICK i \in 1 .. n : x \in Prefixes(rows[i].path) /\ x # <<>>
            BY <1>1, Zenon
        <3> QED
            BY <1>4, <3>1, Zenon
    <2>2. ASSUME NEW x \in UNION {Levelled(rows[i].path) : i \in 1 .. n} PROVE x \in Nodes
        <3>1. PICK i \in 1 .. n : x \in Levelled(rows[i].path)
            BY Zenon
        <3>2. x \in Prefixes(rows[i].path) /\ x # <<>>
            BY <1>4, <3>1, Zenon
        <3> QED
            BY <1>1, <3>2, Zenon
    <2> QED
        BY <2>1, <2>2, Zenon
<1>6. <<>> \notin Nodes
    BY Zenon
<1> HIDE DEF Nodes, tree
<1>7. DOMAIN tree = Nodes /\ Nodes \in SUBSET Seq(Nat)
    <2>1. tree \in Trees /\ DOMAIN tree = Nodes
        BY <1>2, <1>5 DEF MadeOf
    <2> QED
        BY <2>1, TreeType
<1>8. ASSUME NEW m \in Nodes, NEW c \in Columns
      PROVE  tree[m][c] = Total(Keep(rows, LAMBDA r : IsPrefix(m, r.path)), c)
    <2>1. tree[m][c] = SumFunctionOnSet(Puts(rows, m, c), 1 .. n)
        BY <1>2, <1>7 DEF MadeOf
    <2>2. m \in Seq(Nat) /\ m # <<>>
        BY <1>6, <1>7
    <2>3. SumFunctionOnSet(Puts(rows, m, c), 1 .. Len(rows))
            = Total(Keep(rows, LAMBDA r : IsPrefix(m, r.path)), c)
        BY <2>2, PutsBelow
    <2> QED
        BY <1>1, <2>1, <2>3
<1> QED
    BY <1>7, <1>8, Zenon DEF Nodes, tree

(* Geo's table accounts for its rows. *)
LEMMA CountriesAccounted ==
    ASSUME NEW rows \in Seq(TableRow), NEW c \in Columns
    PROVE  SumFunction([g \in DOMAIN groupByCountry(rows) |-> rolledRow(groupByCountry(rows)[g])[c]])
             = Total(rows, c)
<1>1. PICK n \in Nat : n = Len(rows) /\ DOMAIN rows = 1 .. n
    OBVIOUS
<1>2. PICK F : F = [i \in DOMAIN rows |-> rows[i][c]]
    OBVIOUS
<1>3. PICK C : C = {rows[i].path[1] : i \in DOMAIN rows}
    OBVIOUS
<1>4. PICK k : k = [i \in 1 .. n |-> rows[i].path[1]]
    OBVIOUS
<1>5. PICK G : G = [g \in DOMAIN groupByCountry(rows) |-> rolledRow(groupByCountry(rows)[g])[c]]
    OBVIOUS
<1>6. /\ DOMAIN groupByCountry(rows) = C
      /\ \A g \in C : groupByCountry(rows)[g] = Keep(rows, LAMBDA r : r.path[1] = g)
    BY <1>3, Zenon DEF groupByCountry
<1>7. \A x \in TableRow : x[c] \in Nat
    BY RowType
<1>8. \A i \in 1 .. n : F[i] \in Nat /\ k[i] \in C /\ k[i] = rows[i].path[1]
    <2>1. \A i \in 1 .. n : rows[i] \in TableRow
        BY <1>1
    <2> QED
        BY <1>1, <1>2, <1>3, <1>4, <1>7, <2>1
<1>9. IsFiniteSet(1 .. n) /\ IsFiniteSet(C)
    <2>1. IsFiniteSet(1 .. n)
        BY FS_Interval
    <2>2. k \in Surjection(1 .. n, C)
        BY <1>1, <1>3, <1>4 DEF Surjection
    <2> QED
        BY <2>1, <2>2, FS_Surjection
<1>10. ASSUME NEW g \in C
       PROVE  G[g] = SumFunctionOnSet(F, {i \in 1 .. n : k[i] = g})
    <2>1. PICK I : I = {i \in DOMAIN rows : rows[i].path[1] = g}
        OBVIOUS
    <2>2. I = {i \in 1 .. n : k[i] = g} /\ I \in SUBSET (DOMAIN rows)
        BY <1>1, <1>8, <2>1
    <2>3. groupByCountry(rows)[g] = At(rows, I)
        BY <1>6, <2>1, Zenon DEF Keep
    <2>4. G[g] = rolledRow(At(rows, I))[c]
        BY <1>5, <1>6, <2>3
    <2>5. rolledRow(At(rows, I))[c] = Total(At(rows, I), c)
        BY Zenon DEF rolledRow
    <2>6. Total(At(rows, I), c) = SumFunctionOnSet(F, I)
        BY <1>2, <1>7, <2>2, TotalAt
    <2> QED
        BY <2>2, <2>4, <2>5, <2>6
<1>11. SumFunctionOnSet(G, C) = SumFunctionOnSet(F, 1 .. n)
    <2>1. \A i \in 1 .. n : F[i] \in Nat
        BY <1>8
    <2>2. \A i \in 1 .. n : k[i] \in C
        BY <1>8
    <2>3. \A g \in C : G[g] = SumFunctionOnSet(F, {i \in 1 .. n : k[i] = g})
        BY <1>10
    <2>4. InParts(G, C, F, 1 .. n, k)
        BY <1>9, <2>1, <2>2, <2>3, Zenon DEF InParts
    <2> QED
        BY <2>4, SumOfParts
<1>12. SumFunction(G) = SumFunctionOnSet(G, C)
    BY <1>5, <1>6 DEF SumFunction
<1>13. Total(rows, c) = SumFunctionOnSet(F, 1 .. n)
    BY <1>1, <1>2, <1>7, TotalAll
<1> QED
    BY <1>5, <1>11, <1>12, <1>13

---------------------------------------------------------------------------
(* The panel on screen. *)

View == [on : PanelsWithRows, answer : Response, err : BOOLEAN, open : SUBSET Seq(Nat),
         sort : SortKeys \cup {"channel", Unsorted}, dir : {"asc", "desc", Unsorted},
         metric : {"visitors", "revenue"}]

TypeOK ==
    /\ view \in View
    /\ clicked \in SUBSET Seq(Nat) /\ untagged \in BOOLEAN /\ ops \in Nat

(* Every row names a campaign. *)
Tagged(rows) == \A i \in DOMAIN rows : rows[i].path[1] # 0

(* As long as every row names a campaign, what is open is what was         *)
(* clicked.                                                                *)
OpenInv ==
    ~untagged => /\ view.open = clicked
                 /\ view.on = "campaigns" => Tagged(view.answer.rows)

(* A key is a list of names. *)
LEMMA KeyType ==
    ASSUME NEW node \in Seq(Nat)
    PROVE  pathKey(node) \in Seq(Nat)
<1>1. PICK n \in Nat : n = Len(node) /\ DOMAIN node = 1 .. n
    OBVIOUS
<1>2. PICK h : /\ h[0] = <<0>>
               /\ \A k \in 1 .. n : h[k] = KeyBelow(h[k - 1], node[k])
               /\ pathKey(node) = h[n]
    BY <1>1, KeySteps
<1> DEFINE S == {k \in 0 .. n : h[k] \in Seq(Nat)}
<1>3. 0 \in S
    <2>1. <<0>> \in Seq(Nat)
        OBVIOUS
    <2>2. h[0] \in Seq(Nat)
        BY <1>2, <2>1, Zenon
    <2> QED
        BY <2>2
<1>4. ASSUME NEW k \in 1 .. n, k - 1 \in S PROVE k \in S
    <2>1. h[k - 1] \in Seq(Nat) /\ node[k] \in Nat
        BY <1>1, <1>4
    <2>2. h[k] \in Seq(Nat)
        BY <1>2, <2>1, KeyBelowType
    <2> QED
        BY <2>2
<1> HIDE DEF S
<1>5. \A k \in 0 .. n : k \in S
    BY <1>3, <1>4, StepInduct
<1> QED
    BY <1>2, <1>5 DEF S

(* The nodes of the tree are nonempty lists of names, and the first name   *)
(* is the first of a row.                                                  *)
LEMMA TreeNodes ==
    ASSUME NEW rows \in Seq(TableRow), NEW node \in DOMAIN buildCampaignTree(rows)
    PROVE  /\ node \in Seq(Nat) /\ node # <<>>
           /\ \E i \in DOMAIN rows : node[1] = rows[i].path[1] /\ node \in Levelled(rows[i].path)
<1>1. PICK n \in Nat : n = Len(rows) /\ DOMAIN rows = 1 .. n
    OBVIOUS
<1>2. MadeOf(buildCampaignTree(rows), rows, n)
    BY <1>1, TreeMade
<1>3. PICK i \in 1 .. n : node \in Levelled(rows[i].path)
    BY <1>2 DEF MadeOf
<1>4. rows[i] \in TableRow
    BY <1>1
<1>5. rows[i].path \in Seq(Nat)
    BY <1>4, RowType
<1>6. PICK k \in 1 .. Len(rows[i].path) : node = SubSeq(rows[i].path, 1, k)
    BY <1>3 DEF Levelled
<1>7. \A p \in Seq(Nat) : \A j \in 1 .. Len(p) :
         SubSeq(p, 1, j) \in Seq(Nat) /\ Len(SubSeq(p, 1, j)) = j /\ SubSeq(p, 1, j)[1] = p[1]
    OBVIOUS
<1>8. node \in Seq(Nat) /\ Len(node) = k /\ node[1] = rows[i].path[1]
    BY <1>5, <1>6, <1>7, Zenon
<1>9. node # <<>>
    BY <1>8
<1> QED
    BY <1>1, <1>3, <1>8, <1>9

(* Where every row names a campaign a node is its own key. *)
LEMMA TaggedKeys ==
    ASSUME NEW rows \in Seq(TableRow), Tagged(rows)
    PROVE  /\ \A n \in DOMAIN buildCampaignTree(rows) : pathKey(n) = n
           /\ allPathKeys(buildCampaignTree(rows)) = DOMAIN buildCampaignTree(rows)
<1>1. ASSUME NEW n \in DOMAIN buildCampaignTree(rows) PROVE pathKey(n) = n
    <2>1. n \in Seq(Nat) /\ n # <<>> /\ n[1] # 0
        BY TreeNodes DEF Tagged
    <2> QED
        BY <2>1, KeyOfTagged
<1> QED
    BY <1>1 DEF allPathKeys

(* The fields of a view. *)
LEMMA ViewFields ==
    ASSUME TypeOK
    PROVE  /\ view.on \in PanelsWithRows
           /\ view.answer \in Response
           /\ view.answer.rows \in Seq(TableRow) /\ view.answer.top \in Seq(TopEntry)
           /\ view.open \in SUBSET Seq(Nat) /\ view.err \in BOOLEAN
           /\ view.sort \in SortKeys \cup {"channel", Unsorted} /\ view.dir \in {"asc", "desc", Unsorted}
           /\ view.metric \in {"visitors", "revenue"}
BY DEF TypeOK, View, Response

(* The rows that can be opened are lists of names. *)
LEMMA OpenableType ==
    ASSUME TypeOK, NEW node \in Openable(view)
    PROVE  /\ node \in Seq(Nat) /\ Key(view.on, node) \in Seq(Nat)
           /\ view.on = "campaigns" => node \in DOMAIN buildCampaignTree(view.answer.rows)
<1>1. PICK a \in Response : a = view.answer
    BY ViewFields
<1>2. a.rows \in Seq(TableRow) /\ a.top \in Seq(TopEntry) /\ view.on \in PanelsWithRows
    BY <1>1, ViewFields
<1>3. \A x \in Nat : <<x>> \in Seq(Nat)
    OBVIOUS
<1>4. CASE view.on = "campaigns"
    <2>1. node \in DOMAIN buildCampaignTree(a.rows)
        BY <1>1, <1>4 DEF Openable, BranchNodes, Tree
    <2>2. node \in Seq(Nat)
        BY <1>2, <2>1, TreeNodes
    <2> QED
        BY <1>1, <1>4, <2>1, <2>2, KeyType DEF Key
<1>5. CASE view.on = "sources"
    <2>1. PICK i \in DOMAIN a.top : node = <<a.top[i].name>>
        BY <1>1, <1>5, Zenon DEF Openable, SourcesTable
    <2>2. a.top[i] \in TopEntry
        BY <1>2
    <2>3. a.top[i].name \in Nat
        BY <2>2 DEF TopEntry
    <2>4. node \in Seq(Nat)
        BY <1>3, <2>1, <2>3
    <2> QED
        BY <1>5, <2>4 DEF Key
<1>6. CASE view.on = "geo"
    <2>1. PICK i \in DOMAIN a.rows : node = <<a.rows[i].path[1]>>
        BY <1>1, <1>6, Zenon DEF Openable, CountryTable, groupByCountry
    <2>2. a.rows[i] \in TableRow
        BY <1>2
    <2>3. a.rows[i].path \in Seq(Nat) /\ a.rows[i].path # <<>>
        BY <2>2, RowType
    <2>4. a.rows[i].path[1] \in Nat
        BY <2>3
    <2>5. node \in Seq(Nat)
        BY <1>3, <2>1, <2>4
    <2> QED
        BY <1>6, <2>5 DEF Key
<1> QED
    BY <1>2, <1>4, <1>5, <1>6 DEF PanelsWithRows

(* A view of panel p with nothing on it. *)
Fresh(v, p) == v \in View /\ v.on = p /\ v.open = {} /\ v.answer.rows = <<>>

(* A panel that was just mounted. *)
LEMMA MountedFacts ==
    ASSUME NEW p \in PanelsWithRows
    PROVE  /\ Mounted(p) \in View
           /\ Mounted(p).on = p /\ Mounted(p).open = {}
           /\ Mounted(p).answer = NoAnswer /\ Mounted(p).answer.rows = <<>>
           /\ \A s \in SortKeys \cup {"channel", Unsorted}, d \in {"asc", "desc", Unsorted} :
                 Fresh([Mounted(p) EXCEPT !.sort = s, !.dir = d], p)
<1>1. NoAnswer \in Response /\ NoAnswer.rows = <<>>
    <2>1. <<>> \in Seq(TableRow) /\ <<>> \in Seq(TopEntry)
        OBVIOUS
    <2> QED
        BY <2>1 DEF NoAnswer, Response
<1> HIDE DEF NoAnswer
<1>2. /\ Mounted(p) \in View
      /\ Mounted(p).on = p /\ Mounted(p).open = {} /\ Mounted(p).answer = NoAnswer
    BY <1>1 DEF Mounted, View
<1>3. ASSUME NEW s \in SortKeys \cup {"channel", Unsorted}, NEW d \in {"asc", "desc", Unsorted}
      PROVE  Fresh([Mounted(p) EXCEPT !.sort = s, !.dir = d], p)
    <2> DEFINE v == [Mounted(p) EXCEPT !.sort = s, !.dir = d]
    <2>1. v \in View /\ v.on = p /\ v.open = {} /\ v.answer = NoAnswer
        BY <1>2 DEF View
    <2> HIDE DEF v
    <2>2. Fresh(v, p)
        BY <1>1, <2>1 DEF Fresh
    <2> QED
        BY <2>2 DEF v
<1> QED
    BY <1>1, <1>2, <1>3

(* The first state. *)
LEMMA InitFacts ==
    ASSUME Init
    PROVE  TypeOK /\ OpenInv
<1>1. PICK p \in PanelsWithRows : view = Mounted(p)
    BY DEF Init
<1>2. view \in View /\ view.open = {} /\ view.answer.rows = <<>>
    BY <1>1, MountedFacts
<1>3. Tagged(<<>>)
    BY DEF Tagged
<1> QED
    BY <1>2, <1>3 DEF Init, TypeOK, OpenInv

(* What an answer leaves open, and what it leaves clicked. *)
LEMMA AnswerStep ==
    ASSUME TypeOK, OpenInv, NEW a \in Answers(view.on), Answer(a)
    PROVE  TypeOK' /\ OpenInv'
<1>1. a \in Response
    BY ViewFields, ReportsConstants
<1>2. a.rows \in Seq(TableRow)
    BY <1>1 DEF Response
<1>3. Collected(view, a) \in SUBSET Seq(Nat)
    BY ViewFields DEF Collected
<1>4. /\ view' \in View /\ view'.on = view.on /\ view'.answer = a /\ view'.open = Collected(view, a)
    BY <1>1, <1>3 DEF Answer, TypeOK, View
<1>5. TypeOK'
    BY <1>4 DEF TypeOK, Answer, Step
<1>6. OpenInv'
    <2>1. SUFFICES ASSUME ~untagged'
                   PROVE  view'.open = clicked' /\ (view'.on = "campaigns" => Tagged(view'.answer.rows))
        BY DEF OpenInv
    <2>2. ~untagged /\ (view.on = "campaigns" => Tagged(a.rows))
        BY <2>1 DEF Answer, Tagged
    <2>3. view.open = clicked
        BY <2>2 DEF OpenInv
    <2>4. CASE view.on = "campaigns"
        <3>1. allPathKeys(Tree(a)) = DOMAIN Tree(a)
            BY <1>2, <2>2, <2>4, TaggedKeys DEF Tree
        <3>2. clicked' = clicked \cap DOMAIN Tree(a) /\ Collected(view, a) = view.open \cap allPathKeys(Tree(a))
            BY <2>4 DEF Answer, Collected
        <3> QED
            BY <1>4, <2>2, <2>3, <3>1, <3>2
    <2>5. CASE view.on # "campaigns"
        BY <1>4, <2>3, <2>5 DEF Answer, Collected
    <2> QED
        BY <2>4, <2>5
<1> QED
    BY <1>5, <1>6

(* Opening and closing a row. *)
LEMMA ToggleStep ==
    ASSUME TypeOK, OpenInv, NEW node \in Openable(view), toggle(node)
    PROVE  TypeOK' /\ OpenInv'
<1>1. /\ node \in Seq(Nat) /\ Key(view.on, node) \in Seq(Nat)
      /\ view.on = "campaigns" => node \in DOMAIN buildCampaignTree(view.answer.rows)
    BY OpenableType
<1>2. PICK k \in Seq(Nat) : k = Key(view.on, node)
    BY <1>1
<1>3. PICK o \in SUBSET Seq(Nat) : o = Flip(view.open, k)
    BY <1>2, ViewFields DEF Flip
<1>4. view' \in View /\ view'.on = view.on /\ view'.answer = view.answer /\ view'.open = o
    BY <1>2, <1>3 DEF toggle, TypeOK, View
<1>5. TypeOK'
    BY <1>1, <1>4 DEF TypeOK, toggle, Step, Flip
<1>6. OpenInv'
    <2>1. SUFFICES ASSUME ~untagged
                   PROVE  view'.open = clicked' /\ (view'.on = "campaigns" => Tagged(view'.answer.rows))
        BY DEF OpenInv, toggle
    <2>2. view.open = clicked /\ (view.on = "campaigns" => Tagged(view.answer.rows))
        BY <2>1 DEF OpenInv
    <2>3. k = node
        <3>1. CASE view.on = "campaigns"
            <4>1. pathKey(node) = node
                BY <1>1, <2>2, <3>1, TaggedKeys, ViewFields
            <4> QED
                BY <1>2, <3>1, <4>1 DEF Key
        <3>2. CASE view.on # "campaigns"
            BY <1>2, <3>2 DEF Key
        <3> QED
            BY <3>1, <3>2
    <2>4. view'.open = clicked'
        BY <1>3, <1>4, <2>2, <2>3 DEF toggle
    <2> QED
        BY <1>4, <2>2, <2>4
<1> QED
    BY <1>5, <1>6

(* The steps that leave the answer and the open rows alone. *)
LEMMA QuietStep ==
    ASSUME TypeOK, OpenInv,
           \/ Refetch \/ Fail
           \/ \E column \in SortKeys \cup {"channel"}, dir \in {"asc", "desc"} : Sort(column, dir)
           \/ \E m \in {"visitors", "revenue"} : PickMetric(m)
    PROVE  TypeOK' /\ OpenInv'
<1> DEFINE Quiet == /\ view' \in View /\ view'.on = view.on /\ view'.answer = view.answer
                    /\ view'.open = view.open
                    /\ clicked' = clicked /\ untagged' = untagged /\ ops' = ops + 1
<1>1. Quiet
    <2>1. CASE Refetch
        BY <2>1 DEF Refetch, Step, TypeOK, View
    <2>2. CASE Fail
        BY <2>2 DEF Fail, Step, TypeOK, View
    <2>3. ASSUME NEW column \in SortKeys \cup {"channel"}, NEW dir \in {"asc", "desc"}, Sort(column, dir)
          PROVE  Quiet
        BY <2>3 DEF Sort, Step, TypeOK, View
    <2>4. ASSUME NEW m \in {"visitors", "revenue"}, PickMetric(m)
          PROVE  Quiet
        BY <2>4 DEF PickMetric, Step, TypeOK, View
    <2> QED
        BY <2>1, <2>2, <2>3, <2>4
<1> QED
    BY <1>1 DEF TypeOK, OpenInv

(* Another panel. *)
LEMMA MountStep ==
    ASSUME TypeOK, OpenInv, NEW p \in PanelsWithRows, Mount(p)
    PROVE  TypeOK' /\ OpenInv'
<1>1. Fresh(view', p)
    <2>1. view.sort \in SortKeys \cup {"channel", Unsorted} /\ view.dir \in {"asc", "desc", Unsorted}
        BY ViewFields
    <2>2. view' = [Mounted(p) EXCEPT !.sort = view.sort, !.dir = view.dir]
        BY DEF Mount
    <2> QED
        BY <2>1, <2>2, MountedFacts
<1>2. Tagged(<<>>)
    BY DEF Tagged
<1>3. TypeOK'
    <2>1. view' \in View
        BY <1>1 DEF Fresh
    <2>2. clicked' = {} /\ untagged' = FALSE /\ ops' = ops + 1
        BY DEF Mount, Step
    <2>3. ops \in Nat
        BY DEF TypeOK
    <2>4. clicked' \in SUBSET Seq(Nat) /\ ops' \in Nat
        BY <2>2, <2>3
    <2>5. untagged' \in BOOLEAN
        BY <2>2, Zenon
    <2> QED
        BY <2>1, <2>4, <2>5, Zenon DEF TypeOK
<1>4. Tagged(view'.answer.rows)
    BY <1>1, <1>2, Zenon DEF Fresh
<1>5. OpenInv'
    BY <1>1, <1>4 DEF Fresh, Mount, OpenInv
<1> QED
    BY <1>3, <1>5

(* The types, and that what is open is what was clicked, are kept by every *)
(* step.                                                                   *)
LEMMA OpenStep ==
    ASSUME TypeOK, OpenInv, [Next]_vars
    PROVE  TypeOK' /\ OpenInv'
<1>1. CASE UNCHANGED vars
    BY <1>1 DEF vars, TypeOK, OpenInv
<1>2. CASE Next
    BY <1>2, AnswerStep, ToggleStep, QuietStep, MountStep DEF Next
<1> QED
    BY <1>1, <1>2

(* The types, and that what is open is what was clicked, always hold. *)
LEMMA ViewsTyped == Spec => [](TypeOK /\ OpenInv)
<1>1. Init => TypeOK /\ OpenInv
    BY InitFacts
<1>2. TypeOK /\ OpenInv /\ [Next]_vars => (TypeOK /\ OpenInv)'
    BY OpenStep
<1> QED
    BY <1>1, <1>2, PTL DEF Spec

(* A row of a table is open exactly when the operator opened it and has    *)
(* not closed it since, as long as every row names a campaign: the keys    *)
(* the signal keeps through answers, errors and sorts                      *)
(* (web/src/panels/Campaigns.tsx, Sources.tsx, Geo.tsx), for every answer. *)
THEOREM OpenedIsClicked == Spec => []OpenAsClicked
<1>1. TypeOK /\ OpenInv => OpenAsClicked
    <2>1. SUFFICES ASSUME TypeOK, OpenInv, ~untagged, NEW n \in Openable(view)
                   PROVE  Key(view.on, n) \in view.open <=> n \in clicked
        BY DEF OpenAsClicked
    <2>2. view.open = clicked /\ (view.on = "campaigns" => Tagged(view.answer.rows))
        BY <2>1 DEF OpenInv
    <2>3. Key(view.on, n) = n
        <3>1. CASE view.on = "campaigns"
            <4>1. n \in DOMAIN buildCampaignTree(view.answer.rows)
                BY <2>1, <3>1, OpenableType
            <4>2. pathKey(n) = n
                BY <2>1, <2>2, <3>1, <4>1, TaggedKeys, ViewFields
            <4> QED
                BY <3>1, <4>2 DEF Key
        <3>2. CASE view.on # "campaigns"
            BY <3>2 DEF Key
        <3> QED
            BY <3>1, <3>2
    <2> QED
        BY <2>2, <2>3
<1> QED
    BY <1>1, ViewsTyped, PTL

(* The campaign tree and Geo's table show every row of the answer once: a  *)
(* node's numbers are the sums over the rows below it                      *)
(* (web/src/lib/campaignTree.ts, groupByCountry in panels/Geo.tsx), for    *)
(* any number of rows and levels.                                          *)
THEOREM RowsAccounted == Spec => []TreeAccounted
<1>1. TypeOK => TreeAccounted
    <2>1. SUFFICES ASSUME TypeOK PROVE TreeAccounted
        OBVIOUS
    <2> DEFINE rows == view.answer.rows
    <2>2. rows \in Seq(TableRow)
        BY <2>1, ViewFields
    <2>3. Tree(view.answer) = buildCampaignTree(rows)
        BY DEF Tree
    <2> DEFINE Nodes == (UNION {Prefixes(rows[i].path) : i \in DOMAIN rows}) \ {<<>>}
               Below(n) == Keep(rows, LAMBDA r : IsPrefix(n, r.path))
    <2>4. /\ DOMAIN buildCampaignTree(rows) = Nodes
          /\ \A n \in Nodes, c \in Columns : buildCampaignTree(rows)[n][c] = Total(Below(n), c)
        BY <2>2, CampaignsAccounted, Zenon
    <2>5. \A c \in Columns :
            SumFunction([g \in DOMAIN groupByCountry(rows) |-> rolledRow(groupByCountry(rows)[g])[c]])
                = Total(rows, c)
        BY <2>2, CountriesAccounted, Zenon
    <2> QED
        BY <2>2, <2>3, <2>4, <2>5, Zenon DEF TreeAccounted
<1> QED
    BY <1>1, ViewsTyped, PTL

---------------------------------------------------------------------------
(* The order of the siblings. *)

(* Products keep an order. *)
LEMMA ProductKeeps ==
    ASSUME NEW x \in Nat, NEW y \in Nat, NEW z \in Nat, x >= y
    PROVE  x * z >= y * z
<1>1. PICK w \in Nat : x = y + w
    <2>1. x - y \in Nat /\ x = y + (x - y)
        OBVIOUS
    <2> QED
        BY <2>1
<1>2. (y + w) * z = y * z + w * z
    OBVIOUS
<1>3. w * z \in Nat /\ y * z \in Nat
    OBVIOUS
<1>4. x * z = y * z + w * z
    BY <1>1, <1>2
<1> QED
    BY <1>3, <1>4

(* Factors can be exchanged. *)
LEMMA ProductSwap ==
    ASSUME NEW x \in Nat, NEW y \in Nat, NEW z \in Nat
    PROVE  (x * y) * z = (x * z) * y /\ x * y \in Nat
OBVIOUS

(* A positive factor can be dropped. *)
LEMMA ProductCancel ==
    ASSUME NEW x \in Nat, NEW y \in Nat, NEW z \in Nat, z > 0, x * z >= y * z
    PROVE  x >= y
<1>1. SUFFICES ASSUME y >= x + 1 PROVE FALSE
    OBVIOUS
<1>2. y * z >= (x + 1) * z
    BY <1>1, ProductKeeps
<1>3. (x + 1) * z = x * z + z
    OBVIOUS
<1>4. x * z \in Nat /\ y * z \in Nat
    OBVIOUS
<1> QED
    BY <1>2, <1>3, <1>4

(* a/b >= c/d and c/d >= e/f give a/b >= e/f. *)
LEMMA QuotientOrder ==
    ASSUME NEW a \in Nat, NEW b \in Nat, NEW c \in Nat, NEW d \in Nat, NEW e \in Nat, NEW f \in Nat,
           d > 0, a * d >= c * b, c * f >= e * d
    PROVE  a * f >= e * b
<1>1. (a * d) * f >= (c * b) * f /\ (c * f) * b >= (e * d) * b
    BY ProductKeeps, ProductSwap
<1>2. (a * d) * f = (a * f) * d /\ (c * b) * f = (c * f) * b /\ (e * d) * b = (e * b) * d
    BY ProductSwap
<1>3. /\ a * f \in Nat /\ e * b \in Nat
      /\ (a * f) * d \in Nat /\ (c * f) * b \in Nat /\ (e * b) * d \in Nat
    BY ProductSwap
<1>4. (a * f) * d >= (e * b) * d
    BY <1>1, <1>2, <1>3
<1> QED
    BY <1>3, <1>4, ProductCancel

(* L ranks S: it never goes both ways, and what it does not tell apart it  *)
(* does not tell apart from a third one either.                            *)
Ranks(L, S) ==
    /\ \A x, y \in S : <<x, y>> \in L => <<y, x>> \notin L
    /\ \A x, y, z \in S : <<x, y>> \notin L /\ <<y, z>> \notin L => <<x, z>> \notin L

(* By L, and where L does not tell by T. *)
ThenBy(L, T, S) == {p \in S \X S : p \in L \/ (<<p[2], p[1]>> \notin L /\ p \in T)}

(* A rank refined by a strict total order is a strict total order. *)
LEMMA ThenByOrders ==
    ASSUME NEW S, NEW L, NEW T, Ranks(L, S), Orders(T, S)
    PROVE  Orders(ThenBy(L, T, S), S)
<1>1. \A x, y \in S : <<x, y>> \in ThenBy(L, T, S)
                        <=> <<x, y>> \in L \/ (<<y, x>> \notin L /\ <<x, y>> \in T)
    BY DEF ThenBy
<1>2. \A x \in S : <<x, x>> \notin ThenBy(L, T, S)
    BY <1>1 DEF Ranks, Orders
<1>3. \A x, y \in S : x # y => <<x, y>> \in ThenBy(L, T, S) \/ <<y, x>> \in ThenBy(L, T, S)
    BY <1>1 DEF Ranks, Orders
<1>4. ASSUME NEW x \in S, NEW y \in S, NEW z \in S,
             <<x, y>> \in ThenBy(L, T, S), <<y, z>> \in ThenBy(L, T, S)
      PROVE  <<x, z>> \in ThenBy(L, T, S)
    <2>1. <<y, x>> \notin L /\ <<z, y>> \notin L
        BY <1>1, <1>4 DEF Ranks
    <2>2. <<z, x>> \notin L
        BY <2>1 DEF Ranks
    <2>3. <<x, y>> \in L \/ <<x, y>> \in T
        BY <1>1, <1>4
    <2>4. <<y, z>> \in L \/ <<y, z>> \in T
        BY <1>1, <1>4
    <2>5. CASE <<x, z>> \in L
        BY <1>1, <2>5
    <2>6. CASE <<x, z>> \notin L
        <3>1. <<x, y>> \notin L
            BY <2>1, <2>6 DEF Ranks
        <3>2. <<y, z>> \notin L
            BY <2>1, <2>6 DEF Ranks
        <3>3. <<x, z>> \in T
            BY <2>3, <2>4, <3>1, <3>2 DEF Orders
        <3> QED
            BY <1>1, <2>2, <3>3
    <2> QED
        BY <2>5, <2>6
<1> QED
    BY <1>2, <1>3, <1>4 DEF Orders

(* byRevenueDesc orders the nodes of a tree. *)
LEMMA RevenueOrders ==
    ASSUME NEW tree \in Trees, BornInTurn(tree), NEW S \in SUBSET (DOMAIN tree),
           NEW T, T = {p \in S \X S : byRevenueDesc(tree[p[1]], tree[p[2]])}
    PROVE  Orders(T, S)
<1>1. \A x \in S : tree[x].revenue \in Nat /\ tree[x].views \in Nat /\ tree[x].born \in Nat
    BY TreeType DEF Columns
<1>2. \A x, y \in S : <<x, y>> \in T <=>
          \/ tree[x].revenue > tree[y].revenue
          \/ tree[x].revenue = tree[y].revenue /\ tree[x].views > tree[y].views
          \/ tree[x].revenue = tree[y].revenue /\ tree[x].views = tree[y].views /\ tree[x].born < tree[y].born
    BY DEF byRevenueDesc
<1>3. \A x, y \in S : tree[x].born = tree[y].born => x = y
    BY DEF BornInTurn
<1>4. \A x \in S : <<x, x>> \notin T
    BY <1>1, <1>2
<1>5. \A x, y \in S : x # y => <<x, y>> \in T \/ <<y, x>> \in T
    BY <1>1, <1>2, <1>3
<1>6. \A x, y, z \in S : <<x, y>> \in T /\ <<y, z>> \in T => <<x, z>> \in T
    BY <1>1, <1>2
<1> QED
    BY <1>4, <1>5, <1>6 DEF Orders

(* Less ranks the nodes of a tree by any column of the header. *)
LEMMA LessRanks ==
    ASSUME NEW tree \in Trees, NEW S \in SUBSET (DOMAIN tree), <<>> \notin S, NEW column \in SortKeys,
           NEW L, L = {p \in S \X S : Less(tree, column, p[1], p[2])}
    PROVE  Ranks(L, S)
<1>1. \A x, y \in S : <<x, y>> \in L <=> Less(tree, column, x, y)
    OBVIOUS
<1>2. \A x \in S : x \in Seq(Nat) /\ \A c \in Columns : tree[x][c] \in Nat
    BY TreeType
<1>3. CASE column = "campaign"
    <2>1. \A x \in S : Last(x) \in Nat
        <3>1. \A x \in Seq(Nat) : x # <<>> => x[Len(x)] \in Nat
            OBVIOUS
        <3> QED
            BY <1>2, <3>1 DEF Last
    <2>2. \A x, y \in S : <<x, y>> \in L <=> Last(x) < Last(y)
        BY <1>1, <1>3 DEF Less
    <2> QED
        BY <2>1, <2>2 DEF Ranks
<1>4. CASE column = "rpv"
    <2> DEFINE U(n) == IF tree[n].visitors = 0 THEN 0 ELSE tree[n].revenue
               D(n) == IF tree[n].visitors = 0 THEN 1 ELSE tree[n].visitors
    <2>1. \A x \in S : U(x) \in Nat /\ D(x) \in Nat /\ D(x) > 0
        BY <1>2 DEF Columns
    <2>2. \A x, y \in S : <<x, y>> \in L <=> U(x) * D(y) < U(y) * D(x)
        BY <1>1, <1>4 DEF Less
    <2> HIDE DEF U, D
    <2>3. \A x, y \in S : U(x) * D(y) \in Nat
        BY <2>1, ProductSwap
    <2>4. ASSUME NEW x \in S, NEW y \in S, <<x, y>> \in L PROVE <<y, x>> \notin L
        BY <2>2, <2>3, <2>4
    <2>5. ASSUME NEW x \in S, NEW y \in S, NEW z \in S, <<x, y>> \notin L, <<y, z>> \notin L
          PROVE  <<x, z>> \notin L
        <3>1. U(x) * D(y) >= U(y) * D(x) /\ U(y) * D(z) >= U(z) * D(y)
            BY <2>2, <2>3, <2>5
        <3>2. U(x) * D(z) >= U(z) * D(x)
            BY <2>1, <3>1, QuotientOrder
        <3> QED
            BY <2>2, <2>3, <3>2
    <2> QED
        BY <2>4, <2>5 DEF Ranks
<1>5. CASE column \in Columns
    <2>1. \A x, y \in S : <<x, y>> \in L <=> tree[x][column] < tree[y][column]
        BY <1>1, <1>5 DEF Less, Columns
    <2>2. PICK v : v = [x \in S |-> tree[x][column]]
        OBVIOUS
    <2>3. \A x \in S : v[x] \in Nat
        BY <1>2, <1>5, <2>2
    <2>4. \A x, y \in S : <<x, y>> \in L <=> v[x] < v[y]
        BY <2>1, <2>2
    <2> QED
        BY <2>3, <2>4 DEF Ranks
<1> QED
    BY <1>3, <1>4, <1>5 DEF SortKeys

(* The order of the siblings is a strict total order. *)
LEMMA SiblingsOrdered ==
    ASSUME NEW tree \in Trees, BornInTurn(tree), NEW S \in SUBSET (DOMAIN tree), <<>> \notin S,
           NEW sort \in SortKeys, NEW dir,
           NEW R, R = {p \in S \X S : sortCampaignTree(tree, sort, dir, p[1], p[2])}
    PROVE  /\ Orders(R, S)
           /\ \A a, b \in S : <<a, b>> \in R =>
                 IF dir = "asc" THEN ~Less(tree, sort, b, a) ELSE ~Less(tree, sort, a, b)
<1> DEFINE L0 == {p \in S \X S : Less(tree, sort, p[1], p[2])}
           L == {p \in S \X S : IF dir = "asc" THEN Less(tree, sort, p[1], p[2])
                                ELSE Less(tree, sort, p[2], p[1])}
           T == {p \in S \X S : byRevenueDesc(tree[p[1]], tree[p[2]])}
<1>1. Ranks(L0, S)
    BY LessRanks
<1>2. Orders(T, S)
    BY RevenueOrders
<1>3. \A a, b \in S : <<a, b>> \in L0 <=> Less(tree, sort, a, b)
    OBVIOUS
<1>4. \A a, b \in S : <<a, b>> \in L <=> IF dir = "asc" THEN Less(tree, sort, a, b) ELSE Less(tree, sort, b, a)
    OBVIOUS
<1>5. \A a, b \in S : <<a, b>> \in T <=> byRevenueDesc(tree[a], tree[b])
    OBVIOUS
<1> HIDE DEF L0, L, T
<1>6. Ranks(L, S)
    BY <1>1, <1>3, <1>4 DEF Ranks
<1>7. \A a, b \in S : sortCampaignTree(tree, sort, dir, a, b)
                        <=> <<a, b>> \in L \/ (<<b, a>> \notin L /\ <<a, b>> \in T)
    BY <1>4, <1>5 DEF sortCampaignTree
<1>8. R = ThenBy(L, T, S)
    BY <1>7 DEF ThenBy
<1>9. Orders(R, S)
    BY <1>2, <1>6, <1>8, ThenByOrders
<1>10. \A a, b \in S : <<a, b>> \in R => <<b, a>> \notin L
    BY <1>6, <1>8 DEF ThenBy, Ranks
<1> QED
    BY <1>4, <1>9, <1>10

(* The siblings are listed once each, in their order. *)
LEMMA SiblingsListed ==
    ASSUME NEW tree \in Trees, BornInTurn(tree), <<>> \notin DOMAIN tree, NEW node, NEW v,
           v.sort \in SortKeys
    PROVE  \A i, j \in DOMAIN Siblings(tree, v, node) :
              i < j => IF v.dir = "asc"
                       THEN ~Less(tree, v.sort, Siblings(tree, v, node)[j], Siblings(tree, v, node)[i])
                       ELSE ~Less(tree, v.sort, Siblings(tree, v, node)[i], Siblings(tree, v, node)[j])
<1> DEFINE S == Children(tree, node)
<1>1. Siblings(tree, v, node)
        = [k \in 1 .. Cardinality(S) |->
             CHOOSE x \in S : Cardinality({y \in S : sortCampaignTree(tree, v.sort, v.dir, y, x)}) = k - 1]
    BY Zenon DEF Siblings, InOrder
<1>2. S \in SUBSET (DOMAIN tree) /\ <<>> \notin S
    BY DEF Children
<1> HIDE DEF S
<1>3. IsFiniteSet(S)
    BY <1>2, TreeType, FS_Subset
<1>4. PICK R : R = {p \in S \X S : sortCampaignTree(tree, v.sort, v.dir, p[1], p[2])}
    OBVIOUS
<1>5. /\ Orders(R, S)
      /\ \A a, b \in S : <<a, b>> \in R =>
            IF v.dir = "asc" THEN ~Less(tree, v.sort, b, a) ELSE ~Less(tree, v.sort, a, b)
    BY <1>2, <1>4, SiblingsOrdered
<1>6. PICK order : order = Siblings(tree, v, node)
    OBVIOUS
<1>7. \A x \in S : {y \in S : sortCampaignTree(tree, v.sort, v.dir, y, x)} = Down(R, S, x)
    BY <1>4 DEF Down
<1>8. order = [k \in 1 .. Cardinality(S) |-> CHOOSE x \in S : Cardinality(Down(R, S, x)) = k - 1]
    <2> DEFINE Is(k) == CHOOSE x \in S :
                           Cardinality({y \in S : sortCampaignTree(tree, v.sort, v.dir, y, x)}) = k - 1
               Place(k) == CHOOSE x \in S : Cardinality(Down(R, S, x)) = k - 1
    <2>1. order = [k \in 1 .. Cardinality(S) |-> Is(k)]
        BY <1>1, <1>6
    <2>2. \A k \in 1 .. Cardinality(S) : Is(k) = Place(k)
        BY <1>7
    <2> HIDE DEF Is, Place
    <2>3. order = [k \in 1 .. Cardinality(S) |-> Place(k)]
        BY <2>1, <2>2
    <2> QED
        BY <2>3 DEF Place
<1>9. Enumerates(order, R, S)
    BY <1>3, <1>5, <1>8, PlaceFacts
<1>10. ASSUME NEW i \in DOMAIN order, NEW j \in DOMAIN order, i < j
       PROVE  order[i] \in S /\ order[j] \in S /\ <<order[i], order[j]>> \in R
    BY <1>9, <1>10 DEF Enumerates
<1>11. \A i, j \in DOMAIN order :
          i < j => IF v.dir = "asc" THEN ~Less(tree, v.sort, order[j], order[i])
                   ELSE ~Less(tree, v.sort, order[i], order[j])
    BY <1>5, <1>10
<1> QED
    BY <1>6, <1>11, Zenon

(* Siblings follow the column and the direction asked for                  *)
(* (sortCampaignTree in web/src/lib/campaignTree.ts): the comparison is a  *)
(* strict total order, revenue per visitor included, for every tree.       *)
THEOREM OrderIsAsked == Spec => []SortedAsAsked
<1>1. TypeOK => SortedAsAsked
    <2>1. SUFFICES ASSUME TypeOK, view.sort \in SortKeys, NEW node
                   PROVE  LET shown == Siblings(Tree(view.answer), view, node) IN
                          \A i, j \in DOMAIN shown :
                             i < j => IF view.dir = "asc"
                                      THEN ~Less(Tree(view.answer), view.sort, shown[j], shown[i])
                                      ELSE ~Less(Tree(view.answer), view.sort, shown[i], shown[j])
        BY Zenon DEF SortedAsAsked
    <2>2. view.answer.rows \in Seq(TableRow)
        BY <2>1, ViewFields
    <2>3. MadeOf(Tree(view.answer), view.answer.rows, Len(view.answer.rows))
        BY <2>2, TreeMade DEF Tree
    <2>4. Tree(view.answer) \in Trees /\ BornInTurn(Tree(view.answer))
        BY <2>3 DEF MadeOf
    <2>5. <<>> \notin DOMAIN Tree(view.answer)
        BY <2>2, TreeNodes DEF Tree
    <2> QED
        BY <2>1, <2>4, <2>5, SiblingsListed, Zenon
<1> QED
    BY <1>1, ViewsTyped, PTL

---------------------------------------------------------------------------
(* Slices and lists. *)

Hue == {<<"ink">>} \cup ({"channel"} \X Nat) \cup ({"slot"} \X Nat)

Slice == [name : Nat \cup {-1}, value : Nat, hue : Hue]

(* A slice of a channel. *)
LEMMA PieDataType ==
    ASSUME NEW name \in Nat, NEW value \in Nat, NEW i \in Nat
    PROVE  /\ buildPieData(name, value, i) \in Slice
           /\ buildPieData(name, value, i).name = name /\ buildPieData(name, value, i).value = value
           /\ buildPieData(name, value, i).hue = pieHueForChannel(name, i)
<1>1. i % Palette \in Nat
    BY ReportsConstants
<1>2. pieHueForChannel(name, i) \in Hue
    BY <1>1 DEF pieHueForChannel, Hue
<1> HIDE DEF Hue
<1> QED
    BY <1>2 DEF buildPieData, Slice

(* The columns of an entry. *)
LEMMA EntryType ==
    ASSUME NEW e \in TopEntry
    PROVE  e.name \in Nat /\ \A c \in Columns : e[c] \in Nat
BY DEF TopEntry, Columns

(* The entries of a donut, numbered. *)
LEMMA EntriesFacts ==
    ASSUME NEW top \in Seq(TopEntry), NEW c \in Columns
    PROVE  /\ Entries(top, c) \in Seq(Slice) /\ DOMAIN Entries(top, c) = DOMAIN top
           /\ \A i \in DOMAIN top :
                 /\ Entries(top, c)[i].name = top[i].name
                 /\ Entries(top, c)[i].value = top[i][c]
                 /\ Entries(top, c)[i].hue = pieHueForChannel(top[i].name, i)
<1>1. PICK n \in Nat : n = Len(top) /\ DOMAIN top = 1 .. n
    OBVIOUS
<1>2. PICK e : e = Entries(top, c)
    OBVIOUS
<1>3. DOMAIN e = 1 .. n /\ \A i \in 1 .. n : e[i] = buildPieData(top[i].name, top[i][c], i)
    BY <1>1, <1>2 DEF Entries
<1>4. \A i \in 1 .. n : top[i] \in TopEntry /\ i \in Nat
    BY <1>1
<1>5. \A i \in 1 .. n : top[i].name \in Nat /\ top[i][c] \in Nat
    BY <1>4, EntryType
<1>6. \A i \in 1 .. n : /\ e[i] \in Slice /\ e[i].name = top[i].name /\ e[i].value = top[i][c]
                        /\ e[i].hue = pieHueForChannel(top[i].name, i)
    <2>1. SUFFICES ASSUME NEW i \in 1 .. n
                   PROVE  /\ e[i] \in Slice /\ e[i].name = top[i].name /\ e[i].value = top[i][c]
                          /\ e[i].hue = pieHueForChannel(top[i].name, i)
        BY Zenon
    <2>2. PICK name \in Nat : name = top[i].name
        BY <1>5
    <2>3. PICK value \in Nat : value = top[i][c]
        BY <1>5
    <2>4. e[i] = buildPieData(name, value, i) /\ i \in Nat
        BY <1>3, <1>4, <2>2, <2>3, Zenon
    <2>5. /\ buildPieData(name, value, i) \in Slice
          /\ buildPieData(name, value, i).name = name /\ buildPieData(name, value, i).value = value
          /\ buildPieData(name, value, i).hue = pieHueForChannel(name, i)
        BY <2>4, PieDataType
    <2> QED
        BY <2>2, <2>3, <2>4, <2>5, Zenon
<1>7. e \in [1 .. n -> Slice]
    <2>1. e = [i \in 1 .. n |-> buildPieData(top[i].name, top[i][c], i)]
        BY <1>1, <1>2, Zenon DEF Entries
    <2> QED
        BY <1>3, <1>6, <2>1
<1>8. e \in Seq(Slice)
    BY <1>7
<1> QED
    BY <1>1, <1>2, <1>3, <1>6, <1>8

(* q is a permutation of the first n positions. *)
Permutes(q, n) ==
    /\ q \in [1 .. n -> 1 .. n]
    /\ \A i \in 1 .. n : \E k \in 1 .. n : q[k] = i
    /\ \A i, j \in 1 .. n : q[i] = q[j] => i = j

(* The sorted slices are the slices. *)
LEMMA RankedFacts ==
    ASSUME NEW data \in Seq(Slice), NEW n \in Nat, n = Len(data)
    PROVE  \E q : Permutes(q, n) /\ Ranked(data) = [k \in 1 .. n |-> data[q[k]]]
<1> DEFINE S == DOMAIN data
           R == {p \in S \X S : \/ data[p[1]].value > data[p[2]].value
                                \/ data[p[1]].value = data[p[2]].value /\ p[1] < p[2]}
           Is(k) == CHOOSE x \in S : Cardinality({y \in S : \/ data[y].value > data[x].value
                                                            \/ data[y].value = data[x].value /\ y < x}) = k - 1
           Place(k) == CHOOSE x \in S : Cardinality(Down(R, S, x)) = k - 1
           q == [k \in 1 .. Cardinality(S) |-> Place(k)]
           old == [k \in 1 .. Cardinality(S) |-> Is(k)]
<1>1. Ranked(data) = [k \in S |-> data[old[k]]]
    BY Zenon DEF Ranked, InOrder
<1>2. \A x, y \in S : <<x, y>> \in R <=> \/ data[x].value > data[y].value
                                         \/ data[x].value = data[y].value /\ x < y
    OBVIOUS
<1>3. \A x \in S : {y \in S : \/ data[y].value > data[x].value
                              \/ data[y].value = data[x].value /\ y < x} = Down(R, S, x)
    <2> HIDE DEF R, S
    <2> QED
        BY <1>2 DEF Down
<1>4. \A k \in 1 .. Cardinality(S) : Is(k) = Place(k)
    <2> HIDE DEF R, S
    <2> QED
        BY <1>3
<1> HIDE DEF Is
<1>5. q = [k \in 1 .. Cardinality(S) |-> CHOOSE x \in S : Cardinality(Down(R, S, x)) = k - 1]
    OBVIOUS
<1>6. old = q
    <2> HIDE DEF Place
    <2> QED
        BY <1>4
<1> HIDE DEF Place, R, q, old
<1>7. S = 1 .. n
    OBVIOUS
<1>8. IsFiniteSet(S) /\ Cardinality(S) = n
    <2>1. IsFiniteSet(1 .. n) /\ Cardinality(1 .. n) = n
        BY UpToSize
    <2> QED
        BY <1>7, <2>1, Zenon
<1>9. \A x \in S : x \in Nat /\ data[x].value \in Nat
    <2>1. \A x \in S : data[x] \in Slice
        OBVIOUS
    <2>2. \A d \in Slice : d.value \in Nat
        BY DEF Slice
    <2> QED
        BY <1>7, <2>1, <2>2
<1> HIDE DEF S
<1>10. Orders(R, S)
    <2>1. PICK v : v = [x \in S |-> data[x].value]
        OBVIOUS
    <2>2. \A x \in S : x \in Nat /\ v[x] \in Nat
        BY <1>9, <2>1
    <2>3. \A x, y \in S : <<x, y>> \in R <=> v[x] > v[y] \/ (v[x] = v[y] /\ x < y)
        BY <1>2, <2>1
    <2> QED
        BY <2>2, <2>3 DEF Orders
<1>11. Enumerates(q, R, S)
    BY <1>5, <1>8, <1>10, PlaceFacts
<1>12. Ranked(data) = [k \in 1 .. n |-> data[q[k]]]
    BY <1>1, <1>6, <1>7
<1>13. Permutes(q, n)
    BY <1>7, <1>8, <1>11 DEF Enumerates, Permutes
<1> QED
    BY <1>12, <1>13, Zenon

(* The sorted list of slices, and what is on it. *)
LEMMA RankedList ==
    ASSUME NEW data \in Seq(Slice)
    PROVE  Ranked(data) \in Seq(Slice) /\ Len(Ranked(data)) = Len(data) /\ Range(Ranked(data)) = Range(data)
<1>1. PICK n \in Nat : n = Len(data) /\ DOMAIN data = 1 .. n
    OBVIOUS
<1>2. PICK q : /\ q \in [1 .. n -> 1 .. n]
               /\ \A i \in 1 .. n : \E k \in 1 .. n : q[k] = i
               /\ \A i, j \in 1 .. n : q[i] = q[j] => i = j
               /\ Ranked(data) = [k \in 1 .. n |-> data[q[k]]]
    <2>1. PICK q : Permutes(q, n) /\ Ranked(data) = [k \in 1 .. n |-> data[q[k]]]
        BY <1>1, RankedFacts
    <2> QED
        BY <2>1 DEF Permutes
<1>3. PICK t : t = Ranked(data)
    OBVIOUS
<1>4. \A k \in 1 .. n : data[q[k]] \in Slice
    <2>1. \A k \in 1 .. n : q[k] \in 1 .. n
        BY <1>2
    <2>2. \A i \in 1 .. n : data[i] \in Slice
        BY <1>1
    <2> QED
        BY <2>1, <2>2
<1>5. t \in [1 .. n -> Slice] /\ \A k \in 1 .. n : t[k] = data[q[k]]
    BY <1>2, <1>3, <1>4
<1>6. t \in Seq(Slice) /\ Len(t) = n /\ DOMAIN t = 1 .. n
    BY <1>5
<1>7. {t[k] : k \in 1 .. n} = {data[k] : k \in 1 .. n}
    <2>1. \A k \in 1 .. n : \E i \in 1 .. n : t[k] = data[i]
        <3>1. \A k \in 1 .. n : q[k] \in 1 .. n
            BY <1>2
        <3> QED
            BY <1>5, <3>1, Zenon
    <2>2. ASSUME NEW i \in 1 .. n PROVE \E k \in 1 .. n : t[k] = data[i]
        <3>1. PICK k \in 1 .. n : q[k] = i
            BY <1>2
        <3> QED
            BY <1>5, <3>1, Zenon
    <2>3. {t[k] : k \in 1 .. n} \subseteq {data[k] : k \in 1 .. n}
        BY <2>1
    <2>4. {data[k] : k \in 1 .. n} \subseteq {t[k] : k \in 1 .. n}
        BY <2>2
    <2> QED
        BY <2>3, <2>4
<1> QED
    BY <1>1, <1>3, <1>6, <1>7 DEF Range

(* The positive slices. *)
LEMMA PositiveList ==
    ASSUME NEW X, NEW data \in Seq(X)
    PROVE  /\ Positive(data) \in Seq(X)
           /\ Range(Positive(data)) = {data[i] : i \in {j \in DOMAIN data : data[j].value > 0}}
           /\ Positive(data) = At(data, {j \in DOMAIN data : data[j].value > 0})
<1> DEFINE I == {j \in DOMAIN data : data[j].value > 0}
<1>1. Positive(data) = At(data, I)
    BY Zenon DEF Positive, Keep
<1>2. I \in SUBSET (DOMAIN data)
    OBVIOUS
<1> HIDE DEF I
<1>3. At(data, I) \in Seq(X) /\ Range(At(data, I)) = {data[i] : i \in I}
    <2>1. ListOf(At(data, I), data, I, X)
        BY <1>2, AtList
    <2> QED
        BY <2>1, Zenon DEF ListOf, Range
<1> QED
    BY <1>1, <1>3 DEF I

(* What is shown of a list of which at most n are shown are its first k. *)
Shortened(t, data, n, k) ==
    /\ k <= n /\ (k < n => k = Len(data))
    /\ t = SubSeq(data, 1, k)
    /\ Range(t) = {data[i] : i \in 1 .. k}

(* The first of a list. *)
LEMMA FirstNFacts ==
    ASSUME NEW X, NEW data \in Seq(X), NEW n \in Nat
    PROVE  \E k \in 0 .. Len(data) : Shortened(FirstN(data, n), data, n, k)
<1>1. PICK m \in Nat : m = Len(data) /\ DOMAIN data = 1 .. m
    OBVIOUS
<1>2. PICK k \in {n, m} : \A y \in {n, m} : k <= y
    BY <1>1
<1>3. Min({n, Len(data)}) \in {n, m} /\ \A y \in {n, m} : Min({n, Len(data)}) <= y
    BY <1>1, <1>2, Zenon DEF Min
<1>4. Min({n, Len(data)}) = k
    BY <1>1, <1>2, <1>3
<1>5. k \in 0 .. m /\ k <= n /\ (k < n => k = m)
    BY <1>1, <1>2
<1>6. FirstN(data, n) = SubSeq(data, 1, k)
    BY <1>4 DEF FirstN
<1>7. PICK t : t = SubSeq(data, 1, k)
    OBVIOUS
<1>8. DOMAIN t = 1 .. k /\ \A i \in 1 .. k : t[i] = data[i]
    BY <1>1, <1>5, <1>7
<1>9. Range(t) = {data[i] : i \in 1 .. k}
    BY <1>8 DEF Range
<1>10. Shortened(FirstN(data, n), data, n, k)
    BY <1>1, <1>5, <1>6, <1>7, <1>9 DEF Shortened
<1> QED
    BY <1>1, <1>5, <1>10

(* Every named slice is on the list, with its value and, unless its name   *)
(* is among the plain ones, with its hue.                                  *)
OnList(slices, list, plain) ==
    \A s \in Range(slices) : s.name # -1 =>
        \E e \in Range(list) :
            /\ e.name = s.name /\ e.value = s.value
            /\ s.name \in plain \/ e.hue = s.hue

(* A positive entry makes the sum of its column positive. *)
LEMMA PositiveTotal ==
    ASSUME NEW top \in Seq(TopEntry), NEW c \in Columns, NEW i \in DOMAIN top, top[i][c] > 0
    PROVE  ~(Total(top, c) <= 0)
<1>1. PICK n \in Nat : n = Len(top) /\ DOMAIN top = 1 .. n
    OBVIOUS
<1>2. PICK F : F = [j \in DOMAIN top |-> top[j][c]]
    OBVIOUS
<1>3. \A e \in TopEntry : e[c] \in Nat
    BY EntryType
<1>4. \A j \in 1 .. n : F[j] = top[j][c] /\ F[j] \in Nat
    BY <1>1, <1>2, <1>3
<1>5. Total(top, c) = SumFunctionOnSet(F, 1 .. n) /\ Total(top, c) \in Nat
    <2>1. /\ Total(top, c) = SumFunctionOnSet([j \in DOMAIN top |-> top[j][c]], DOMAIN top)
          /\ Total(top, c) \in Nat
        BY <1>3, TotalAll
    <2> QED
        BY <1>1, <1>2, <2>1
<1>6. \A j \in 1 .. n : F[j] \in Nat
    BY <1>4
<1>7. IsFiniteSet(1 .. n) /\ i \in 1 .. n /\ F[i] > 0
    BY <1>1, <1>4, UpToSize
<1>8. SumFunctionOnSet(F, 1 .. n) > 0
    BY <1>6, <1>7, SumPositive
<1> QED
    BY <1>5, <1>8

(* The positive entries, sorted: every positive entry is among them. *)
LEMMA RankedEntries ==
    ASSUME NEW top \in Seq(TopEntry), NEW c \in Columns
    PROVE  /\ Ranked(Positive(Entries(top, c))) \in Seq(Slice)
           /\ Range(Ranked(Positive(Entries(top, c))))
                = {Entries(top, c)[i] : i \in {j \in DOMAIN top : top[j][c] > 0}}
<1>1. PICK data : data = Entries(top, c)
    OBVIOUS
<1>2. /\ data \in Seq(Slice) /\ DOMAIN data = DOMAIN top
      /\ \A i \in DOMAIN top : data[i].value = top[i][c]
    BY <1>1, EntriesFacts
<1>3. {j \in DOMAIN data : data[j].value > 0} = {j \in DOMAIN top : top[j][c] > 0}
    BY <1>2
<1>4. /\ Positive(data) \in Seq(Slice)
      /\ Range(Positive(data)) = {data[i] : i \in {j \in DOMAIN data : data[j].value > 0}}
    BY <1>2, PositiveList
<1>5. Ranked(Positive(data)) \in Seq(Slice) /\ Range(Ranked(Positive(data))) = Range(Positive(data))
    BY <1>4, RankedList
<1> QED
    BY <1>1, <1>3, <1>4, <1>5

(* The entries of the sources that are kept, and where they were. *)
LEMMA KeptEntries ==
    ASSUME NEW top \in Seq(TopEntry), NEW c \in Columns
    PROVE  \E t \in Seq(TopEntry) :
              /\ viewsPieOption(top, c) = Entries(t, c)
              /\ t = At(top, {i \in DOMAIN top : top[i][c] > 0})
              /\ {t[k] : k \in DOMAIN t} = {top[i] : i \in {j \in DOMAIN top : top[j][c] > 0}}
<1> DEFINE I == {i \in DOMAIN top : top[i][c] > 0}
<1>1. viewsPieOption(top, c) = Entries(At(top, I), c)
    BY Zenon DEF viewsPieOption, Keep
<1>2. I \in SUBSET (DOMAIN top)
    OBVIOUS
<1> HIDE DEF I
<1>3. At(top, I) \in Seq(TopEntry) /\ {At(top, I)[k] : k \in DOMAIN At(top, I)} = {top[i] : i \in I}
    <2>1. ListOf(At(top, I), top, I, TopEntry)
        BY <1>2, AtList
    <2> QED
        BY <2>1, Zenon DEF ListOf
<1> QED
    BY <1>1, <1>3, Zenon DEF I

(* The slices of the sources are on their list. *)
LEMMA SourcesListed ==
    ASSUME NEW top \in Seq(TopEntry), NEW c \in Columns
    PROVE  OnList(viewsPieOption(top, c), summary(top, c), {top[i].name : i \in DOMAIN top} \ Known)
<1>1. PICK t \in Seq(TopEntry) :
              /\ viewsPieOption(top, c) = Entries(t, c)
              /\ {t[k] : k \in DOMAIN t} = {top[i] : i \in {j \in DOMAIN top : top[j][c] > 0}}
    BY KeptEntries
<1>2. PICK plain : plain = {top[i].name : i \in DOMAIN top} \ Known
    OBVIOUS
<1>3. PICK list : list = summary(top, c)
    OBVIOUS
<1>4. ASSUME NEW s \in Range(Entries(t, c))
      PROVE  \E e \in Range(list) :
                /\ e.name = s.name /\ e.value = s.value
                /\ s.name \in plain \/ e.hue = s.hue
    <2>1. PICK k \in DOMAIN t : s = Entries(t, c)[k]
        BY EntriesFacts DEF Range
    <2>2. s.name = t[k].name /\ s.value = t[k][c] /\ s.hue = pieHueForChannel(t[k].name, k)
        BY <2>1, EntriesFacts
    <2>3. PICK i \in DOMAIN top : top[i][c] > 0 /\ t[k] = top[i]
        <3>1. t[k] \in {top[i] : i \in {j \in DOMAIN top : top[j][c] > 0}}
            BY <1>1, Zenon
        <3> QED
            BY <3>1, Zenon
    <2>4. PICK e : e = Entries(top, c)[i]
        OBVIOUS
    <2>5. e.name = top[i].name /\ e.value = top[i][c] /\ e.hue = pieHueForChannel(top[i].name, i)
        BY <2>4, EntriesFacts
    <2>6. list = Ranked(Positive(Entries(top, c)))
        <3>1. ~(Total(top, c) <= 0)
            BY <2>3, PositiveTotal
        <3> QED
            BY <1>3, <3>1, Zenon DEF summary
    <2>7. e \in Range(list)
        BY <2>3, <2>4, <2>6, RankedEntries
    <2>8. s.name \in plain \/ e.hue = s.hue
        <3>1. CASE top[i].name \in Known
            BY <2>2, <2>3, <2>5, <3>1 DEF pieHueForChannel
        <3>2. CASE top[i].name \notin Known
            BY <1>2, <2>2, <2>3, <3>2
        <3> QED
            BY <3>1, <3>2
    <2> QED
        BY <2>2, <2>3, <2>5, <2>7, <2>8
<1> QED
    BY <1>1, <1>2, <1>3, <1>4, Zenon DEF OnList

(* The slice of the others. *)
Others(v) == [name |-> -1, value |-> v, hue |-> <<"ink">>]

(* The value of a slice. *)
LEMMA SliceType == \A s \in Slice : s.value \in Nat
BY DEF Slice

(* pie is the first j of the sorted slices, fewer than TopN, and the rest  *)
(* in one slice.                                                           *)
PieOf(pie, sliced, tail, j) ==
    /\ tail = Total(SubSeq(sliced, TopN, Len(sliced)), "value")
    /\ j <= TopN - 1 /\ (j < TopN - 1 => j = Len(sliced))
    /\ pie = IF tail > 0 THEN Append(SubSeq(sliced, 1, j), Others(tail)) ELSE SubSeq(sliced, 1, j)
    /\ Others(tail) \in Slice

(* Geo's donut: the first slices, and the others in one if there are any. *)
LEMMA PieShape ==
    ASSUME NEW top \in Seq(TopEntry), NEW c \in Columns,
           NEW sliced, sliced = Ranked(Positive(Entries(top, c)))
    PROVE  \E tail \in Nat : \E j \in 0 .. Len(sliced) : PieOf(pieOption(top, c), sliced, tail, j)
<1>1. sliced \in Seq(Slice)
    BY RankedEntries
<1>2. TopN \in Nat \ {0} /\ TopN - 1 \in Nat
    BY ReportsConstants
<1>3. PICK j \in 0 .. Len(sliced) :
        /\ j <= TopN - 1 /\ (j < TopN - 1 => j = Len(sliced))
        /\ FirstN(sliced, TopN - 1) = SubSeq(sliced, 1, j)
    <2>1. PICK j \in 0 .. Len(sliced) : Shortened(FirstN(sliced, TopN - 1), sliced, TopN - 1, j)
        BY <1>1, <1>2, FirstNFacts
    <2> QED
        BY <2>1 DEF Shortened
<1>4. SubSeq(sliced, TopN, Len(sliced)) \in Seq(Slice)
    BY <1>1, <1>2
<1>5. PICK tail \in Nat : tail = Total(SubSeq(sliced, TopN, Len(sliced)), "value")
    BY <1>4, SliceType, TotalAll
<1>6. Others(tail) \in Slice
    <2>1. <<"ink">> \in Hue
        BY DEF Hue
    <2> HIDE DEF Hue
    <2> QED
        BY <2>1 DEF Others, Slice
<1>7. pieOption(top, c) = SubSeq(sliced, 1, j) \o (IF tail > 0 THEN <<Others(tail)>> ELSE <<>>)
    BY <1>3, <1>5, Zenon DEF pieOption, Others
<1>8. SubSeq(sliced, 1, j) \in Seq(Slice)
    BY <1>1
<1>9. \A f \in Seq(Slice) : \A x \in Slice : f \o <<x>> = Append(f, x) /\ f \o <<>> = f
    OBVIOUS
<1>10. pieOption(top, c) = IF tail > 0 THEN Append(SubSeq(sliced, 1, j), Others(tail))
                           ELSE SubSeq(sliced, 1, j)
    BY <1>6, <1>7, <1>8, <1>9, Zenon
<1>11. PieOf(pieOption(top, c), sliced, tail, j)
    BY <1>3, <1>5, <1>6, <1>10, Zenon DEF PieOf
<1> QED
    BY <1>11

(* The slices of the countries are on their list. *)
LEMMA CountriesListed ==
    ASSUME NEW top \in Seq(TopEntry), NEW c \in Columns
    PROVE  OnList(pieOption(top, c), pieRows(top, c), {})
<1>1. PICK sliced : sliced = Ranked(Positive(Entries(top, c)))
    OBVIOUS
<1>2. /\ sliced \in Seq(Slice)
      /\ Range(sliced) = {Entries(top, c)[i] : i \in {j \in DOMAIN top : top[j][c] > 0}}
    BY <1>1, RankedEntries
<1>3. TopN \in Nat /\ TopN - 1 \in Nat
    BY ReportsConstants
<1>4. PICK tail \in Nat : \E j \in 0 .. Len(sliced) : PieOf(pieOption(top, c), sliced, tail, j)
    BY <1>1, PieShape
<1>5. PICK j \in 0 .. Len(sliced) :
        /\ j <= TopN - 1 /\ (j < TopN - 1 => j = Len(sliced))
        /\ pieOption(top, c) = IF tail > 0 THEN Append(SubSeq(sliced, 1, j), Others(tail))
                               ELSE SubSeq(sliced, 1, j)
        /\ Others(tail) \in Slice
    BY <1>4 DEF PieOf
<1>6. PICK k \in 0 .. Len(sliced) :
        /\ k <= TopN /\ (k < TopN => k = Len(sliced))
        /\ Range(FirstN(sliced, TopN)) = {sliced[i] : i \in 1 .. k}
    <2>1. PICK k \in 0 .. Len(sliced) : Shortened(FirstN(sliced, TopN), sliced, TopN, k)
        BY <1>2, <1>3, FirstNFacts
    <2> QED
        BY <2>1 DEF Shortened
<1>7. j \in Nat /\ k \in Nat /\ j <= k /\ j <= Len(sliced) /\ k <= Len(sliced) /\ Len(sliced) \in Nat
    BY <1>2, <1>3, <1>5, <1>6
<1>8. ASSUME NEW s \in Range(pieOption(top, c)), s.name # -1
      PROVE  \E i \in 1 .. j : s = sliced[i]
    <2>1. PICK f \in Seq(Slice) : f = SubSeq(sliced, 1, j)
        <3>1. sliced \in Seq(Slice)
            BY <1>2
        <3>2. SubSeq(sliced, 1, j) \in Seq(Slice)
            BY <3>1
        <3> QED
            BY <3>2
    <2>2. Len(f) = j /\ \A i \in 1 .. j : f[i] = sliced[i]
        BY <1>2, <1>7, <2>1
    <2>3. CASE pieOption(top, c) = f
        <3>1. PICK i \in 1 .. j : s = f[i]
            BY <2>2, <2>3 DEF Range
        <3> QED
            BY <2>2, <3>1
    <2>4. CASE pieOption(top, c) = Append(f, Others(tail))
        <3>1. PICK x \in Slice : x = Others(tail)
            BY <1>5
        <3>2. PICK a : a = Append(f, x)
            OBVIOUS
        <3>3. DOMAIN a = 1 .. (j + 1) /\ (\A i \in 1 .. j : a[i] = f[i]) /\ a[j + 1] = x
            BY <1>7, <2>1, <2>2, <3>1, <3>2
        <3>4. PICK i \in 1 .. (j + 1) : s = a[i]
            BY <2>4, <3>1, <3>2, <3>3, Zenon DEF Range
        <3>5. x.name = -1
            BY <3>1 DEF Others
        <3>6. i # j + 1
            BY <1>8, <3>3, <3>4, <3>5
        <3>7. i \in 1 .. j
            BY <1>7, <3>4, <3>6
        <3> QED
            BY <2>2, <3>3, <3>4, <3>7
    <2> QED
        BY <1>5, <2>1, <2>3, <2>4
<1>9. ASSUME NEW s \in Range(pieOption(top, c)), s.name # -1
      PROVE  s \in Range(pieRows(top, c))
    <2>1. PICK i \in 1 .. j : s = sliced[i]
        BY <1>8, <1>9
    <2>2. i \in 1 .. k /\ i \in DOMAIN sliced
        BY <1>2, <1>7, <2>1
    <2>3. PICK d \in DOMAIN top : top[d][c] > 0
        <3>1. sliced[i] \in Range(sliced)
            BY <2>2, Zenon DEF Range
        <3> QED
            BY <1>2, <3>1
    <2>4. ~(Total(top, c) <= 0)
        BY <2>3, PositiveTotal
    <2>5. pieRows(top, c) = FirstN(sliced, TopN)
        BY <1>1, <2>4, Zenon DEF pieRows
    <2> QED
        BY <1>6, <2>1, <2>2, <2>5
<1> QED
    BY <1>9 DEF OnList

---------------------------------------------------------------------------
(* The channels of the campaigns. *)

Share == [name : Nat, value : Nat]

(* Where a channel is first met. *)
FirstMet(rows) == {i \in DOMAIN rows : \A j \in 1 .. (i - 1) : rows[j].channel # rows[i].channel}

(* Every channel is met first somewhere, and nowhere else. *)
LEMMA FirstMetFacts ==
    ASSUME NEW rows, NEW n \in Nat, DOMAIN rows = 1 .. n
    PROVE  /\ \A i \in 1 .. n : \E j \in FirstMet(rows) : rows[j].channel = rows[i].channel
           /\ \A i, j \in FirstMet(rows) : rows[i].channel = rows[j].channel => i = j
           /\ FirstMet(rows) \in SUBSET (1 .. n)
<1> DEFINE I == FirstMet(rows)
           S == {k \in 0 .. n : \A i \in 1 .. k : \E j \in I : rows[j].channel = rows[i].channel}
<1>1. \A i \in 1 .. n : i \in I <=> \A j \in 1 .. (i - 1) : rows[j].channel # rows[i].channel
    BY DEF FirstMet
<1>2. I \in SUBSET (1 .. n)
    BY DEF FirstMet
<1> HIDE DEF I
<1>3. 0 \in S
    OBVIOUS
<1>4. ASSUME NEW k \in 1 .. n, k - 1 \in S PROVE k \in S
    <2>1. \A i \in 1 .. (k - 1) : \E j \in I : rows[j].channel = rows[i].channel
        BY <1>4
    <2>2. \E j \in I : rows[j].channel = rows[k].channel
        <3>1. CASE k \in I
            BY <3>1
        <3>2. CASE k \notin I
            <4>1. PICK i \in 1 .. (k - 1) : rows[i].channel = rows[k].channel
                BY <1>1, <3>2
            <4> QED
                BY <2>1, <4>1
        <3> QED
            BY <3>1, <3>2
    <2>3. \A i \in 1 .. k : i = k \/ i \in 1 .. (k - 1)
        OBVIOUS
    <2>4. \A i \in 1 .. k : \E j \in I : rows[j].channel = rows[i].channel
        BY <2>1, <2>2, <2>3
    <2> QED
        BY <2>4
<1> HIDE DEF S
<1>5. \A k \in 0 .. n : k \in S
    BY <1>3, <1>4, StepInduct
<1>6. \A i \in 1 .. n : \E j \in I : rows[j].channel = rows[i].channel
    BY <1>5 DEF S
<1>7. ASSUME NEW i \in I, NEW j \in I, rows[i].channel = rows[j].channel PROVE i = j
    <2>1. i \in 1 .. n /\ j \in 1 .. n
        BY <1>2
    <2>2. ~(i < j) /\ ~(j < i)
        <3>1. i \in 1 .. (j - 1) <=> i < j
            BY <2>1
        <3>2. j \in 1 .. (i - 1) <=> j < i
            BY <2>1
        <3> QED
            BY <1>1, <1>7, <2>1, <3>1, <3>2
    <2> QED
        BY <2>1, <2>2
<1> QED
    BY <1>2, <1>6, <1>7 DEF I

(* The shares of the channels add up to the rows. *)
LEMMA ByChannelFacts ==
    ASSUME NEW rows \in Seq(TableRow), NEW c \in Columns
    PROVE  /\ ByChannel(rows, c) \in Seq(Share)
           /\ Total(ByChannel(rows, c), "value") = Total(rows, c)
<1>1. PICK n \in Nat : n = Len(rows) /\ DOMAIN rows = 1 .. n
    OBVIOUS
<1> DEFINE I == FirstMet(rows)
           met == At(rows, I)
           Of(ch) == {i \in DOMAIN rows : rows[i].channel = ch}
<1>2. ByChannel(rows, c) = [k \in DOMAIN met |->
                              [name |-> met[k].channel, value |-> Total(At(rows, Of(met[k].channel)), c)]]
    BY Zenon DEF ByChannel, Keep, FirstMet
<1>3. /\ \A i \in 1 .. n : \E j \in I : rows[j].channel = rows[i].channel
      /\ \A i, j \in I : rows[i].channel = rows[j].channel => i = j
      /\ I \in SUBSET (1 .. n)
    BY <1>1, FirstMetFacts
<1> HIDE DEF I
<1>4. PICK q : Ascends(q, I) /\ met = [k \in 1 .. Cardinality(I) |-> rows[q[k]]]
    <2>1. I \in SUBSET (1 .. n)
        BY <1>3
    <2>2. PICK q : Takes(q, met, rows, I)
        BY <2>1, AtFacts
    <2> QED
        BY <2>2, Zenon DEF Takes
<1>5. PICK m \in Nat : m = Cardinality(I)
    BY <1>4 DEF Ascends
<1>6. /\ q \in [1 .. m -> I] /\ \A x \in I : \E k \in 1 .. m : q[k] = x
      /\ \A i, j \in 1 .. m : q[i] = q[j] => i = j
    BY <1>4, <1>5 DEF Ascends
<1>7. DOMAIN met = 1 .. m /\ \A k \in 1 .. m : met[k] = rows[q[k]]
    <2> HIDE DEF met
    <2> QED
        BY <1>4, <1>5
<1> HIDE DEF met
<1>8. PICK F : F = [i \in DOMAIN rows |-> rows[i][c]]
    OBVIOUS
<1>9. \A r \in TableRow : r[c] \in Nat /\ r.channel \in Nat
    BY RowType
<1>10. \A i \in 1 .. n : F[i] \in Nat /\ rows[i].channel \in Nat
    BY <1>1, <1>8, <1>9
<1>11. ASSUME NEW ch PROVE /\ Total(At(rows, Of(ch)), c) = SumFunctionOnSet(F, Of(ch))
                           /\ Total(At(rows, Of(ch)), c) \in Nat
    <2>1. \A r \in TableRow : r[c] \in Nat
        BY <1>9
    <2>2. Of(ch) \in SUBSET (DOMAIN rows)
        OBVIOUS
    <2> HIDE DEF Of
    <2> QED
        BY <1>8, <2>1, <2>2, TotalAt
<1>12. \A ch : Of(ch) = {i \in 1 .. n : rows[i].channel = ch}
    BY <1>1
<1> HIDE DEF Of
<1>13. PICK B : B = ByChannel(rows, c)
    OBVIOUS
<1>14. DOMAIN B = 1 .. m /\ \A k \in 1 .. m :
          B[k] = [name |-> rows[q[k]].channel, value |-> Total(At(rows, Of(rows[q[k]].channel)), c)]
    BY <1>2, <1>7, <1>13
<1>15. \A k \in 1 .. m : rows[q[k]].channel \in Nat
    BY <1>3, <1>6, <1>10
<1>16. \A k \in 1 .. m : B[k] \in Share /\ B[k].value = SumFunctionOnSet(F, Of(rows[q[k]].channel))
    BY <1>11, <1>14, <1>15 DEF Share
<1>17. B \in Seq(Share)
    <2>1. B \in [1 .. m -> Share]
        <3>1. B = [k \in 1 .. m |-> B[k]]
            BY <1>2, <1>7, <1>13
        <3> QED
            BY <1>16, <3>1
    <2> QED
        BY <2>1
<1>18. PICK pos : pos = [i \in 1 .. n |-> CHOOSE k \in 1 .. m : rows[q[k]].channel = rows[i].channel]
    OBVIOUS
<1>19. \A i \in 1 .. n : pos[i] \in 1 .. m /\ rows[q[pos[i]]].channel = rows[i].channel
    <2>1. SUFFICES ASSUME NEW i \in 1 .. n
                   PROVE  pos[i] \in 1 .. m /\ rows[q[pos[i]]].channel = rows[i].channel
        OBVIOUS
    <2>2. \E k \in 1 .. m : rows[q[k]].channel = rows[i].channel
        <3>1. PICK j \in I : rows[j].channel = rows[i].channel
            BY <1>3
        <3>2. PICK k \in 1 .. m : q[k] = j
            BY <1>6
        <3> QED
            BY <3>1, <3>2, Zenon
    <2>3. pos[i] = CHOOSE k \in 1 .. m : rows[q[k]].channel = rows[i].channel
        BY <1>18
    <2> QED
        BY <2>2, <2>3
<1>20. ASSUME NEW k \in 1 .. m
       PROVE  Of(rows[q[k]].channel) = {i \in 1 .. n : pos[i] = k}
    <2>1. \A i \in 1 .. n : rows[i].channel = rows[q[k]].channel <=> pos[i] = k
        <3>1. SUFFICES ASSUME NEW i \in 1 .. n PROVE rows[i].channel = rows[q[k]].channel <=> pos[i] = k
            OBVIOUS
        <3>2. PICK p \in 1 .. m : p = pos[i] /\ rows[q[p]].channel = rows[i].channel
            BY <1>19
        <3>3. q[p] \in I /\ q[k] \in I
            BY <1>6, <3>2
        <3>4. rows[q[p]].channel = rows[q[k]].channel => p = k
            <4>1. rows[q[p]].channel = rows[q[k]].channel => q[p] = q[k]
                BY <1>3, <3>3, Zenon
            <4>2. q[p] = q[k] => p = k
                BY <1>6
            <4> QED
                BY <4>1, <4>2
        <3> QED
            BY <3>2, <3>4
    <2> QED
        BY <1>12, <2>1
<1>21. PICK G : G = [k \in DOMAIN B |-> B[k].value]
    OBVIOUS
<1>22. \A k \in 1 .. m : G[k] = SumFunctionOnSet(F, {i \in 1 .. n : pos[i] = k})
    BY <1>14, <1>16, <1>20, <1>21
<1>23. InParts(G, 1 .. m, F, 1 .. n, pos)
    BY <1>10, <1>19, <1>22, UpToSize, Zenon DEF InParts
<1>24. SumFunctionOnSet(G, 1 .. m) = SumFunctionOnSet(F, 1 .. n)
    BY <1>23, SumOfParts
<1>25. Total(B, "value") = SumFunctionOnSet(G, 1 .. m)
    BY <1>14, <1>21, Zenon DEF Total, SumFunction
<1>26. Total(rows, c) = SumFunctionOnSet(F, 1 .. n)
    <2>1. \A r \in TableRow : r[c] \in Nat
        BY <1>9
    <2>2. Total(rows, c) = SumFunctionOnSet([i \in DOMAIN rows |-> rows[i][c]], DOMAIN rows)
        BY <2>1, TotalAll
    <2> QED
        BY <1>1, <1>8, <2>2
<1> QED
    BY <1>13, <1>17, <1>24, <1>25, <1>26

---------------------------------------------------------------------------
(* The numbers in the middle of the donuts. *)

(* Dropping what is not positive leaves the sum. *)
LEMMA TotalPositive ==
    ASSUME NEW X, NEW s \in Seq(X), NEW c, \A x \in X : x[c] \in Nat
    PROVE  Total(At(s, {i \in DOMAIN s : s[i][c] > 0}), c) = Total(s, c)
<1>1. PICK n \in Nat : n = Len(s) /\ DOMAIN s = 1 .. n
    OBVIOUS
<1>2. PICK I : I = {i \in DOMAIN s : s[i][c] > 0}
    OBVIOUS
<1>3. PICK F : F = [i \in DOMAIN s |-> s[i][c]]
    OBVIOUS
<1>4. \A i \in 1 .. n : F[i] \in Nat /\ F[i] = s[i][c]
    BY <1>1, <1>3
<1>5. I \in SUBSET (DOMAIN s) /\ I \in SUBSET (1 .. n)
    BY <1>1, <1>2
<1>6. \A i \in (1 .. n) \ I : F[i] = 0
    BY <1>1, <1>2, <1>4
<1>7. \A i \in 1 .. n : F[i] \in Nat
    BY <1>4
<1>8. IsFiniteSet(1 .. n)
    BY UpToSize
<1>9. SumFunctionOnSet(F, I) = SumFunctionOnSet(F, 1 .. n)
    BY <1>5, <1>6, <1>7, <1>8, SumSupport
<1>10. Total(At(s, I), c) = SumFunctionOnSet(F, I)
    BY <1>3, <1>5, TotalAt
<1>11. Total(s, c) = SumFunctionOnSet(F, 1 .. n)
    <2>1. Total(s, c) = SumFunctionOnSet([i \in DOMAIN s |-> s[i][c]], DOMAIN s)
        BY TotalAll
    <2> QED
        BY <1>1, <1>3, <2>1
<1> QED
    BY <1>2, <1>9, <1>10, <1>11

(* Lists with the same column have the same sum. *)
LEMMA TotalSame ==
    ASSUME NEW s, NEW t, NEW c, NEW d, DOMAIN s = DOMAIN t, \A i \in DOMAIN s : s[i][c] = t[i][d]
    PROVE  Total(s, c) = Total(t, d)
<1>1. [i \in DOMAIN s |-> s[i][c]] = [i \in DOMAIN t |-> t[i][d]]
    OBVIOUS
<1> QED
    BY <1>1, Zenon DEF Total

(* The donut of the campaigns: a slice for every channel, which add up to  *)
(* the rows.                                                               *)
LEMMA CampaignSlices ==
    ASSUME NEW rows \in Seq(TableRow), NEW c \in Columns
    PROVE  /\ campaignsPieOption(rows, c) \in Seq(Slice)
           /\ Total(campaignsPieOption(rows, c), "value") = Total(rows, c)
<1>1. PICK B \in Seq(Share) : B = ByChannel(rows, c) /\ Total(B, "value") = Total(rows, c)
    BY ByChannelFacts
<1>2. PICK kept : kept = Positive(B)
    OBVIOUS
<1>3. kept \in Seq(Share) /\ kept = At(B, {j \in DOMAIN B : B[j].value > 0})
    BY <1>2, PositiveList
<1>4. \A x \in Share : x.name \in Nat /\ x.value \in Nat
    BY DEF Share
<1>5. Total(kept, "value") = Total(B, "value")
    <2>1. \A x \in Share : x["value"] \in Nat
        BY <1>4
    <2>2. Total(At(B, {j \in DOMAIN B : B[j]["value"] > 0}), "value") = Total(B, "value")
        BY <2>1, TotalPositive
    <2> QED
        BY <1>3, <2>2
<1>6. PICK n \in Nat : n = Len(kept) /\ DOMAIN kept = 1 .. n
    <2>1. kept \in Seq(Share)
        BY <1>3
    <2> QED
        BY <2>1
<1>7. PICK pie : pie = campaignsPieOption(rows, c)
    OBVIOUS
<1>8. pie = [i \in DOMAIN kept |-> buildPieData(kept[i].name, kept[i].value, i)]
    BY <1>1, <1>2, <1>7, Zenon DEF campaignsPieOption
<1>9. \A i \in 1 .. n : pie[i] \in Slice /\ pie[i].value = kept[i].value
    <2>1. SUFFICES ASSUME NEW i \in 1 .. n PROVE pie[i] \in Slice /\ pie[i].value = kept[i].value
        OBVIOUS
    <2>2. kept[i] \in Share
        BY <1>3, <1>6
    <2>3. PICK name \in Nat : name = kept[i].name
        BY <1>4, <2>2
    <2>4. PICK value \in Nat : value = kept[i].value
        BY <1>4, <2>2
    <2>5. pie[i] = buildPieData(name, value, i) /\ i \in Nat
        BY <1>6, <1>8, <2>3, <2>4
    <2>6. buildPieData(name, value, i) \in Slice /\ buildPieData(name, value, i).value = value
        BY <2>5, PieDataType
    <2> QED
        BY <2>4, <2>5, <2>6, Zenon
<1>10. DOMAIN pie = 1 .. n
    BY <1>6, <1>8
<1>11. pie \in Seq(Slice)
    <2>1. pie = [i \in 1 .. n |-> pie[i]]
        BY <1>6, <1>8
    <2>2. pie \in [1 .. n -> Slice]
        BY <1>9, <2>1
    <2> QED
        BY <2>2
<1>12. Total(pie, "value") = Total(kept, "value")
    <2>1. DOMAIN pie = DOMAIN kept
        BY <1>6, <1>10
    <2>2. \A i \in DOMAIN pie : pie[i]["value"] = kept[i]["value"]
        BY <1>9, <1>10
    <2> QED
        BY <2>1, <2>2, TotalSame
<1> QED
    BY <1>1, <1>5, <1>7, <1>11, <1>12

(* The campaigns at the top of the tree add up to the rows. *)
LEMMA CampaignTotals ==
    ASSUME NEW a \in Response, NEW c \in Columns
    PROVE  CampaignTotal(a, c) = Total(a.rows, c)
<1>1. PICK rows \in Seq(TableRow) : rows = a.rows
    BY DEF Response
<1>2. PICK n \in Nat : n = Len(rows) /\ DOMAIN rows = 1 .. n
    BY <1>1
<1>3. PICK tree : tree = Tree(a)
    OBVIOUS
<1>4. MadeOf(tree, rows, n)
    BY <1>1, <1>2, <1>3, TreeMade DEF Tree
<1>5. /\ tree \in Trees
      /\ DOMAIN tree = UNION {Levelled(rows[i].path) : i \in 1 .. n}
      /\ \A m \in DOMAIN tree : tree[m][c] = SumFunctionOnSet(Puts(rows, m, c), 1 .. n)
    BY <1>4 DEF MadeOf
<1>6. PICK C : C = {m \in DOMAIN tree : Len(m) = 1}
    OBVIOUS
<1>7. PICK G : G = [m \in C |-> tree[m][c]]
    OBVIOUS
<1>8. CampaignTotal(a, c) = SumFunctionOnSet(G, C)
    <2>1. CampaignTotal(a, c) = SumFunction(G)
        BY <1>3, <1>6, <1>7, Zenon DEF CampaignTotal
    <2>2. DOMAIN G = C
        BY <1>7
    <2> QED
        BY <2>1, <2>2, Zenon DEF SumFunction
<1>9. PICK F : F = [i \in DOMAIN rows |-> rows[i][c]]
    OBVIOUS
<1>10. \A r \in TableRow : r[c] \in Nat /\ r.path \in Seq(Nat) /\ r.path # <<>>
    BY RowType
<1>11. \A i \in 1 .. n : F[i] \in Nat /\ F[i] = rows[i][c] /\ rows[i].path \in Seq(Nat) /\ rows[i].path # <<>>
    BY <1>2, <1>9, <1>10
<1>12. PICK k : k = [i \in 1 .. n |-> SubSeq(rows[i].path, 1, 1)]
    OBVIOUS
<1>13. \A p \in Seq(Nat) : p # <<>> =>
          /\ SubSeq(p, 1, 1) \in Levelled(p) /\ Len(SubSeq(p, 1, 1)) = 1
          /\ \A m \in Levelled(p) : Len(m) = 1 => m = SubSeq(p, 1, 1)
    <2>1. SUFFICES ASSUME NEW p \in Seq(Nat), p # <<>>
                   PROVE  /\ SubSeq(p, 1, 1) \in Levelled(p) /\ Len(SubSeq(p, 1, 1)) = 1
                          /\ \A m \in Levelled(p) : Len(m) = 1 => m = SubSeq(p, 1, 1)
        OBVIOUS
    <2>2. 1 \in 1 .. Len(p)
        <3>1. Len(p) \in Nat /\ Len(p) # 0
            BY <2>1
        <3> QED
            BY <3>1
    <2>3. \A j \in 1 .. Len(p) : Len(SubSeq(p, 1, j)) = j
        OBVIOUS
    <2> QED
        BY <2>2, <2>3, Zenon DEF Levelled
<1>14. ASSUME NEW i \in 1 .. n
       PROVE  /\ k[i] \in C /\ k[i] \in Levelled(rows[i].path)
              /\ \A m \in Levelled(rows[i].path) : Len(m) = 1 => m = k[i]
    <2>1. PICK p \in Seq(Nat) : p = rows[i].path /\ p # <<>>
        BY <1>11
    <2>2. k[i] = SubSeq(p, 1, 1)
        BY <1>12, <2>1
    <2>3. /\ k[i] \in Levelled(p) /\ Len(k[i]) = 1
          /\ \A m \in Levelled(p) : Len(m) = 1 => m = k[i]
        BY <1>13, <2>1, <2>2, Zenon
    <2>4. k[i] \in DOMAIN tree
        BY <1>5, <2>1, <2>3
    <2> QED
        BY <1>6, <2>1, <2>3, <2>4
<1>15. IsFiniteSet(1 .. n) /\ IsFiniteSet(C)
    <2>1. IsFiniteSet(DOMAIN tree) /\ C \in SUBSET (DOMAIN tree)
        BY <1>5, <1>6, TreeType
    <2> QED
        BY <2>1, FS_Subset, UpToSize
<1>16. ASSUME NEW m \in C
       PROVE  G[m] = SumFunctionOnSet(F, {i \in 1 .. n : k[i] = m})
    <2>1. PICK P : P = Puts(rows, m, c)
        OBVIOUS
    <2>2. PICK I : I = {i \in 1 .. n : k[i] = m}
        OBVIOUS
    <2>3. m \in DOMAIN tree /\ Len(m) = 1
        BY <1>6
    <2>4. G[m] = SumFunctionOnSet(P, 1 .. n)
        BY <1>5, <1>7, <2>1, <2>3
    <2>5. \A i \in 1 .. n : m \in Levelled(rows[i].path) <=> i \in I
        BY <1>14, <2>2, <2>3
    <2>6. \A i \in 1 .. n : P[i] = IF i \in I THEN F[i] ELSE 0
        BY <1>2, <1>11, <2>1, <2>5 DEF Puts
    <2>7. \A i \in 1 .. n : P[i] \in Nat
        BY <1>11, <2>6
    <2>8. I \in SUBSET (1 .. n) /\ \A i \in (1 .. n) \ I : P[i] = 0
        BY <2>2, <2>6
    <2>9. SumFunctionOnSet(P, I) = SumFunctionOnSet(P, 1 .. n)
        BY <1>15, <2>7, <2>8, SumSupport
    <2>10. IsFiniteSet(I) /\ \A i \in I : F[i] \in Nat /\ P[i] = F[i]
        BY <1>11, <1>15, <2>6, <2>8, FS_Subset
    <2>11. SumFunctionOnSet(P, I) = SumFunctionOnSet(F, I)
        BY <2>10, SumSame
    <2> QED
        BY <2>2, <2>4, <2>9, <2>11
<1>17. InParts(G, C, F, 1 .. n, k)
    BY <1>11, <1>14, <1>15, <1>16, Zenon DEF InParts
<1>18. SumFunctionOnSet(G, C) = SumFunctionOnSet(F, 1 .. n)
    BY <1>17, SumOfParts
<1>19. Total(rows, c) = SumFunctionOnSet(F, 1 .. n)
    <2>1. \A r \in TableRow : r[c] \in Nat
        BY <1>10
    <2>2. Total(rows, c) = SumFunctionOnSet([i \in DOMAIN rows |-> rows[i][c]], DOMAIN rows)
        BY <2>1, TotalAll
    <2> QED
        BY <1>2, <1>9, <2>2
<1> QED
    BY <1>1, <1>8, <1>18, <1>19

(* The slices of the sources add up to the entries. *)
LEMMA SourceSlices ==
    ASSUME NEW top \in Seq(TopEntry), NEW c \in Columns
    PROVE  Total(viewsPieOption(top, c), "value") = Total(top, c)
<1>1. PICK t \in Seq(TopEntry) :
        viewsPieOption(top, c) = Entries(t, c) /\ t = At(top, {i \in DOMAIN top : top[i][c] > 0})
    BY KeptEntries
<1>2. Total(Entries(t, c), "value") = Total(t, c)
    <2>1. DOMAIN Entries(t, c) = DOMAIN t /\ \A i \in DOMAIN t : Entries(t, c)[i]["value"] = t[i][c]
        BY EntriesFacts
    <2> QED
        BY <2>1, TotalSame
<1>3. \A e \in TopEntry : e[c] \in Nat
    BY EntryType
<1>4. Total(t, c) = Total(top, c)
    BY <1>1, <1>3, TotalPositive
<1> QED
    BY <1>1, <1>2, <1>4

(* The total of the places a .. b is a sum over these places. *)
CutTotal(s, c, a, b) ==
    Total(SubSeq(s, a, b), c) = SumFunctionOnSet([i \in DOMAIN s |-> s[i][c]], a .. b)

(* The sum over a part of a list that is cut out. *)
LEMMA TotalCut ==
    ASSUME NEW X, NEW s \in Seq(X), NEW c, \A x \in X : x[c] \in Nat,
           NEW a \in Nat, a >= 1, NEW b \in Nat, b <= Len(s)
    PROVE  CutTotal(s, c, a, b)
<1>0. SUFFICES Total(SubSeq(s, a, b), c) = SumFunctionOnSet([i \in DOMAIN s |-> s[i][c]], a .. b)
    BY Zenon DEF CutTotal
<1>1. PICK n \in Nat : n = Len(s) /\ DOMAIN s = 1 .. n
    OBVIOUS
<1>2. PICK F : F = [i \in DOMAIN s |-> s[i][c]]
    OBVIOUS
<1>3. PICK t : t = SubSeq(s, a, b)
    OBVIOUS
<1>4. PICK m \in Nat : m = IF a <= b THEN b - a + 1 ELSE 0
    <2>1. (IF a <= b THEN b - a + 1 ELSE 0) \in Nat
        OBVIOUS
    <2> QED
        BY <2>1
<1>5. DOMAIN t = 1 .. m /\ \A i \in 1 .. m : t[i] = s[i + a - 1]
    BY <1>1, <1>3, <1>4
<1>6. PICK q : q = [i \in 1 .. m |-> i + a - 1]
    OBVIOUS
<1>7. /\ q \in [1 .. m -> a .. b]
      /\ \A i, j \in 1 .. m : q[i] = q[j] => i = j
      /\ \A x \in a .. b : \E i \in 1 .. m : q[i] = x
    <2>1. \A i \in 1 .. m : q[i] = i + a - 1 /\ q[i] \in a .. b
        BY <1>4, <1>6
    <2>2. ASSUME NEW x \in a .. b PROVE \E i \in 1 .. m : q[i] = x
        <3>1. x - a + 1 \in 1 .. m /\ (x - a + 1) + a - 1 = x
            BY <1>4
        <3> QED
            BY <2>1, <3>1
    <2>3. q \in [1 .. m -> a .. b]
        BY <1>6, <2>1
    <2>4. \A i, j \in 1 .. m : q[i] = q[j] => i = j
        BY <2>1
    <2> QED
        BY <2>2, <2>3, <2>4
<1>8. \A x \in a .. b : F[x] \in Nat /\ F[x] = s[x][c]
    BY <1>1, <1>2
<1>9. PICK G : G = [i \in DOMAIN t |-> t[i][c]]
    OBVIOUS
<1>10. \A i \in 1 .. m : G[i] = F[q[i]]
    <2>1. \A i \in 1 .. m : q[i] = i + a - 1 /\ q[i] \in a .. b
        BY <1>6, <1>7
    <2> QED
        BY <1>5, <1>8, <1>9, <2>1
<1>11. IsFiniteSet(1 .. m) /\ IsFiniteSet(a .. b)
    BY UpToSize, FS_Interval
<1>12. \A x \in a .. b : F[x] \in Nat
    BY <1>8
<1>13. Renamed(G, 1 .. m, F, a .. b, q)
    BY <1>7, <1>10, <1>11, <1>12 DEF Renamed
<1>14. SumFunctionOnSet(G, 1 .. m) = SumFunctionOnSet(F, a .. b)
    BY <1>13, SumRenamed
<1>15. Total(t, c) = SumFunctionOnSet(G, 1 .. m)
    BY <1>5, <1>9, Zenon DEF Total, SumFunction
<1> QED
    BY <1>2, <1>3, <1>14, <1>15

(* One more at the end. *)
LEMMA TotalAppend ==
    ASSUME NEW X, NEW s \in Seq(X), NEW c, \A x \in X : x[c] \in Nat, NEW e \in X
    PROVE  Total(Append(s, e), c) = Total(s, c) + e[c]
<1>1. PICK n \in Nat : n = Len(s) /\ DOMAIN s = 1 .. n
    OBVIOUS
<1>2. PICK t \in Seq(X) : t = Append(s, e)
    <2>1. Append(s, e) \in Seq(X)
        OBVIOUS
    <2> QED
        BY <2>1
<1>3. Len(t) = n + 1 /\ DOMAIN t = 1 .. (n + 1) /\ (\A i \in 1 .. n : t[i] = s[i]) /\ t[n + 1] = e
    BY <1>1, <1>2
<1>4. PICK F : F = [i \in DOMAIN t |-> t[i][c]]
    OBVIOUS
<1>5. \A i \in 1 .. (n + 1) : F[i] = t[i][c] /\ F[i] \in Nat
    <2>1. \A i \in 1 .. (n + 1) : t[i] \in X
        BY <1>2, <1>3
    <2> QED
        BY <1>3, <1>4, <2>1
<1>6. \A i \in 1 .. (n + 1) : F[i] \in Nat
    BY <1>5
<1>7. IsFiniteSet(1 .. (n + 1)) /\ IsFiniteSet(1 .. n)
    BY UpToSize
<1>8. /\ 1 .. n \in SUBSET (1 .. (n + 1)) /\ n + 1 \in 1 .. (n + 1) /\ n + 1 \notin 1 .. n
      /\ 1 .. (n + 1) = (1 .. n) \cup {n + 1}
    OBVIOUS
<1>9. SumFunctionOnSet(F, (1 .. n) \cup {n + 1}) = F[n + 1] + SumFunctionOnSet(F, 1 .. n)
    <2> DEFINE T == 1 .. n
               D == 1 .. (n + 1)
               x == n + 1
    <2>1. T \in SUBSET D /\ x \in D /\ x \notin T /\ IsFiniteSet(D) /\ \A i \in D : F[i] \in Nat
        BY <1>6, <1>7, <1>8
    <2> HIDE DEF T, D, x
    <2>2. SumFunctionOnSet(F, T \cup {x}) = F[x] + SumFunctionOnSet(F, T)
        BY <2>1, SumAdd
    <2> QED
        BY <2>2 DEF T, x
<1>10. Total(t, c) = SumFunctionOnSet(F, 1 .. (n + 1))
    <2>1. Total(t, c) = SumFunctionOnSet([i \in DOMAIN t |-> t[i][c]], DOMAIN t)
        BY TotalAll
    <2> QED
        BY <1>3, <1>4, <2>1
<1>11. PICK G : G = [i \in DOMAIN s |-> s[i][c]]
    OBVIOUS
<1>12. Total(s, c) = SumFunctionOnSet(G, 1 .. n) /\ Total(s, c) \in Nat
    <2>1. Total(s, c) = SumFunctionOnSet([i \in DOMAIN s |-> s[i][c]], DOMAIN s) /\ Total(s, c) \in Nat
        BY TotalAll
    <2> QED
        BY <1>1, <1>11, <2>1
<1>13. \A i \in 1 .. n : F[i] \in Nat /\ G[i] = F[i]
    <2>1. \A i \in 1 .. n : i \in 1 .. (n + 1) /\ G[i] = s[i][c]
        BY <1>1, <1>11
    <2> QED
        BY <1>3, <1>5, <2>1
<1>14. SumFunctionOnSet(G, 1 .. n) = SumFunctionOnSet(F, 1 .. n)
    BY <1>7, <1>13, SumSame
<1>15. F[n + 1] = e[c] /\ e[c] \in Nat
    BY <1>3, <1>5, <1>8
<1>16. Total(t, c) = F[n + 1] + SumFunctionOnSet(F, 1 .. n)
    BY <1>8, <1>9, <1>10, Zenon
<1>17. Total(t, c) = Total(s, c) + e[c]
    BY <1>12, <1>14, <1>15, <1>16
<1> QED
    BY <1>2, <1>17

(* Sorting leaves the sum. *)
LEMMA TotalRanked ==
    ASSUME NEW data \in Seq(Slice)
    PROVE  Total(Ranked(data), "value") = Total(data, "value")
<1>1. PICK n \in Nat : n = Len(data) /\ DOMAIN data = 1 .. n
    OBVIOUS
<1>2. PICK q : /\ q \in [1 .. n -> 1 .. n]
               /\ \A i \in 1 .. n : \E k \in 1 .. n : q[k] = i
               /\ \A i, j \in 1 .. n : q[i] = q[j] => i = j
               /\ Ranked(data) = [k \in 1 .. n |-> data[q[k]]]
    <2>1. PICK q : Permutes(q, n) /\ Ranked(data) = [k \in 1 .. n |-> data[q[k]]]
        BY <1>1, RankedFacts
    <2> QED
        BY <2>1 DEF Permutes
<1>3. PICK t : t = Ranked(data)
    OBVIOUS
<1>4. DOMAIN t = 1 .. n /\ \A k \in 1 .. n : t[k] = data[q[k]]
    BY <1>2, <1>3
<1>5. PICK F : F = [i \in DOMAIN data |-> data[i]["value"]]
    OBVIOUS
<1>6. \A i \in 1 .. n : F[i] \in Nat
    <2>1. \A i \in 1 .. n : data[i] \in Slice
        BY <1>1
    <2> QED
        BY <1>1, <1>5, <2>1, SliceType
<1>7. PICK G : G = [k \in DOMAIN t |-> t[k]["value"]]
    OBVIOUS
<1>8. \A k \in 1 .. n : G[k] = F[q[k]]
    <2>1. \A k \in 1 .. n : q[k] \in 1 .. n
        BY <1>2
    <2> QED
        BY <1>1, <1>4, <1>5, <1>7, <2>1
<1>9. Renamed(G, 1 .. n, F, 1 .. n, q)
    BY <1>2, <1>6, <1>8, UpToSize, Zenon DEF Renamed
<1>10. SumFunctionOnSet(G, 1 .. n) = SumFunctionOnSet(F, 1 .. n)
    BY <1>9, SumRenamed
<1>11. Total(t, "value") = SumFunctionOnSet(G, 1 .. n)
    BY <1>4, <1>7, Zenon DEF Total, SumFunction
<1>12. Total(data, "value") = SumFunctionOnSet(F, 1 .. n)
    BY <1>1, <1>5, Zenon DEF Total, SumFunction
<1> QED
    BY <1>3, <1>10, <1>11, <1>12

(* The slices of the countries, the others included, add up to the entries. *)
LEMMA CountrySlices ==
    ASSUME NEW top \in Seq(TopEntry), NEW c \in Columns
    PROVE  Total(pieOption(top, c), "value") = Total(top, c)
<1>1. PICK data : data = Entries(top, c)
    OBVIOUS
<1>2. data \in Seq(Slice) /\ DOMAIN data = DOMAIN top /\ \A i \in DOMAIN data : data[i]["value"] = top[i][c]
    BY <1>1, EntriesFacts
<1>3. Total(data, "value") = Total(top, c)
    BY <1>2, TotalSame
<1>4. \A x \in Slice : x["value"] \in Nat
    BY SliceType
<1>5. PICK pos \in Seq(Slice) : pos = Positive(data) /\ Total(pos, "value") = Total(data, "value")
    <2>1. /\ Positive(data) \in Seq(Slice)
          /\ Positive(data) = At(data, {j \in DOMAIN data : data[j]["value"] > 0})
        BY <1>2, PositiveList
    <2>2. Total(At(data, {j \in DOMAIN data : data[j]["value"] > 0}), "value") = Total(data, "value")
        BY <1>2, <1>4, TotalPositive
    <2> QED
        BY <2>1, <2>2
<1>6. PICK sliced \in Seq(Slice) : sliced = Ranked(pos) /\ Total(sliced, "value") = Total(pos, "value")
    BY <1>5, RankedList, TotalRanked
<1>7. PICK n \in Nat : n = Len(sliced) /\ DOMAIN sliced = 1 .. n
    OBVIOUS
<1>8. PICK N \in Nat : N = TopN /\ N >= 1
    BY ReportsConstants
<1>9. PICK tail \in Nat : \E j \in 0 .. Len(sliced) : PieOf(pieOption(top, c), sliced, tail, j)
    <2>1. sliced = Ranked(Positive(Entries(top, c)))
        BY <1>1, <1>5, <1>6
    <2> QED
        BY <2>1, PieShape
<1>10. PICK j \in 0 .. n :
              /\ tail = Total(SubSeq(sliced, N, n), "value")
              /\ j <= N - 1 /\ (j < N - 1 => j = n)
              /\ pieOption(top, c) = IF tail > 0 THEN Append(SubSeq(sliced, 1, j), Others(tail))
                                     ELSE SubSeq(sliced, 1, j)
              /\ Others(tail) \in Slice
    BY <1>7, <1>8, <1>9 DEF PieOf
<1>11. PICK F : F = [i \in DOMAIN sliced |-> sliced[i]["value"]]
    OBVIOUS
<1>12. \A i \in 1 .. n : F[i] \in Nat
    <2>1. \A i \in 1 .. n : sliced[i] \in Slice
        BY <1>7
    <2> QED
        BY <1>4, <1>7, <1>11, <2>1
<1>13. PICK f \in Seq(Slice) : f = SubSeq(sliced, 1, j)
    <2>1. SubSeq(sliced, 1, j) \in Seq(Slice)
        BY <1>7
    <2> QED
        BY <2>1
<1>14. Total(f, "value") = SumFunctionOnSet(F, 1 .. j)
    <2>1. j \in Nat /\ j <= Len(sliced) /\ 1 \in Nat /\ 1 >= 1
        BY <1>7
    <2>2. CutTotal(sliced, "value", 1, j)
        BY <1>4, <2>1, TotalCut
    <2> QED
        BY <1>11, <1>13, <2>2, Zenon DEF CutTotal
<1>15. tail = SumFunctionOnSet(F, N .. n)
    <2>1. n \in Nat /\ n <= Len(sliced)
        BY <1>7
    <2>2. CutTotal(sliced, "value", N, n)
        BY <1>4, <1>8, <2>1, TotalCut
    <2> QED
        BY <1>10, <1>11, <2>2, Zenon DEF CutTotal
<1>16. IsFiniteSet(1 .. n)
    BY UpToSize
<1>17. /\ 1 .. j \in SUBSET (1 .. n) /\ N .. n \in SUBSET (1 .. n) /\ (1 .. j) \cap (N .. n) = {}
       /\ (1 .. j) \cup (N .. n) = 1 .. n
    BY <1>8, <1>10
<1>18. SumFunctionOnSet(F, (1 .. j) \cup (N .. n)) = SumFunctionOnSet(F, 1 .. j) + SumFunctionOnSet(F, N .. n)
    <2> DEFINE A == 1 .. j
               B == N .. n
               D == 1 .. n
    <2>1. A \in SUBSET D /\ B \in SUBSET D /\ A \cap B = {} /\ IsFiniteSet(D) /\ \A i \in D : F[i] \in Nat
        BY <1>12, <1>16, <1>17
    <2> HIDE DEF A, B, D
    <2>2. SumFunctionOnSet(F, A \cup B) = SumFunctionOnSet(F, A) + SumFunctionOnSet(F, B)
        BY <2>1, SumUnion
    <2> QED
        BY <2>2 DEF A, B
<1>19. Total(sliced, "value") = SumFunctionOnSet(F, 1 .. n)
    BY <1>7, <1>11, Zenon DEF Total, SumFunction
<1>20. Total(sliced, "value") = Total(f, "value") + tail
    BY <1>14, <1>15, <1>17, <1>18, <1>19, Zenon
<1>21. Total(f, "value") \in Nat
    BY <1>4, <1>13, TotalAll
<1>22. Total(pieOption(top, c), "value") = Total(f, "value") + tail
    <2>1. CASE tail > 0
        <3>1. pieOption(top, c) = Append(f, Others(tail))
            BY <1>10, <1>13, <2>1
        <3>2. Total(Append(f, Others(tail)), "value") = Total(f, "value") + Others(tail)["value"]
            <4>1. Others(tail) \in Slice
                BY <1>10
            <4> QED
                BY <1>4, <4>1, TotalAppend
        <3>3. Others(tail)["value"] = tail
            BY DEF Others
        <3> QED
            BY <3>1, <3>2, <3>3
    <2>2. CASE ~(tail > 0)
        <3>1. pieOption(top, c) = f /\ tail = 0
            BY <1>9, <1>10, <1>13, <2>2
        <3> QED
            BY <1>21, <3>1
    <2> QED
        BY <2>1, <2>2
<1> QED
    BY <1>3, <1>5, <1>6, <1>20, <1>22

(* The number in the middle of a donut, or under it, is the sum of its     *)
(* slices, the slice of the others included (campaignsPieOption,           *)
(* viewsPieOption and pieOption in web/src), for every answer and every    *)
(* number of slices.                                                       *)
THEOREM CentresAddUp == Spec => []CentreIsSum
<1>1. TypeOK => CentreIsSum
    <2>1. SUFFICES ASSUME TypeOK PROVE CentreIsSum
        OBVIOUS
    <2> DEFINE a == view.answer
               m == CampaignMetric(a)
    <2>2. /\ a \in Response /\ a.rows \in Seq(TableRow) /\ a.top \in Seq(TopEntry)
          /\ view.metric \in Columns /\ m \in Columns
        BY <2>1, ViewFields DEF CampaignMetric, Columns
    <2> HIDE DEF m
    <2>3. CampaignTotal(a, m) = Total(campaignsPieOption(a.rows, m), "value")
        BY <2>2, CampaignTotals, CampaignSlices
    <2>4. \A c \in {"views", "revenue"} : ChannelTotal(a, c) = Total(viewsPieOption(a.top, c), "value")
        <3>1. \A c \in Columns : Total(viewsPieOption(a.top, c), "value") = Total(a.top, c)
            BY <2>2, SourceSlices
        <3>2. {"views", "revenue"} \subseteq Columns
            BY DEF Columns
        <3> QED
            BY <3>1, <3>2 DEF ChannelTotal
    <2>5. CountryTotal(a, view.metric) = Total(pieOption(a.top, view.metric), "value")
        BY <2>2, CountrySlices DEF CountryTotal
    <2> QED
        BY <2>3, <2>4, <2>5, Zenon DEF CentreIsSum, m
<1> QED
    BY <1>1, ViewsTyped, PTL

(* A named slice is on the list beside its donut with its value, and with  *)
(* its hue unless it is a source the palette does not know (web/src/lib/   *)
(* chart.ts and the panels), for every answer.                             *)
THEOREM SlicesOnList == Spec => []SlicesListed
<1>1. TypeOK => SlicesListed
    <2>1. SUFFICES ASSUME TypeOK PROVE SlicesListed
        OBVIOUS
    <2> DEFINE a == view.answer
               m == CampaignMetric(a)
    <2>2. /\ a.rows \in Seq(TableRow) /\ a.top \in Seq(TopEntry)
          /\ view.metric \in Columns /\ m \in Columns
        BY <2>1, ViewFields DEF CampaignMetric, Columns
    <2> HIDE DEF m
    <2>3. OnList(campaignsPieOption(a.rows, m), ChannelSummary(a.rows, m), {})
        <3>1. campaignsPieOption(a.rows, m) \in Seq(Slice)
            BY <2>2, CampaignSlices
        <3>2. Range(ChannelSummary(a.rows, m)) = Range(campaignsPieOption(a.rows, m))
            BY <3>1, RankedList DEF ChannelSummary
        <3> QED
            BY <3>2 DEF OnList
    <2>4. \A c \in {"views", "revenue"} :
             OnList(viewsPieOption(a.top, c), summary(a.top, c), {a.top[i].name : i \in DOMAIN a.top} \ Known)
        <3>1. {"views", "revenue"} \subseteq Columns
            BY DEF Columns
        <3> QED
            BY <2>2, <3>1, SourcesListed
    <2>5. OnList(pieOption(a.top, view.metric), pieRows(a.top, view.metric), {})
        BY <2>2, CountriesListed
    <2> QED
        BY <2>3, <2>4, <2>5, Zenon DEF SlicesListed, OnList, m
<1> QED
    BY <1>1, ViewsTyped, PTL

=============================================================================
