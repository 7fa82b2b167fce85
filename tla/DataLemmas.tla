----------------------------- MODULE DataLemmas -----------------------------
(***************************************************************************)
(* Lemmas about the data the web client's models compute with: folds and   *)
(* sums over finite sets and sequences, sorted and filtered lists.         *)
(*                                                                         *)
(* Each recursion is met once, here.  A fold over a set is shown to exist  *)
(* and to satisfy its recursion by induction on the cardinality, with a    *)
(* set of naturals in the place of the induction hypothesis (NatInduct);   *)
(* the proofs elsewhere cite what a fold, a sum or a list is, and never    *)
(* how it was computed.                                                    *)
(***************************************************************************)
EXTENDS Lists, SequencesExt, FiniteSetTheorems, WellFoundedInduction, TLAPS

(* Induction: a set of naturals that holds 0 and every successor of its    *)
(* members holds all.                                                      *)
LEMMA NatInduct ==
  ASSUME NEW S, 0 \in S, \A n \in Nat : n \in S => n + 1 \in S
  PROVE  \A n \in Nat : n \in S
<1>. DEFINE R == {ss \in Nat \X Nat : ss[1] < ss[2]}
            T == Nat \ S
<1>0. IsWellFoundedOn(R, Nat)
  BY NatLessThanWellFounded, Zenon DEF OpToRel
<1>1. SUFFICES ASSUME T # {} PROVE FALSE
  BY Zenon
<1>2. PICK x \in T : \A y \in T : ~(<<y, x>> \in R)
  <2>1. T \subseteq Nat
    OBVIOUS
  <2>. HIDE DEF R, T
  <2>. QED  BY <1>0, <1>1, <2>1, WFMin, Zenon
<1>3. x \in Nat /\ x # 0 /\ x - 1 \in Nat /\ x - 1 < x
  OBVIOUS
<1>4. x - 1 \in T
  BY <1>3
<1>5. <<x - 1, x>> \in R
  BY <1>3
<1>. QED  BY <1>2, <1>4, <1>5

(* f is the fold over the subsets of D that takes the members in the order *)
(* of c and applies their functions g to base.                             *)
IsFold(f, D, X, base, c, g) ==
    /\ f \in [SUBSET D -> X]
    /\ \A s \in SUBSET D : f[s] = IF s = {} THEN base ELSE g[c[s]][f[s \ {c[s]}]]

(* A fold over a finite set is well defined: the recursion picks a member  *)
(* of the set, and the set without it is smaller.                          *)
LEMMA FoldExists ==
  ASSUME NEW D, IsFiniteSet(D), NEW X, NEW base \in X,
         NEW c, \A s \in SUBSET D : s # {} => c[s] \in s,
         NEW g \in [D -> [X -> X]]
  PROVE  \E f : IsFold(f, D, X, base, c, g)
<1>. DEFINE Rec(f, s) == IF s = {} THEN base ELSE g[c[s]][f[s \ {c[s]}]]
            S == {n \in Nat : \E f \in [SUBSET D -> X] :
                                \A s \in SUBSET D : Cardinality(s) <= n => f[s] = Rec(f, s)}
<1>0. \A s \in SUBSET D : IsFiniteSet(s) /\ Cardinality(s) \in Nat /\ (Cardinality(s) = 0 => s = {})
  BY FS_Subset, FS_CardinalityType, FS_EmptySet
<1>1. 0 \in S
  <2>. DEFINE f == [s \in SUBSET D |-> base]
  <2>1. f \in [SUBSET D -> X]
    OBVIOUS
  <2>2. ASSUME NEW s \in SUBSET D, Cardinality(s) <= 0 PROVE f[s] = Rec(f, s)
    <3>1. s = {}
      BY <1>0, <2>2
    <3>. QED  BY <3>1
  <2>. QED  BY <2>1, <2>2
<1>2. ASSUME NEW n \in Nat, n \in S PROVE n + 1 \in S
  <2>1. PICK f \in [SUBSET D -> X] : \A s \in SUBSET D : Cardinality(s) <= n => f[s] = Rec(f, s)
    BY <1>2
  <2>. DEFINE h == [s \in SUBSET D |-> Rec(f, s)]
  <2>2. \A s \in SUBSET D : Rec(f, s) \in X
    OBVIOUS
  <2>3. h \in [SUBSET D -> X]
    BY <2>2
  <2>4. ASSUME NEW s \in SUBSET D, Cardinality(s) <= n + 1 PROVE h[s] = Rec(h, s)
    <3>1. CASE s = {}
      BY <3>1
    <3>2. CASE s # {}
      <4>1. c[s] \in s /\ s \ {c[s]} \in SUBSET D
        BY <3>2
      <4>2. Cardinality(s \ {c[s]}) <= n
        <5>1. IsFiniteSet(s) /\ Cardinality(s) \in Nat
          BY <1>0
        <5>2. \A x \in s : Cardinality(s \ {x}) = Cardinality(s) - 1
          <6>. TAKE x \in s
          <6>. HIDE DEF Rec, h
          <6>. QED  BY <5>1, FS_RemoveElement
        <5>. QED  BY <2>4, <4>1, <5>1, <5>2
      <4>3. f[s \ {c[s]}] = h[s \ {c[s]}]
        BY <2>1, <4>1, <4>2
      <4>. QED  BY <3>2, <4>3
    <3>. QED  BY <3>1, <3>2
  <2>5. \E r \in [SUBSET D -> X] :
            \A s \in SUBSET D : Cardinality(s) <= n + 1 => r[s] = Rec(r, s)
    <3>. HIDE DEF h, Rec
    <3>. QED  BY <2>3, <2>4
  <2>6. n + 1 \in Nat
    OBVIOUS
  <2>. HIDE DEF Rec
  <2>. QED  BY <2>5, <2>6, Zenon
<1>3. \A n \in Nat : n \in S
  <2>. HIDE DEF S
  <2>. QED  BY <1>1, <1>2, NatInduct
<1>4. Cardinality(D) \in S
  BY <1>3, FS_CardinalityType
<1>5. PICK f \in [SUBSET D -> X] : \A s \in SUBSET D : Cardinality(s) <= Cardinality(D) => f[s] = Rec(f, s)
  BY <1>4
<1>6. \A s \in SUBSET D : Cardinality(s) <= Cardinality(D)
  BY FS_Subset
<1>. QED  BY <1>5, <1>6 DEF IsFold


(* The largest member of a set of positions. *)
LEMMA MaxFacts ==
  ASSUME NEW n \in Nat, NEW s \in SUBSET (1 .. n), s # {}
  PROVE  Max(s) \in s /\ \A y \in s : Max(s) >= y
<1>. DEFINE S == {m \in Nat : \A t \in SUBSET (1 .. m) : t # {} => \E x \in t : \A y \in t : x >= y}
<1>1. 0 \in S
  <2>1. 1 .. 0 = {}
    OBVIOUS
  <2>. QED  BY <2>1
<1>2. ASSUME NEW m \in Nat, m \in S PROVE m + 1 \in S
  <2>1. SUFFICES ASSUME NEW t \in SUBSET (1 .. (m + 1)), t # {}
                 PROVE  \E x \in t : \A y \in t : x >= y
    OBVIOUS
  <2>2. CASE m + 1 \in t
    BY <2>2
  <2>3. CASE m + 1 \notin t
    <3>1. t \in SUBSET (1 .. m)
      BY <2>3
    <3>. QED  BY <1>2, <2>1, <3>1
  <2>. QED  BY <2>2, <2>3
<1>3. \A m \in Nat : m \in S
  <2>. HIDE DEF S
  <2>. QED  BY <1>1, <1>2, NatInduct
<1>4. \E x \in s : \A y \in s : x >= y
  BY <1>3
<1>. QED  BY <1>4 DEF Max

(* The first k positions, and the step from k - 1 to k. *)
LEMMA UpTo ==
  ASSUME NEW n \in Nat, NEW k \in 1 .. n
  PROVE  /\ 1 .. k \in SUBSET (1 .. n) /\ 1 .. k # {}
         /\ Max(1 .. k) = k /\ (1 .. k) \ {k} = 1 .. (k - 1)
         /\ 1 .. (k - 1) \in SUBSET (1 .. n) /\ k - 1 \in 0 .. n
<1>1. 1 .. k \in SUBSET (1 .. n) /\ 1 .. k # {}
  OBVIOUS
<1>2. Max(1 .. k) \in 1 .. k /\ \A y \in 1 .. k : Max(1 .. k) >= y
  BY <1>1, MaxFacts
<1>. QED  BY <1>1, <1>2

(* There are n positions up to n. *)
LEMMA UpToSize ==
  ASSUME NEW n \in Nat
  PROVE  IsFiniteSet(1 .. n) /\ Cardinality(1 .. n) = n
BY FS_Interval

(* f is the recursion FoldLeft is defined by, over the first n positions. *)
IsFoldLeft(f, n, X, base, g) ==
    /\ f \in [SUBSET (1 .. n) -> X]
    /\ \A s \in SUBSET (1 .. n) : f[s] = IF s = {} THEN base ELSE g[Max(s)][f[s \ {Max(s)}]]

(* FoldLeft is well defined: there is a function that satisfies the        *)
(* recursion it is defined by.                                             *)
LEMMA FoldLeftExists ==
  ASSUME NEW n \in Nat, NEW X, NEW base \in X, NEW g \in [1 .. n -> [X -> X]]
  PROVE  \E f : IsFoldLeft(f, n, X, base, g)
<1>. DEFINE D == 1 .. n
            c == [s \in SUBSET D |-> Max(s)]
<1>1. \A s \in SUBSET D : c[s] = Max(s) /\ (s # {} => c[s] \in s)
  BY MaxFacts
<1>2. IsFiniteSet(D)
  BY FS_Interval
<1>3. g \in [D -> [X -> X]]
  OBVIOUS
<1>. HIDE DEF c, D
<1>4. PICK f : IsFold(f, D, X, base, c, g)
  <2>1. \A s \in SUBSET D : s # {} => c[s] \in s
    BY <1>1
  <2>. QED  BY <1>2, <1>3, <2>1, FoldExists, Zenon
<1>5. \A s \in SUBSET D : f[s] = IF s = {} THEN base ELSE g[Max(s)][f[s \ {Max(s)}]]
  BY <1>1, <1>4 DEF IsFold
<1>6. f \in [SUBSET D -> X]
  BY <1>4 DEF IsFold
<1>. QED  BY <1>5, <1>6, Zenon DEF D, IsFoldLeft

(* Induction over the subsets of a finite set. *)
LEMMA SetInduct ==
  ASSUME NEW D, IsFiniteSet(D), NEW P, {} \in P,
         \A T \in SUBSET D, x \in D : T \in P /\ x \notin T => T \cup {x} \in P
  PROVE  \A T \in SUBSET D : T \in P
<1>. DEFINE S == {n \in Nat : \A T \in SUBSET D : Cardinality(T) = n => T \in P}
<1>0. \A T \in SUBSET D : IsFiniteSet(T) /\ Cardinality(T) \in Nat /\ (Cardinality(T) = 0 => T = {})
  BY FS_Subset, FS_CardinalityType, FS_EmptySet
<1>1. 0 \in S
  BY <1>0
<1>2. ASSUME NEW n \in Nat, n \in S PROVE n + 1 \in S
  <2>1. ASSUME NEW T \in SUBSET D, Cardinality(T) = n + 1 PROVE T \in P
    <3>1. T # {}
      <4>1. n + 1 # 0
        OBVIOUS
      <4>. QED  BY <2>1, <4>1, FS_EmptySet, Zenon
    <3>2. PICK x \in T : TRUE
      BY <3>1
    <3>3. Cardinality(T \ {x}) = n /\ T \ {x} \in SUBSET D
      <4>1. IsFiniteSet(T)
        BY <1>0
      <4>2. Cardinality(T \ {x}) = Cardinality(T) - 1
        BY <4>1, FS_RemoveElement
      <4>. QED  BY <2>1, <4>2
    <3>4. T \ {x} \in P
      BY <1>2, <3>3
    <3>5. (T \ {x}) \cup {x} = T /\ x \in D
      OBVIOUS
    <3>. QED  BY <3>3, <3>4, <3>5
  <2>. QED  BY <2>1
<1>3. \A n \in Nat : n \in S
  <2>. HIDE DEF S
  <2>. QED  BY <1>1, <1>2, NatInduct
<1>. QED  BY <1>0, <1>3

(* A strict total order on S. *)
Orders(R, S) ==
    /\ \A x \in S : <<x, x>> \notin R
    /\ \A x, y, z \in S : <<x, y>> \in R /\ <<y, z>> \in R => <<x, z>> \in R
    /\ \A x, y \in S : x # y => <<x, y>> \in R \/ <<y, x>> \in R

(* Those before x. *)
Down(R, S, x) == {y \in S : <<y, x>> \in R}

(* order lists the members of S once each, in the order R. *)
Enumerates(order, R, S) ==
    /\ order \in [1 .. Cardinality(S) -> S]
    /\ \A x \in S : \E k \in 1 .. Cardinality(S) : order[k] = x
    /\ \A i, j \in 1 .. Cardinality(S) : i < j => <<order[i], order[j]>> \in R
    /\ \A i, j \in 1 .. Cardinality(S) : order[i] = order[j] => i = j

(* The number of those before an element is its place: the places are      *)
(* different, and none is left out.                                        *)
LEMMA PlaceFacts ==
  ASSUME NEW S, IsFiniteSet(S), NEW R, Orders(R, S),
         NEW order, order = [k \in 1 .. Cardinality(S) |->
                               CHOOSE x \in S : Cardinality(Down(R, S, x)) = k - 1]
  PROVE  Enumerates(order, R, S)
<1>. DEFINE n == Cardinality(S)
            place == [x \in S |-> Cardinality(Down(R, S, x)) + 1]
<1>0. n \in Nat
  BY FS_CardinalityType
<1>1. ASSUME NEW x \in S PROVE IsFiniteSet(Down(R, S, x)) /\ place[x] \in 1 .. n
  <2>1. Down(R, S, x) \in SUBSET (S \ {x})
    BY DEF Down, Orders
  <2>2. IsFiniteSet(S \ {x}) /\ Cardinality(S \ {x}) = n - 1
    BY FS_RemoveElement
  <2>3. IsFiniteSet(Down(R, S, x)) /\ Cardinality(Down(R, S, x)) <= n - 1
    BY <2>1, <2>2, FS_Subset
  <2>4. Cardinality(Down(R, S, x)) \in Nat
    BY <2>3, FS_CardinalityType
  <2>. QED  BY <1>0, <2>3, <2>4
<1>2. ASSUME NEW x \in S, NEW y \in S, <<x, y>> \in R PROVE place[x] < place[y]
  <2>1. Down(R, S, x) \in SUBSET Down(R, S, y)
    BY <1>2 DEF Down, Orders
  <2>2. x \in Down(R, S, y) /\ x \notin Down(R, S, x)
    BY <1>2 DEF Down, Orders
  <2>3. Cardinality(Down(R, S, x)) <= Cardinality(Down(R, S, y))
        /\ Cardinality(Down(R, S, x)) # Cardinality(Down(R, S, y))
    BY <1>1, <2>1, <2>2, FS_Subset
  <2>4. Cardinality(Down(R, S, x)) \in Nat /\ Cardinality(Down(R, S, y)) \in Nat
    BY <1>1, FS_CardinalityType
  <2>. QED  BY <2>3, <2>4
<1>3. place \in [S -> 1 .. n]
  BY <1>1
<1>. HIDE DEF place
<1>4. ASSUME NEW x \in S, NEW y \in S, place[x] = place[y] PROVE x = y
  <2>1. place[x] \in 1 .. n /\ place[y] \in 1 .. n
    BY <1>3
  <2>2. ~(place[x] < place[y]) /\ ~(place[y] < place[x])
    BY <1>0, <1>4, <2>1
  <2>. QED  BY <1>2, <2>2 DEF Orders
<1>5. place \in Injection(S, 1 .. n)
  BY <1>3, <1>4 DEF Injection, IsInjective
<1>6. IsFiniteSet(1 .. n) /\ Cardinality(1 .. n) = n
  BY <1>0, FS_Interval
<1>7. place \in Surjection(S, 1 .. n)
  BY <1>5, <1>6, FS_Injection
<1>8. \A k \in 1 .. n : \E x \in S : place[x] = k
  BY <1>7 DEF Surjection
<1>9. \A k \in 1 .. n : order[k] \in S /\ place[order[k]] = k
  <2>1. \A x \in S : Cardinality(Down(R, S, x)) = place[x] - 1
    <3>1. \A x \in S : Cardinality(Down(R, S, x)) \in Nat
      BY <1>1, FS_CardinalityType
    <3>. QED  BY <3>1 DEF place
  <2>2. SUFFICES ASSUME NEW k \in 1 .. n PROVE order[k] \in S /\ place[order[k]] = k
    OBVIOUS
  <2>3. \E x \in S : Cardinality(Down(R, S, x)) = k - 1
    BY <1>8, <2>1
  <2>4. order[k] = CHOOSE x \in S : Cardinality(Down(R, S, x)) = k - 1
    BY Zenon
  <2>5. order[k] \in S /\ Cardinality(Down(R, S, order[k])) = k - 1
    BY <2>3, <2>4
  <2>6. place[order[k]] \in 1 .. n
    BY <1>3, <2>5
  <2>. QED  BY <1>0, <2>1, <2>5, <2>6
<1>10. order \in [1 .. n -> S]
  BY <1>9
<1>11. ASSUME NEW x \in S PROVE \E k \in 1 .. n : order[k] = x
  <2>1. place[x] \in 1 .. n
    BY <1>3
  <2>2. order[place[x]] \in S /\ place[order[place[x]]] = place[x]
    BY <1>9, <2>1
  <2>3. order[place[x]] = x
    BY <1>4, <2>2
  <2>. QED  BY <2>1, <2>3
<1>12. ASSUME NEW i \in 1 .. n, NEW j \in 1 .. n, i < j PROVE <<order[i], order[j]>> \in R
  <2>1. order[i] \in S /\ order[j] \in S /\ place[order[i]] = i /\ place[order[j]] = j
    BY <1>9
  <2>2. i # j /\ ~(j < i)
    BY <1>0, <1>12
  <2>3. order[i] # order[j] /\ ~(place[order[j]] < place[order[i]])
    BY <2>1, <2>2, Zenon
  <2>. QED  BY <1>2, <2>1, <2>3 DEF Orders
<1>13. ASSUME NEW i \in 1 .. n, NEW j \in 1 .. n, order[i] = order[j] PROVE i = j
  BY <1>9, <1>13
<1>. QED  BY <1>10, <1>11, <1>12, <1>13 DEF Enumerates

(* q lists the positions I upwards. *)
Ascends(q, I) ==
    /\ Cardinality(I) \in Nat /\ IsFiniteSet(I)
    /\ q \in [1 .. Cardinality(I) -> I]
    /\ \A x \in I : \E k \in 1 .. Cardinality(I) : q[k] = x
    /\ \A i, j \in 1 .. Cardinality(I) : i < j => q[i] < q[j]
    /\ \A i, j \in 1 .. Cardinality(I) : q[i] = q[j] => i = j

(* t takes the elements of s at the positions I, upwards. *)
Takes(q, t, s, I) == Ascends(q, I) /\ t = [k \in 1 .. Cardinality(I) |-> s[q[k]]]

(* t is a list over X of the elements of s at the positions I. *)
ListOf(t, s, I, X) == t \in Seq(X) /\ {t[k] : k \in DOMAIN t} = {s[i] : i \in I}

(* At takes the elements at the positions I, upwards. *)
LEMMA AtFacts ==
  ASSUME NEW n \in Nat, NEW s, NEW I \in SUBSET (1 .. n)
  PROVE  \E q : Takes(q, At(s, I), s, I)
<1>. DEFINE R == {p \in I \X I : p[1] < p[2]}
            q == InOrder(I, LAMBDA i, j : i < j)
<1>1. IsFiniteSet(I) /\ Cardinality(I) \in Nat
  <2>1. IsFiniteSet(1 .. n)
    BY FS_Interval
  <2>. QED  BY <2>1, FS_Subset, FS_CardinalityType
<1>2. \A x, y \in I : <<x, y>> \in R <=> x < y
  OBVIOUS
<1>. HIDE DEF R
<1>3. Orders(R, I)
  BY <1>2 DEF Orders
<1>4. \A x \in I : {y \in I : y < x} = Down(R, I, x)
  BY <1>2 DEF Down
<1>5. q = [k \in 1 .. Cardinality(I) |-> CHOOSE x \in I : Cardinality(Down(R, I, x)) = k - 1]
  <2>1. q = [k \in 1 .. Cardinality(I) |-> CHOOSE x \in I : Cardinality({y \in I : y < x}) = k - 1]
    BY Zenon DEF InOrder
  <2>2. \A k \in 1 .. Cardinality(I) :
            (CHOOSE x \in I : Cardinality({y \in I : y < x}) = k - 1)
              = CHOOSE x \in I : Cardinality(Down(R, I, x)) = k - 1
    BY <1>4
  <2>. QED  BY <2>1, <2>2, Zenon
<1>6. At(s, I) = [k \in 1 .. Cardinality(I) |-> s[q[k]]]
  BY Zenon DEF At
<1>. HIDE DEF q
<1>7. Enumerates(q, R, I)
  BY <1>1, <1>3, <1>5, PlaceFacts
<1>8. Ascends(q, I)
  BY <1>1, <1>2, <1>7 DEF Enumerates, Ascends
<1>9. Takes(q, At(s, I), s, I)
  BY <1>6, <1>8 DEF Takes
<1>. QED  BY <1>9

(* At is a list of the elements at the positions I. *)
LEMMA AtList ==
  ASSUME NEW X, NEW s \in Seq(X), NEW I \in SUBSET (DOMAIN s)
  PROVE  ListOf(At(s, I), s, I, X)
<1>1. PICK n \in Nat : n = Len(s) /\ DOMAIN s = 1 .. n
  OBVIOUS
<1>2. PICK q : Ascends(q, I) /\ At(s, I) = [k \in 1 .. Cardinality(I) |-> s[q[k]]]
  <2>1. I \in SUBSET (1 .. n)
    BY <1>1
  <2>2. PICK q : Takes(q, At(s, I), s, I)
    BY <2>1, AtFacts
  <2>. QED  BY <2>2 DEF Takes
<1>3. PICK m \in Nat : m = Cardinality(I)
  BY <1>2 DEF Ascends
<1>4. q \in [1 .. m -> I] /\ \A x \in I : \E k \in 1 .. m : q[k] = x
  BY <1>2, <1>3 DEF Ascends
<1>5. PICK t : t = At(s, I)
  OBVIOUS
<1>6. t = [k \in 1 .. m |-> s[q[k]]]
  BY <1>2, <1>3, <1>5
<1>7. \A k \in 1 .. m : s[q[k]] \in X
  BY <1>1, <1>4
<1>8. t \in Seq(X) /\ DOMAIN t = 1 .. m /\ \A k \in 1 .. m : t[k] = s[q[k]]
  BY <1>6, <1>7
<1>9. {t[k] : k \in DOMAIN t} = {s[i] : i \in I}
  <2>1. \A k \in 1 .. m : t[k] \in {s[i] : i \in I}
    BY <1>4, <1>8
  <2>2. \A i \in I : \E k \in 1 .. m : t[k] = s[i]
    BY <1>4, <1>8
  <2>3. {t[k] : k \in 1 .. m} \subseteq {s[i] : i \in I}
    BY <2>1
  <2>4. {s[i] : i \in I} \subseteq {t[k] : k \in 1 .. m}
    BY <2>2
  <2>. QED  BY <1>8, <2>3, <2>4
<1>10. ListOf(t, s, I, X)
  BY <1>8, <1>9 DEF ListOf
<1>. QED  BY <1>5, <1>10

(* At with every position is the list itself. *)
LEMMA AtAll ==
  ASSUME NEW X, NEW s \in Seq(X)
  PROVE  At(s, DOMAIN s) = s
<1>1. PICK n \in Nat : n = Len(s) /\ DOMAIN s = 1 .. n
  OBVIOUS
<1>. DEFINE q == InOrder(1 .. n, LAMBDA i, j : i < j)
<1>2. Cardinality(1 .. n) = n
  BY FS_Interval
<1>3. \A x \in 1 .. n : Cardinality({y \in 1 .. n : y < x}) = x - 1
  <2>1. SUFFICES ASSUME NEW x \in 1 .. n PROVE Cardinality({y \in 1 .. n : y < x}) = x - 1
    OBVIOUS
  <2>2. {y \in 1 .. n : y < x} = 1 .. (x - 1)
    OBVIOUS
  <2>3. Cardinality(1 .. (x - 1)) = x - 1
    BY FS_Interval
  <2>. QED  BY <2>2, <2>3
<1>4. q = [k \in 1 .. n |-> CHOOSE x \in 1 .. n : Cardinality({y \in 1 .. n : y < x}) = k - 1]
  BY <1>2, Zenon DEF InOrder
<1>5. ASSUME NEW k \in 1 .. n PROVE q[k] = k
  <2>1. q[k] = CHOOSE x \in 1 .. n : Cardinality({y \in 1 .. n : y < x}) = k - 1
    BY <1>4, Zenon
  <2>2. q[k] \in 1 .. n /\ Cardinality({y \in 1 .. n : y < q[k]}) = k - 1
    <3>1. k \in 1 .. n /\ Cardinality({y \in 1 .. n : y < k}) = k - 1
      BY <1>3
    <3>. QED  BY <2>1, <3>1, Zenon
  <2>3. q[k] - 1 = k - 1
    <3>. HIDE DEF q
    <3>. QED  BY <1>3, <2>2
  <2>. HIDE DEF q
  <2>. QED  BY <2>2, <2>3
<1>6. At(s, 1 .. n) = [k \in 1 .. n |-> s[q[k]]]
  BY <1>2, Zenon DEF At
<1>. HIDE DEF q
<1>7. At(s, 1 .. n) = [k \in 1 .. n |-> s[k]]
  BY <1>5, <1>6
<1>. QED  BY <1>1, <1>7

(* f sums F over the subsets of D. *)
Sums(f, F, D) ==
    /\ f \in [SUBSET D -> Nat]
    /\ f[{}] = 0
    /\ \A s \in SUBSET D : \A x \in s : f[s] = F[x] + f[s \ {x}]

(* f takes the members in the order of SumFunctionOnSet. *)
SumsByChoice(f, F, D) ==
    \A s \in SUBSET D :
        f[s] = IF s = {} THEN 0
               ELSE F[CHOOSE x \in s : TRUE] + f[s \ {CHOOSE x \in s : TRUE}]

(* The sum does not depend on the order in which the members are taken. *)
LEMMA SumsExists ==
  ASSUME NEW D, IsFiniteSet(D), NEW F, \A x \in D : F[x] \in Nat
  PROVE  \E f : Sums(f, F, D) /\ SumsByChoice(f, F, D)
<1>. DEFINE c == [s \in SUBSET D |-> CHOOSE x \in s : TRUE]
            g == [x \in D |-> [v \in Nat |-> F[x] + v]]
<1>1. \A s \in SUBSET D : s # {} => c[s] \in s
  OBVIOUS
<1>2. g \in [D -> [Nat -> Nat]] /\ \A x \in D : \A v \in Nat : g[x][v] = F[x] + v
  OBVIOUS
<1>3. \A s \in SUBSET D : c[s] = CHOOSE x \in s : TRUE
  OBVIOUS
<1>. HIDE DEF c, g
<1>4. PICK f : IsFold(f, D, Nat, 0, c, g)
  BY <1>1, <1>2, FoldExists
<1>5. f \in [SUBSET D -> Nat] /\ f[{}] = 0
  BY <1>4 DEF IsFold
<1>6. \A s \in SUBSET D : s # {} => f[s] = F[c[s]] + f[s \ {c[s]}]
  <2>1. SUFFICES ASSUME NEW s \in SUBSET D, s # {} PROVE f[s] = F[c[s]] + f[s \ {c[s]}]
    OBVIOUS
  <2>2. f[s] = g[c[s]][f[s \ {c[s]}]]
    BY <1>4, <2>1 DEF IsFold
  <2>3. c[s] \in D /\ f[s \ {c[s]}] \in Nat
    BY <1>1, <1>5, <2>1
  <2>. QED  BY <1>2, <2>2, <2>3
<1>7. \A s \in SUBSET D : \A x \in s : f[s] = F[x] + f[s \ {x}]
  <2>. DEFINE S == {n \in Nat : \A s \in SUBSET D : Cardinality(s) <= n =>
                                   \A x \in s : f[s] = F[x] + f[s \ {x}]}
  <2>0. \A s \in SUBSET D : IsFiniteSet(s) /\ Cardinality(s) \in Nat /\ (Cardinality(s) = 0 => s = {})
    BY FS_Subset, FS_CardinalityType, FS_EmptySet
  <2>1. 0 \in S
    BY <2>0
  <2>2. ASSUME NEW n \in Nat, n \in S PROVE n + 1 \in S
    <3>1. ASSUME NEW s \in SUBSET D, Cardinality(s) <= n + 1, NEW x \in s
          PROVE  f[s] = F[x] + f[s \ {x}]
      <4>1. PICK y : y = c[s]
        OBVIOUS
      <4>2. y \in s /\ y \in D /\ x \in D /\ f[s] = F[y] + f[s \ {y}]
        BY <1>1, <1>6, <4>1
      <4>3. CASE x = y
        BY <4>2, <4>3
      <4>4. CASE x # y
        <5>1. PICK t : t = (s \ {y}) \ {x}
          OBVIOUS
        <5>2. t = (s \ {x}) \ {y} /\ t \in SUBSET D /\ s \ {x} \in SUBSET D /\ s \ {y} \in SUBSET D
          BY <5>1
        <5>3. Cardinality(s \ {x}) = Cardinality(s) - 1 /\ Cardinality(s \ {y}) = Cardinality(s) - 1
          BY <2>0, <4>2, FS_RemoveElement
        <5>4. Cardinality(s \ {x}) <= n /\ Cardinality(s \ {y}) <= n
          BY <2>0, <3>1, <5>3
        <5>5. f[s \ {y}] = F[x] + f[t]
          BY <2>2, <4>4, <5>1, <5>2, <5>4
        <5>6. f[s \ {x}] = F[y] + f[t]
          BY <2>2, <4>2, <4>4, <5>2, <5>4
        <5>7. F[x] \in Nat /\ F[y] \in Nat /\ f[t] \in Nat
          BY <1>5, <4>2, <5>2
        <5>. QED  BY <4>2, <5>5, <5>6, <5>7
      <4>. QED  BY <4>3, <4>4
    <3>. QED  BY <3>1
  <2>3. \A n \in Nat : n \in S
    <3>. HIDE DEF S
    <3>. QED  BY <2>1, <2>2, NatInduct
  <2>4. ASSUME NEW s \in SUBSET D, NEW x \in s PROVE f[s] = F[x] + f[s \ {x}]
    <3>1. Cardinality(s) \in S /\ Cardinality(s) <= Cardinality(s)
      BY <2>0, <2>3
    <3>. QED  BY <3>1
  <2>. QED  BY <2>4
<1>8. Sums(f, F, D)
  BY <1>5, <1>7 DEF Sums
<1>9. SumsByChoice(f, F, D)
  BY <1>3, <1>5, <1>6, Zenon DEF SumsByChoice
<1>. QED  BY <1>8, <1>9

(* SumFunctionOnSet on the subsets of D: any member may be taken out. *)
AddsUp(F, D) ==
    /\ SumFunctionOnSet(F, {}) = 0
    /\ \A s \in SUBSET D : SumFunctionOnSet(F, s) \in Nat
    /\ \A s \in SUBSET D :
           \A x \in s : SumFunctionOnSet(F, s) = F[x] + SumFunctionOnSet(F, s \ {x})

(* SumFunctionOnSet is the sum over the set. *)
LEMMA SumFacts ==
  ASSUME NEW D, IsFiniteSet(D), NEW F, \A x \in D : F[x] \in Nat
  PROVE  AddsUp(F, D)
<1>1. PICK f : Sums(f, F, D) /\ SumsByChoice(f, F, D)
  BY SumsExists
<1>2. ASSUME NEW s \in SUBSET D PROVE SumFunctionOnSet(F, s) = f[s]
  <2>. DEFINE P(it) == it = [u \in SUBSET s |-> IF u = {} THEN 0
                               ELSE F[CHOOSE x \in u : TRUE] + it[u \ {CHOOSE x \in u : TRUE}]]
              it == CHOOSE h : P(h)
              r == [u \in SUBSET s |-> f[u]]
  <2>1. SumFunctionOnSet(F, s) = it[s]
    BY Zenon DEF SumFunctionOnSet, FoldFunctionOnSet, MapThenFoldSet
  <2>2. P(r)
    <3>1. ASSUME NEW u \in SUBSET s
          PROVE  r[u] = IF u = {} THEN 0 ELSE F[CHOOSE x \in u : TRUE] + r[u \ {CHOOSE x \in u : TRUE}]
      <4>1. r[u] = f[u] /\ u \in SUBSET D
        OBVIOUS
      <4>2. u \ {CHOOSE x \in u : TRUE} \in SUBSET s
        OBVIOUS
      <4>3. r[u \ {CHOOSE x \in u : TRUE}] = f[u \ {CHOOSE x \in u : TRUE}]
        BY <4>2, Zenon
      <4>. HIDE DEF r
      <4>. QED  BY <1>1, <4>1, <4>3, Zenon DEF SumsByChoice
    <3>2. r = [u \in SUBSET s |-> r[u]]
      BY Zenon
    <3>. HIDE DEF r
    <3>. QED  BY <3>1, <3>2
  <2>3. P(it)
    <3>. HIDE DEF P, r
    <3>. QED  BY <2>2, Zenon
  <2>4. \A u \in SUBSET s : it[u] = IF u = {} THEN 0
                               ELSE F[CHOOSE x \in u : TRUE] + it[u \ {CHOOSE x \in u : TRUE}]
    <3>. HIDE DEF it
    <3>. QED  BY <2>3, Zenon
  <2>. HIDE DEF it, r, P
  <2>. DEFINE S == {n \in Nat : \A u \in SUBSET s : Cardinality(u) <= n => it[u] = f[u]}
  <2>0. \A u \in SUBSET s : IsFiniteSet(u) /\ Cardinality(u) \in Nat /\ (Cardinality(u) = 0 => u = {})
    <3>1. \A u \in SUBSET s : u \in SUBSET D
      OBVIOUS
    <3>. QED  BY <3>1, FS_Subset, FS_CardinalityType, FS_EmptySet
  <2>5. 0 \in S
    <3>1. f[{}] = 0 /\ it[{}] = 0
      BY <1>1, <2>4, Zenon DEF Sums
    <3>. QED  BY <2>0, <3>1
  <2>6. ASSUME NEW n \in Nat, n \in S PROVE n + 1 \in S
    <3>1. ASSUME NEW u \in SUBSET s, Cardinality(u) <= n + 1 PROVE it[u] = f[u]
      <4>1. CASE u = {}
        BY <1>1, <2>4, <4>1, Zenon DEF Sums
      <4>2. CASE u # {}
        <5>1. PICK y : y = CHOOSE x \in u : TRUE
          OBVIOUS
        <5>2. y \in u
          BY <4>2, <5>1
        <5>3. Cardinality(u \ {y}) <= n
          <6>1. Cardinality(u \ {y}) = Cardinality(u) - 1
            BY <2>0, <5>2, FS_RemoveElement
          <6>. QED  BY <2>0, <3>1, <6>1
        <5>4. it[u \ {y}] = f[u \ {y}]
          BY <2>6, <5>3
        <5>5. it[u] = F[y] + it[u \ {y}] /\ f[u] = F[y] + f[u \ {y}]
          <6>1. u \in SUBSET D
            OBVIOUS
          <6>. QED  BY <1>1, <2>4, <4>2, <5>1, <6>1, Zenon DEF SumsByChoice
        <5>. QED  BY <5>4, <5>5
      <4>. QED  BY <4>1, <4>2
    <3>. QED  BY <3>1
  <2>7. \A n \in Nat : n \in S
    <3>. HIDE DEF S
    <3>. QED  BY <2>5, <2>6, NatInduct
  <2>8. it[s] = f[s]
    BY <2>0, <2>7
  <2>. QED  BY <2>1, <2>8
<1>3. {} \in SUBSET D /\ \A s \in SUBSET D : \A x \in s : s \ {x} \in SUBSET D
  OBVIOUS
<1>. QED  BY <1>1, <1>2, <1>3 DEF Sums, AddsUp

(* Adding a member adds its value. *)
LEMMA SumAdd ==
  ASSUME NEW D, IsFiniteSet(D), NEW F, \A x \in D : F[x] \in Nat,
         NEW T \in SUBSET D, NEW x \in D, x \notin T
  PROVE  SumFunctionOnSet(F, T \cup {x}) = F[x] + SumFunctionOnSet(F, T)
<1>1. T \cup {x} \in SUBSET D /\ x \in T \cup {x} /\ (T \cup {x}) \ {x} = T
  OBVIOUS
<1>2. AddsUp(F, D)
  BY SumFacts
<1>3. SumFunctionOnSet(F, T \cup {x}) = F[x] + SumFunctionOnSet(F, (T \cup {x}) \ {x})
  BY <1>1, <1>2, Zenon DEF AddsUp
<1>. QED  BY <1>1, <1>3

(* The sum of nothing. *)
LEMMA SumEmpty ==
  ASSUME NEW F
  PROVE  SumFunctionOnSet(F, {}) = 0
<1>1. IsFiniteSet({}) /\ \A x \in {} : F[x] \in Nat
  BY FS_EmptySet
<1>. QED  BY <1>1, SumFacts DEF AddsUp

(* The sum of naturals over a finite set is a natural. *)
LEMMA SumType ==
  ASSUME NEW D, IsFiniteSet(D), NEW F, \A x \in D : F[x] \in Nat, NEW T \in SUBSET D
  PROVE  SumFunctionOnSet(F, T) \in Nat
BY SumFacts DEF AddsUp

(* Only the values on the set matter. *)
LEMMA SumSame ==
  ASSUME NEW D, IsFiniteSet(D), NEW F, NEW G, \A x \in D : F[x] \in Nat /\ G[x] = F[x]
  PROVE  SumFunctionOnSet(G, D) = SumFunctionOnSet(F, D)
<1>. DEFINE P == {T \in SUBSET D : SumFunctionOnSet(G, T) = SumFunctionOnSet(F, T)}
<1>1. {} \in P
  BY SumEmpty
<1>2. ASSUME NEW T \in SUBSET D, NEW x \in D, T \in P, x \notin T PROVE T \cup {x} \in P
  <2>1. /\ SumFunctionOnSet(F, T \cup {x}) = F[x] + SumFunctionOnSet(F, T)
        /\ SumFunctionOnSet(G, T \cup {x}) = G[x] + SumFunctionOnSet(G, T)
    BY <1>2, SumAdd
  <2>. QED  BY <1>2, <2>1
<1>3. \A T \in SUBSET D : T \in P
  <2>. HIDE DEF P
  <2>. QED  BY <1>1, <1>2, SetInduct
<1>4. D \in P
  <2>. HIDE DEF P
  <2>. QED  BY <1>3
<1>. QED  BY <1>4

(* The sum over two sets that share nothing. *)
LEMMA SumUnion ==
  ASSUME NEW D, IsFiniteSet(D), NEW F, \A x \in D : F[x] \in Nat,
         NEW A \in SUBSET D, NEW B \in SUBSET D, A \cap B = {}
  PROVE  SumFunctionOnSet(F, A \cup B) = SumFunctionOnSet(F, A) + SumFunctionOnSet(F, B)
<1>. DEFINE P == {T \in SUBSET D :
                    T \subseteq B => SumFunctionOnSet(F, A \cup T) = SumFunctionOnSet(F, A) + SumFunctionOnSet(F, T)}
<1>0. \A T \in SUBSET D : SumFunctionOnSet(F, T) \in Nat
  BY SumType
<1>1. {} \in P
  <2>1. A \cup {} = A /\ {} \in SUBSET D
    OBVIOUS
  <2>. QED  BY <1>0, <2>1, SumEmpty
<1>2. ASSUME NEW T \in SUBSET D, NEW x \in D, T \in P, x \notin T PROVE T \cup {x} \in P
  <2>1. SUFFICES ASSUME T \cup {x} \subseteq B
                 PROVE  SumFunctionOnSet(F, A \cup (T \cup {x}))
                          = SumFunctionOnSet(F, A) + SumFunctionOnSet(F, T \cup {x})
    OBVIOUS
  <2>2. A \cup (T \cup {x}) = (A \cup T) \cup {x} /\ x \notin A \cup T /\ A \cup T \in SUBSET D
    BY <1>2, <2>1
  <2>3. /\ SumFunctionOnSet(F, (A \cup T) \cup {x}) = F[x] + SumFunctionOnSet(F, A \cup T)
        /\ SumFunctionOnSet(F, T \cup {x}) = F[x] + SumFunctionOnSet(F, T)
    BY <1>2, <2>2, SumAdd
  <2>4. SumFunctionOnSet(F, A \cup T) = SumFunctionOnSet(F, A) + SumFunctionOnSet(F, T)
    BY <1>2, <2>1
  <2>5. F[x] \in Nat /\ SumFunctionOnSet(F, A) \in Nat /\ SumFunctionOnSet(F, T) \in Nat
    BY <1>0
  <2>6. SumFunctionOnSet(F, A \cup (T \cup {x})) = SumFunctionOnSet(F, (A \cup T) \cup {x})
    BY <2>2, Zenon
  <2>. QED  BY <2>3, <2>4, <2>5, <2>6
<1>3. \A T \in SUBSET D : T \in P
  <2>. HIDE DEF P
  <2>. QED  BY <1>1, <1>2, SetInduct
<1>. QED  BY <1>3

(* Where every value is 0 so is the sum. *)
LEMMA SumZero ==
  ASSUME NEW D, IsFiniteSet(D), NEW F, \A x \in D : F[x] = 0
  PROVE  SumFunctionOnSet(F, D) = 0
<1>. DEFINE P == {T \in SUBSET D : SumFunctionOnSet(F, T) = 0}
<1>1. {} \in P
  BY SumEmpty
<1>2. ASSUME NEW T \in SUBSET D, NEW x \in D, T \in P, x \notin T PROVE T \cup {x} \in P
  <2>1. SumFunctionOnSet(F, T \cup {x}) = F[x] + SumFunctionOnSet(F, T)
    BY <1>2, SumAdd
  <2>. QED  BY <1>2, <2>1
<1>3. \A T \in SUBSET D : T \in P
  <2>. HIDE DEF P
  <2>. QED  BY <1>1, <1>2, SetInduct
<1>. QED  BY <1>3

(* The values that are 0 may be left out. *)
LEMMA SumSupport ==
  ASSUME NEW D, IsFiniteSet(D), NEW F, \A x \in D : F[x] \in Nat,
         NEW A \in SUBSET D, \A x \in D \ A : F[x] = 0
  PROVE  SumFunctionOnSet(F, A) = SumFunctionOnSet(F, D)
<1>1. IsFiniteSet(D \ A) /\ D \ A \in SUBSET D /\ A \cup (D \ A) = D /\ A \cap (D \ A) = {}
  BY FS_Subset
<1>2. SumFunctionOnSet(F, D \ A) = 0
  BY <1>1, SumZero
<1>3. SumFunctionOnSet(F, A \cup (D \ A)) = SumFunctionOnSet(F, A) + SumFunctionOnSet(F, D \ A)
  BY <1>1, SumUnion
<1>4. SumFunctionOnSet(F, A) \in Nat
  BY SumType
<1>5. SumFunctionOnSet(F, A \cup (D \ A)) = SumFunctionOnSet(F, D)
  BY <1>1, Zenon
<1>. QED  BY <1>2, <1>3, <1>4, <1>5

(* A positive value makes the sum positive. *)
LEMMA SumPositive ==
  ASSUME NEW D, IsFiniteSet(D), NEW F, \A x \in D : F[x] \in Nat, NEW x \in D, F[x] > 0
  PROVE  SumFunctionOnSet(F, D) > 0
<1>1. D \in SUBSET D /\ D \ {x} \in SUBSET D
  OBVIOUS
<1>2. SumFunctionOnSet(F, D) = F[x] + SumFunctionOnSet(F, D \ {x}) /\ SumFunctionOnSet(F, D \ {x}) \in Nat
  BY <1>1, SumFacts DEF AddsUp
<1>. QED  BY <1>2

(* G on T is F on D, the members renamed by q. *)
Renamed(G, T, F, D, q) ==
    /\ IsFiniteSet(T) /\ IsFiniteSet(D)
    /\ \A x \in D : F[x] \in Nat
    /\ q \in [T -> D]
    /\ \A t, u \in T : q[t] = q[u] => t = u
    /\ \A x \in D : \E t \in T : q[t] = x
    /\ \A t \in T : G[t] = F[q[t]]

(* Renaming the members does not change the sum. *)
LEMMA SumRenamed ==
  ASSUME NEW T, NEW D, NEW F, NEW G, NEW q, Renamed(G, T, F, D, q)
  PROVE  SumFunctionOnSet(G, T) = SumFunctionOnSet(F, D)
<1>. USE DEF Renamed
<1>. DEFINE Image(U) == {q[t] : t \in U}
            P == {U \in SUBSET T : SumFunctionOnSet(G, U) = SumFunctionOnSet(F, Image(U))}
<1>0. \A t \in T : G[t] \in Nat
  OBVIOUS
<1>1. {} \in P
  <2>1. Image({}) = {}
    OBVIOUS
  <2>. QED  BY <2>1, SumEmpty
<1>2. ASSUME NEW U \in SUBSET T, NEW x \in T, U \in P, x \notin U PROVE U \cup {x} \in P
  <2>1. Image(U \cup {x}) = Image(U) \cup {q[x]} /\ q[x] \notin Image(U) /\ Image(U) \in SUBSET D
    BY <1>2
  <2>. HIDE DEF Image
  <2>2. SumFunctionOnSet(F, Image(U) \cup {q[x]}) = F[q[x]] + SumFunctionOnSet(F, Image(U))
    BY <2>1, SumAdd
  <2>3. SumFunctionOnSet(G, U \cup {x}) = G[x] + SumFunctionOnSet(G, U)
    BY <1>0, <1>2, SumAdd
  <2>. QED  BY <1>2, <2>1, <2>2, <2>3
<1>3. \A U \in SUBSET T : U \in P
  <2>. HIDE DEF P
  <2>. QED  BY <1>1, <1>2, SetInduct
<1>4. Image(T) = D
  OBVIOUS
<1>5. T \in P
  <2>. HIDE DEF P
  <2>. QED  BY <1>3
<1>. HIDE DEF Image
<1>. QED  BY <1>4, <1>5

(* G on C sums F over the part of S that k puts there. *)
InParts(G, C, F, S, k) ==
    /\ IsFiniteSet(S) /\ IsFiniteSet(C)
    /\ \A x \in S : F[x] \in Nat
    /\ \A x \in S : k[x] \in C
    /\ \A c \in C : G[c] = SumFunctionOnSet(F, {x \in S : k[x] = c})

(* A sum of the sums of the parts is the sum of the whole. *)
LEMMA SumOfParts ==
  ASSUME NEW S, NEW F, NEW C, NEW k, NEW G, InParts(G, C, F, S, k)
  PROVE  SumFunctionOnSet(G, C) = SumFunctionOnSet(F, S)
<1>. USE DEF InParts
<1>. DEFINE In(U) == {x \in S : k[x] \in U}
            P == {U \in SUBSET C : SumFunctionOnSet(G, U) = SumFunctionOnSet(F, In(U))}
<1>0. \A c \in C : G[c] \in Nat
  <2>1. \A c \in C : {x \in S : k[x] = c} \in SUBSET S
    OBVIOUS
  <2>2. \A T \in SUBSET S : SumFunctionOnSet(F, T) \in Nat
    BY SumType
  <2>. QED  BY <2>1, <2>2, Zenon
<1>1. {} \in P
  <2>1. In({}) = {}
    OBVIOUS
  <2>. QED  BY <2>1, SumEmpty
<1>2. ASSUME NEW U \in SUBSET C, NEW c \in C, U \in P, c \notin U PROVE U \cup {c} \in P
  <2>. DEFINE B == {x \in S : k[x] = c}
  <2>1. In(U \cup {c}) = In(U) \cup B /\ In(U) \cap B = {} /\ In(U) \in SUBSET S /\ B \in SUBSET S
    BY <1>2
  <2>2. G[c] = SumFunctionOnSet(F, B)
    OBVIOUS
  <2>. HIDE DEF In, B
  <2>3. SumFunctionOnSet(F, In(U) \cup B) = SumFunctionOnSet(F, In(U)) + SumFunctionOnSet(F, B)
    BY <2>1, SumUnion
  <2>4. SumFunctionOnSet(G, U \cup {c}) = G[c] + SumFunctionOnSet(G, U)
    BY <1>0, <1>2, SumAdd
  <2>5. SumFunctionOnSet(F, In(U)) \in Nat /\ SumFunctionOnSet(F, B) \in Nat
    BY <2>1, SumType
  <2>6. SumFunctionOnSet(F, In(U \cup {c})) = SumFunctionOnSet(F, In(U) \cup B)
    BY <2>1, Zenon
  <2>7. SumFunctionOnSet(G, U) = SumFunctionOnSet(F, In(U))
    BY <1>2
  <2>8. SumFunctionOnSet(G, U \cup {c}) = SumFunctionOnSet(F, In(U \cup {c}))
    BY <2>2, <2>3, <2>4, <2>5, <2>6, <2>7
  <2>. QED  BY <2>8
<1>3. \A U \in SUBSET C : U \in P
  <2>. HIDE DEF P
  <2>. QED  BY <1>1, <1>2, SetInduct
<1>4. In(C) = S
  OBVIOUS
<1>5. C \in P
  <2>. HIDE DEF P
  <2>. QED  BY <1>3
<1>. HIDE DEF In
<1>. QED  BY <1>4, <1>5

=============================================================================
