---------------------------- MODULE PanesProofs -----------------------------
(***************************************************************************)
(* The tabs and their panes: for any number of tabs and panes, no pane is  *)
(* ever in two trees, in none while it is registered, or running with      *)
(* nobody to close it, and the toolbar works on the active one.            *)
(*                                                                         *)
(* A pane goes in two ways that end in one another (close_tab, close_pane), *)
(* from a click or from its shell's end: each maps a sound record of the   *)
(* tabs to a sound one (Sound).  What makes the second of the two calls    *)
(* harmless is that a leaf is in the tree of the tab it was opened in and  *)
(* that ids are never given twice (InPlace, Fresh).                        *)
(*                                                                         *)
(* The agent loop of a pane's AI panel: for any number of messages, turns  *)
(* and calls, the history that is sent has every call answered, and what a *)
(* card says is what was decided and what came of it.  A handler's cascade *)
(* ends in one of several panels; each lemma about a method says what      *)
(* holds of all of them.  A conversation is only added to, answered, or    *)
(* cut down to a summary and what follows it (AInv says what is kept).     *)
(***************************************************************************)
EXTENDS MCPanes, SequenceTheorems, FiniteSetTheorems, TLAPS

Tree == [panes : Seq(Panes!Panes), active : Panes!Panes]
Leaf(tree) == Panes!ToSet(tree.panes)
TreeOK(tree) == tree \in Tree /\ tree.active \in Leaf(tree) /\ Panes!IsInjective(tree.panes)

-----------------------------------------------------------------------------
(* Trees.                                                                  *)

\* A tree of one pane.
LEMMA SingleTree ==
  ASSUME NEW p \in Panes!Panes
  PROVE  TreeOK(Panes!Single(p)) /\ Leaf(Panes!Single(p)) = {p}
  <1>1. Panes!Single(p) \in Tree
        BY DEF Panes!Single, Tree
  <1>2. Leaf(Panes!Single(p)) = {p}
        BY DEF Panes!Single, Leaf, Panes!ToSet
  <1>3. Panes!IsInjective(Panes!Single(p).panes)
        BY DEF Panes!Single, Panes!IsInjective
  <1> QED BY <1>1, <1>2, <1>3 DEF TreeOK, Panes!Single

\* What a leaf's place is.
LEMMA PlaceOfLeaf ==
  ASSUME NEW s, NEW p \in Panes!ToSet(s)
  PROVE  Panes!Place(s, p) \in DOMAIN s /\ s[Panes!Place(s, p)] = p
  <1>1. \E i \in DOMAIN s : s[i] = p
        BY DEF Panes!ToSet
  <1> QED BY <1>1 DEF Panes!Place

\* A leaf put in somewhere.
LEMMA Inserted ==
  ASSUME NEW S, NEW s \in Seq(S), NEW p \in S, p \notin Panes!ToSet(s), Panes!IsInjective(s),
         NEW k \in 1..(Len(s) + 1)
  PROVE  /\ Panes!InsertAt(s, k, p) \in Seq(S)
         /\ Panes!ToSet(Panes!InsertAt(s, k, p)) = Panes!ToSet(s) \cup {p}
         /\ Panes!IsInjective(Panes!InsertAt(s, k, p))
  <1> DEFINE a == SubSeq(s, 1, k - 1)
             b == SubSeq(s, k, Len(s))
             r == Panes!InsertAt(s, k, p)
  <1>a. /\ a \in Seq(S) /\ Len(a) = k - 1 /\ \A i \in 1..(k - 1) : a[i] = s[i]
        /\ b \in Seq(S) /\ Len(b) = Len(s) + 1 - k /\ \A i \in 1..(Len(s) + 1 - k) : b[i] = s[k + i - 1]
        OBVIOUS
  <1>b. r = (a \o <<p>>) \o b
        BY DEF Panes!InsertAt
  <1> HIDE DEF a, b, r
  <1>c. /\ a \o <<p>> \in Seq(S) /\ Len(a \o <<p>>) = k
        /\ \A i \in 1..k : (a \o <<p>>)[i] = IF i < k THEN s[i] ELSE p
    <2>1. <<p>> \in Seq(S) /\ Len(<<p>>) = 1 /\ <<p>>[1] = p
          OBVIOUS
    <2>2. a \o <<p>> \in Seq(S) /\ Len(a \o <<p>>) = Len(a) + Len(<<p>>)
          BY <1>a, <2>1, ConcatProperties
    <2>3. \A i \in 1..k : (a \o <<p>>)[i] = IF i <= Len(a) THEN a[i] ELSE <<p>>[i - Len(a)]
          BY <1>a, <2>1, ConcatProperties
    <2>4. Len(a \o <<p>>) = k
          BY <1>a, <2>1, <2>2
    <2>5. ASSUME NEW i \in 1..k
          PROVE  (a \o <<p>>)[i] = IF i < k THEN s[i] ELSE p
      <3>1. CASE i < k
            BY <1>a, <2>3, <3>1
      <3>2. CASE i = k
        <4>1. (i - Len(a)) = 1 /\ ~(i <= Len(a)) /\ ~(i < k)
              BY <1>a, <3>2
        <4> QED BY <2>1, <2>3, <4>1
      <3>3. i < k \/ i = k
            OBVIOUS
      <3> QED BY <3>1, <3>2, <3>3
    <2> QED BY <2>2, <2>4, <2>5
  <1>1. r \in Seq(S) /\ Len(r) = Len(s) + 1
        BY <1>a, <1>b, <1>c, ConcatProperties
  <1>2. \A i \in 1..(Len(s) + 1) : r[i] = IF i < k THEN s[i] ELSE IF i = k THEN p ELSE s[i - 1]
    <2>1. \A i \in 1..(Len(s) + 1) : r[i] = IF i <= k THEN (a \o <<p>>)[i] ELSE b[i - k]
      <3> DEFINE u == a \o <<p>>
      <3>a. u \in Seq(S) /\ Len(u) = k
            BY <1>c
      <3>b. r = u \o b
            BY <1>b
      <3> HIDE DEF u
      <3>c. b \in Seq(S) /\ Len(b) = Len(s) + 1 - k /\ Len(s) \in Nat
            BY <1>a
      <3>1. u \in Seq(S) /\ b \in Seq(S) /\ Len(u) = k /\ Len(u) + Len(b) = Len(s) + 1 /\ r = u \o b
            BY <3>a, <3>b, <3>c
      <3>2. \A i \in 1..(Len(u) + Len(b)) :
              (u \o b)[i] = IF i <= Len(u) THEN u[i] ELSE b[i - Len(u)]
            BY <3>1, ConcatProperties
      <3>3. \A i \in 1..(Len(s) + 1) : r[i] = IF i <= k THEN u[i] ELSE b[i - k]
            BY <3>1, <3>2
      <3> QED BY <3>3 DEF u
    <2> SUFFICES ASSUME NEW i \in 1..(Len(s) + 1)
                 PROVE  r[i] = IF i < k THEN s[i] ELSE IF i = k THEN p ELSE s[i - 1]
        OBVIOUS
    <2>2. CASE i <= k
          BY <1>c, <2>1, <2>2
    <2>3. CASE i > k
      <3>1. i - k \in 1..(Len(s) + 1 - k) /\ k + (i - k) - 1 = i - 1
            BY <2>3
      <3>2. b[i - k] = s[i - 1]
            BY <1>a, <3>1
      <3> QED BY <2>1, <2>3, <3>2
    <2> QED BY <2>2, <2>3
  <1>3. \A i \in 1..Len(s) : s[i] = IF i < k THEN r[i] ELSE r[i + 1]
    <2> SUFFICES ASSUME NEW i \in 1..Len(s)
                 PROVE  s[i] = IF i < k THEN r[i] ELSE r[i + 1]
        OBVIOUS
    <2>1. CASE i < k
          BY <1>2, <2>1
    <2>2. CASE i >= k
      <3>1. i + 1 \in 1..(Len(s) + 1) /\ i + 1 > k /\ (i + 1) - 1 = i
            BY <2>2
      <3> QED BY <1>2, <2>2, <3>1
    <2> QED BY <2>1, <2>2
  <1>4. r[k] = p /\ k \in 1..Len(r)
        BY <1>1, <1>2
  <1>5. DOMAIN s = 1..Len(s) /\ DOMAIN r = 1..(Len(s) + 1)
        BY <1>1
  <1>6. \A i \in 1..Len(s) : s[i] # p
        BY <1>5 DEF Panes!ToSet
  <1>7. \A i \in 1..Len(s) : s[i] \in Panes!ToSet(r)
    <2> SUFFICES ASSUME NEW i \in 1..Len(s) PROVE \E n \in DOMAIN r : s[i] = r[n]
        BY DEF Panes!ToSet
    <2>1. i \in DOMAIN r /\ i + 1 \in DOMAIN r
          BY <1>5
    <2> QED BY <1>3, <2>1
  <1>8. \A i \in 1..(Len(s) + 1) : r[i] \in Panes!ToSet(s) \cup {p}
    <2> SUFFICES ASSUME NEW i \in 1..(Len(s) + 1), i # k PROVE \E n \in DOMAIN s : r[i] = s[n]
        BY <1>4 DEF Panes!ToSet
    <2>1. i < k => i \in DOMAIN s
          BY <1>5
    <2>2. i > k => i - 1 \in DOMAIN s
          BY <1>5
    <2>3. i < k \/ i > k
          OBVIOUS
    <2> QED BY <1>2, <2>1, <2>2, <2>3
  <1>9. Panes!ToSet(r) = Panes!ToSet(s) \cup {p}
        BY <1>1, <1>4, <1>5, <1>7, <1>8 DEF Panes!ToSet
  <1>10. \A i, j \in 1..Len(s) : s[i] = s[j] => i = j
        BY <1>5 DEF Panes!IsInjective
  <1>11. \A i, j \in 1..(Len(s) + 1) : r[i] = r[j] => i = j
    <2> SUFFICES ASSUME NEW i \in 1..(Len(s) + 1), NEW j \in 1..(Len(s) + 1), r[i] = r[j]
                 PROVE  i = j
        OBVIOUS
    <2>1. i < k \/ i = k \/ i > k
        OBVIOUS
    <2>2. j < k \/ j = k \/ j > k
        OBVIOUS
    <2>3. i > k => i - 1 \in 1..Len(s) /\ r[i] = s[i - 1]
        BY <1>2
    <2>4. j > k => j - 1 \in 1..Len(s) /\ r[j] = s[j - 1]
        BY <1>2
    <2>5. i < k => i \in 1..Len(s) /\ r[i] = s[i]
        BY <1>2
    <2>6. j < k => j \in 1..Len(s) /\ r[j] = s[j]
        BY <1>2
    <2>7. k \in Nat /\ i \in Nat /\ j \in Nat
        OBVIOUS
    <2>8. CASE i = k
          BY <2>2, <2>4, <2>6, <2>8, <1>4, <1>6
    <2>9. CASE j = k
          BY <2>1, <2>3, <2>5, <2>9, <1>4, <1>6
    <2>10. CASE i < k /\ j < k
          BY <2>5, <2>6, <2>10, <1>10
    <2>11. CASE i > k /\ j > k
      <3>1. i - 1 = j - 1
            BY <2>3, <2>4, <2>11, <1>10
      <3> QED BY <2>7, <3>1
    <2>12. CASE i < k /\ j > k
      <3>1. i = j - 1
            BY <2>4, <2>5, <2>12, <1>10
      <3> QED BY <2>7, <2>12, <3>1
    <2>13. CASE i > k /\ j < k
      <3>1. i - 1 = j
            BY <2>3, <2>6, <2>13, <1>10
      <3> QED BY <2>7, <2>13, <3>1
    <2> QED BY <2>1, <2>2, <2>8, <2>9, <2>10, <2>11, <2>12, <2>13
  <1>12. Panes!IsInjective(r)
        BY <1>5, <1>11 DEF Panes!IsInjective
  <1> QED BY <1>1, <1>9, <1>12 DEF r

\* A leaf taken out.
LEMMA TakenOut ==
  ASSUME NEW S, NEW s \in Seq(S), NEW p, Panes!IsInjective(s), NEW k \in 1..Len(s), s[k] = p
  PROVE  /\ Panes!RemoveAt(s, k) \in Seq(S)
         /\ Panes!ToSet(Panes!RemoveAt(s, k)) = Panes!ToSet(s) \ {p}
         /\ Panes!IsInjective(Panes!RemoveAt(s, k))
  <1> DEFINE a == SubSeq(s, 1, k - 1)
             b == SubSeq(s, k + 1, Len(s))
             r == Panes!RemoveAt(s, k)
  <1>1. /\ a \in Seq(S) /\ Len(a) = k - 1 /\ \A i \in 1..(k - 1) : a[i] = s[i]
        /\ b \in Seq(S) /\ Len(b) = Len(s) - k /\ \A i \in 1..(Len(s) - k) : b[i] = s[k + i]
        OBVIOUS
  <1>2. r = a \o b
        BY DEF Panes!RemoveAt
  <1> HIDE DEF a, b, r
  <1>3. /\ r \in Seq(S) /\ Len(r) = Len(s) - 1
        /\ \A i \in 1..(Len(s) - 1) : r[i] = IF i <= k - 1 THEN a[i] ELSE b[i - (k - 1)]
    <2>1. r \in Seq(S) /\ Len(r) = Len(a) + Len(b)
          BY <1>1, <1>2, ConcatProperties
    <2>2. \A i \in 1..(Len(a) + Len(b)) : r[i] = IF i <= Len(a) THEN a[i] ELSE b[i - Len(a)]
          BY <1>1, <1>2, ConcatProperties
    <2>3. Len(a) + Len(b) = Len(s) - 1
          BY <1>1
    <2> QED BY <1>1, <2>1, <2>2, <2>3
  <1>4. \A i \in 1..(Len(s) - 1) : r[i] = IF i < k THEN s[i] ELSE s[i + 1]
    <2> SUFFICES ASSUME NEW i \in 1..(Len(s) - 1)
                 PROVE  r[i] = IF i < k THEN s[i] ELSE s[i + 1]
        OBVIOUS
    <2>1. CASE i < k
      <3>1. i \in 1..(k - 1) /\ i <= k - 1
            BY <2>1
      <3> QED BY <1>1, <1>3, <2>1, <3>1
    <2>2. CASE i >= k
      <3>1. i - (k - 1) \in 1..(Len(s) - k) /\ k + (i - (k - 1)) = i + 1 /\ ~(i <= k - 1) /\ ~(i < k)
            BY <2>2
      <3> QED BY <1>1, <1>3, <3>1
    <2>3. i < k \/ i >= k
          OBVIOUS
    <2> QED BY <2>1, <2>2, <2>3
  <1>5. DOMAIN s = 1..Len(s) /\ DOMAIN r = 1..(Len(s) - 1)
        BY <1>3
  <1>6. \A i, j \in 1..Len(s) : s[i] = s[j] => i = j
        BY <1>5 DEF Panes!IsInjective
  <1>7. \A i \in DOMAIN r : r[i] \in Panes!ToSet(s) \ {p}
    <2> SUFFICES ASSUME NEW i \in DOMAIN r PROVE \E n \in DOMAIN s : r[i] = s[n] /\ n # k
        BY <1>5, <1>6 DEF Panes!ToSet
    <2>1. i \in DOMAIN s /\ i + 1 \in DOMAIN s
          BY <1>5
    <2>2. i < k => i # k
          OBVIOUS
    <2>3. ~(i < k) => i + 1 # k
          BY <1>5
    <2> QED BY <1>4, <1>5, <2>1, <2>2, <2>3
  <1>8. \A n \in DOMAIN s : n # k => s[n] \in Panes!ToSet(r)
    <2> SUFFICES ASSUME NEW n \in DOMAIN s, n # k PROVE \E i \in DOMAIN r : s[n] = r[i]
        BY DEF Panes!ToSet
    <2>1. CASE n < k
      <3>1. n \in DOMAIN r
            BY <1>5, <2>1
      <3> QED BY <1>4, <1>5, <2>1, <3>1
    <2>2. CASE n > k
      <3>1. n - 1 \in DOMAIN r /\ ~(n - 1 < k) /\ (n - 1) + 1 = n
            BY <1>5, <2>2
      <3> QED BY <1>4, <1>5, <3>1
    <2>3. n < k \/ n > k
          BY <1>5
    <2> QED BY <2>1, <2>2, <2>3
  <1>9. Panes!ToSet(r) = Panes!ToSet(s) \ {p}
    <2>1. \A x \in Panes!ToSet(r) : x \in Panes!ToSet(s) \ {p}
          BY <1>7 DEF Panes!ToSet
    <2>2. \A x \in Panes!ToSet(s) \ {p} : x \in Panes!ToSet(r)
          BY <1>8 DEF Panes!ToSet
    <2> QED BY <2>1, <2>2
  <1>10. \A i, j \in DOMAIN r : r[i] = r[j] => i = j
    <2> SUFFICES ASSUME NEW i \in DOMAIN r, NEW j \in DOMAIN r, r[i] = r[j] PROVE i = j
        OBVIOUS
    <2>1. i \in 1..Len(s) /\ i + 1 \in 1..Len(s) /\ j \in 1..Len(s) /\ j + 1 \in 1..Len(s)
          BY <1>5
    <2>2. CASE i < k /\ j < k
          BY <1>4, <1>5, <1>6, <2>1, <2>2
    <2>3. CASE ~(i < k) /\ ~(j < k)
      <3>1. i + 1 = j + 1
            BY <1>4, <1>5, <1>6, <2>1, <2>3
      <3> QED BY <2>1, <3>1
    <2>4. CASE i < k /\ ~(j < k)
      <3>1. i = j + 1
            BY <1>4, <1>5, <1>6, <2>1, <2>4
      <3> QED BY <2>1, <2>4, <3>1
    <2>5. CASE ~(i < k) /\ j < k
      <3>1. i + 1 = j
            BY <1>4, <1>5, <1>6, <2>1, <2>5
      <3> QED BY <2>1, <2>5, <3>1
    <2> QED BY <2>2, <2>3, <2>4, <2>5
  <1>11. Panes!IsInjective(r)
        BY <1>10 DEF Panes!IsInjective
  <1> QED BY <1>3, <1>9, <1>11 DEF r

\* Splitting adds the new leaf, which becomes the active one.
LEMMA SplitTree ==
  ASSUME NEW tree, TreeOK(tree), NEW p \in Panes!Panes, p \notin Leaf(tree)
  PROVE  TreeOK(Panes!SplitActive(tree, p)) /\ Leaf(Panes!SplitActive(tree, p)) = Leaf(tree) \cup {p}
         /\ Panes!SplitActive(tree, p).active = p
  <1> DEFINE k == Panes!Place(tree.panes, tree.active) + 1
  <1>1. tree.panes \in Seq(Panes!Panes) /\ tree.active \in Panes!ToSet(tree.panes)
        BY DEF TreeOK, Tree, Leaf
  <1>2. k \in 1..(Len(tree.panes) + 1)
    <2>1. Panes!Place(tree.panes, tree.active) \in DOMAIN tree.panes
          BY <1>1, PlaceOfLeaf
    <2> QED BY <1>1, <2>1
  <1>3. Panes!SplitActive(tree, p) = [panes |-> Panes!InsertAt(tree.panes, k, p), active |-> p]
        BY <1>1 DEF Panes!SplitActive
  <1> HIDE DEF k
  <1>4. /\ Panes!InsertAt(tree.panes, k, p) \in Seq(Panes!Panes)
        /\ Panes!ToSet(Panes!InsertAt(tree.panes, k, p)) = Panes!ToSet(tree.panes) \cup {p}
        /\ Panes!IsInjective(Panes!InsertAt(tree.panes, k, p))
        BY <1>1, <1>2, Inserted DEF TreeOK, Leaf
  <1> QED BY <1>3, <1>4 DEF TreeOK, Leaf, Tree

\* Removing a pane that is not the only one takes its leaf out, and another
\* becomes the active one if it was.
LEMMA RemoveTree ==
  ASSUME NEW tree, TreeOK(tree), NEW p, \E q \in Leaf(tree) : q # p
  PROVE  TreeOK(Panes!RemovePane(tree, p)) /\ Leaf(Panes!RemovePane(tree, p)) = Leaf(tree) \ {p}
  <1> DEFINE rest == Panes!Without(tree.panes, p)
  <1>1. tree.panes \in Seq(Panes!Panes) /\ tree.active \in Panes!ToSet(tree.panes) /\ Panes!IsInjective(tree.panes)
        BY DEF TreeOK, Tree, Leaf
  <1>2. rest \in Seq(Panes!Panes) /\ Panes!ToSet(rest) = Leaf(tree) \ {p} /\ Panes!IsInjective(rest)
    <2>1. CASE p \in Panes!ToSet(tree.panes)
      <3> DEFINE k == Panes!Place(tree.panes, p)
      <3>1. k \in 1..Len(tree.panes) /\ tree.panes[k] = p
            BY <1>1, <2>1, PlaceOfLeaf
      <3>2. rest = Panes!RemoveAt(tree.panes, k)
            BY <2>1 DEF Panes!Without
      <3> HIDE DEF k
      <3>3. /\ Panes!RemoveAt(tree.panes, k) \in Seq(Panes!Panes)
            /\ Panes!ToSet(Panes!RemoveAt(tree.panes, k)) = Panes!ToSet(tree.panes) \ {p}
            /\ Panes!IsInjective(Panes!RemoveAt(tree.panes, k))
            BY <1>1, <3>1, TakenOut
      <3> QED BY <3>2, <3>3 DEF Leaf
    <2>2. CASE p \notin Panes!ToSet(tree.panes)
          BY <1>1, <2>2 DEF Panes!Without, Leaf
    <2> QED BY <2>1, <2>2
  <1>3. Panes!RemovePane(tree, p)
        = [panes |-> rest, active |-> IF tree.active = p THEN Head(rest) ELSE tree.active]
        BY DEF Panes!RemovePane
  <1> HIDE DEF rest
  <1>4. rest # << >>
        BY <1>2 DEF Panes!ToSet
  <1>5. Head(rest) \in Panes!ToSet(rest) /\ Head(rest) \in Panes!Panes
    <2>1. Head(rest) = rest[1] /\ 1 \in DOMAIN rest
          BY <1>2, <1>4
    <2> QED BY <1>2, <2>1 DEF Panes!ToSet
  <1>6. tree.active \in Panes!Panes
        BY DEF TreeOK, Tree
  <1> QED BY <1>1, <1>2, <1>3, <1>5, <1>6 DEF TreeOK, Leaf, Tree
-----------------------------------------------------------------------------
(* Closing.                                                                *)

Shaped(s) ==
  DOMAIN s = {"trees", "registered", "shown", "ai", "tab", "last", "pending", "backend"}

BackendOK == {"none", "live", "closing", "over"}

\* What makes a record of the tabs and panes sound: PanesSound, and the types.
Sound(s) ==
  /\ DOMAIN s.trees \subseteq Panes!Tabs
  /\ \A t \in DOMAIN s.trees : TreeOK(s.trees[t])
  /\ \A t, u \in DOMAIN s.trees : t # u => Leaf(s.trees[t]) \cap Leaf(s.trees[u]) = {}
  /\ s.registered = UNION {Leaf(s.trees[t]) : t \in DOMAIN s.trees}
  /\ s.ai \subseteq s.registered
  /\ DOMAIN s.shown = DOMAIN s.trees
  /\ \A t \in DOMAIN s.trees : s.shown[t] = s.trees[t].active
  /\ s.backend \in [Panes!Panes -> BackendOK]
  /\ \A p \in Panes!Panes : s.backend[p] = "live" => p \in s.registered
  /\ s.tab \in DOMAIN s.trees \cup {Panes!Home}
  /\ {s.last, s.pending} \subseteq Panes!Panes \cup {Panes!None}

\* No tab is opened and no leaf put in on the way from r to s.
Within(r, s) ==
  \A u \in DOMAIN r.trees : u \in DOMAIN s.trees /\ Leaf(r.trees[u]) \subseteq Leaf(s.trees[u])

\* The leaves of an open tab are panes, and registered.
LEMMA LeavesRegistered ==
  ASSUME NEW s, Sound(s), NEW t \in DOMAIN s.trees, NEW p \in Leaf(s.trees[t])
  PROVE  p \in s.registered /\ p \in Panes!Panes
  <1>1. p \in s.registered
        BY DEF Sound
  <1>2. s.trees[t].panes \in Seq(Panes!Panes)
        BY DEF Sound, TreeOK, Tree
  <1>3. p \in Panes!Panes
        BY <1>2 DEF Leaf, Panes!ToSet
  <1> QED BY <1>1, <1>3

\* A tab that goes with all that belongs to its panes.
LEMMA TabGone ==
  ASSUME NEW s, Sound(s), NEW t \in DOMAIN s.trees, NEW r,
         DOMAIN r.trees = DOMAIN s.trees \ {t},
         \A u \in DOMAIN r.trees : r.trees[u] = s.trees[u],
         r.registered = s.registered \ Leaf(s.trees[t]),
         r.ai = s.ai \ Leaf(s.trees[t]),
         DOMAIN r.shown = DOMAIN s.shown \ {t},
         \A u \in DOMAIN r.shown : r.shown[u] = s.shown[u],
         r.backend \in [Panes!Panes -> BackendOK],
         \A p \in Panes!Panes : r.backend[p] = "live" =>
            s.backend[p] = "live" /\ p \notin Leaf(s.trees[t]),
         r.tab = IF s.tab = t THEN Panes!Home ELSE s.tab,
         {r.last, r.pending} \subseteq Panes!Panes \cup {Panes!None}
  PROVE  Sound(r) /\ Within(r, s)
  <1>1. \A u \in DOMAIN r.trees : Leaf(s.trees[u]) \cap Leaf(s.trees[t]) = {}
        BY DEF Sound
  <1>2. r.registered = UNION {Leaf(r.trees[u]) : u \in DOMAIN r.trees}
    <2>1. ASSUME NEW p \in r.registered
          PROVE  \E u \in DOMAIN r.trees : p \in Leaf(r.trees[u])
          BY <2>1 DEF Sound
    <2>2. ASSUME NEW u \in DOMAIN r.trees, NEW p \in Leaf(r.trees[u])
          PROVE  p \in r.registered
          BY <1>1, <2>2 DEF Sound
    <2> QED BY <2>1, <2>2
  <1>3. DOMAIN r.trees \subseteq Panes!Tabs /\ \A u \in DOMAIN r.trees : TreeOK(r.trees[u])
        BY DEF Sound
  <1>4. \A u, v \in DOMAIN r.trees : u # v => Leaf(r.trees[u]) \cap Leaf(r.trees[v]) = {}
        BY DEF Sound
  <1>5. r.ai \subseteq r.registered
        BY DEF Sound
  <1>6. DOMAIN r.shown = DOMAIN r.trees /\ \A u \in DOMAIN r.trees : r.shown[u] = r.trees[u].active
        BY DEF Sound
  <1>7. \A p \in Panes!Panes : r.backend[p] = "live" => p \in r.registered
        BY DEF Sound
  <1>8. r.tab \in DOMAIN r.trees \cup {Panes!Home}
        BY DEF Sound
  <1> QED BY <1>2, <1>3, <1>4, <1>5, <1>6, <1>7, <1>8 DEF Sound, Within

\* What close() does to the backends of some panes.
LEMMA BackendsClosed ==
  ASSUME NEW b \in [Panes!Panes -> BackendOK], NEW ps
  PROVE  /\ Panes!ClosedBackends(b, ps) \in [Panes!Panes -> BackendOK]
         /\ \A p \in Panes!Panes : Panes!ClosedBackends(b, ps)[p] = "live" =>
              b[p] = "live" /\ p \notin ps
  <1>1. Panes!ClosedBackends(b, ps) \in [Panes!Panes -> BackendOK]
        BY DEF Panes!ClosedBackends, BackendOK
  <1>2. \A p \in Panes!Panes : Panes!ClosedBackends(b, ps)[p] = "live" =>
              b[p] = "live" /\ p \notin ps
        BY DEF Panes!ClosedBackends
  <1> QED BY <1>1, <1>2

\* close_tab leaves the tabs sound, whether the tab is open or not.
LEMMA CloseTab ==
  ASSUME NEW s, Shaped(s), Sound(s), NEW t
  PROVE  Sound(Panes!close_tab(s, t)) /\ Within(Panes!close_tab(s, t), s)
  <1> DEFINE r == Panes!close_tab(s, t)
             gone == IF t \in DOMAIN s.trees THEN Panes!ToSet(s.trees[t].panes) ELSE {}
  <1>1. /\ r.trees = [u \in DOMAIN s.trees \ {t} |-> s.trees[u]]
        /\ r.shown = [u \in DOMAIN s.shown \ {t} |-> s.shown[u]]
        /\ r.registered = s.registered \ gone /\ r.ai = s.ai \ gone
        /\ r.backend = Panes!ClosedBackends(s.backend, Panes!PanesOf(s, t))
        /\ r.tab = (IF s.tab = t THEN Panes!Home ELSE s.tab)
        /\ r.last = (IF s.last \in gone THEN Panes!None ELSE s.last) /\ r.pending = s.pending
        BY DEF Panes!close_tab, Panes!Restrict, Shaped
  <1>2. /\ r.backend \in [Panes!Panes -> BackendOK]
        /\ \A p \in Panes!Panes : r.backend[p] = "live" =>
              s.backend[p] = "live" /\ p \notin Panes!PanesOf(s, t)
        BY <1>1, BackendsClosed DEF Sound
  <1>3. {r.last, r.pending} \subseteq Panes!Panes \cup {Panes!None}
        BY <1>1 DEF Sound
  <1> HIDE DEF r
  <1>4. CASE t \in DOMAIN s.trees
    <2>1. gone = Leaf(s.trees[t])
          BY <1>4 DEF Leaf
    <2>2. \A p \in Leaf(s.trees[t]) : p \in Panes!PanesOf(s, t)
          BY <1>4, LeavesRegistered DEF Panes!PanesOf, Leaf
    <2>3. \A p \in Panes!Panes : r.backend[p] = "live" =>
              s.backend[p] = "live" /\ p \notin Leaf(s.trees[t])
          BY <1>2, <2>2
    <2>4. /\ DOMAIN r.trees = DOMAIN s.trees \ {t} /\ \A u \in DOMAIN r.trees : r.trees[u] = s.trees[u]
          /\ DOMAIN r.shown = DOMAIN s.shown \ {t} /\ \A u \in DOMAIN r.shown : r.shown[u] = s.shown[u]
          BY <1>1
    <2>5. r.registered = s.registered \ Leaf(s.trees[t]) /\ r.ai = s.ai \ Leaf(s.trees[t])
          BY <1>1, <2>1
    <2> QED BY <1>1, <1>2, <1>3, <1>4, <2>3, <2>4, <2>5, TabGone DEF r
  <1>5. CASE t \notin DOMAIN s.trees
    <2>1. /\ DOMAIN r.trees = DOMAIN s.trees /\ \A u \in DOMAIN r.trees : r.trees[u] = s.trees[u]
          /\ DOMAIN r.shown = DOMAIN s.trees /\ \A u \in DOMAIN r.trees : r.shown[u] = s.shown[u]
          BY <1>1, <1>5 DEF Sound
    <2>2. r.registered = s.registered /\ r.ai = s.ai
          BY <1>1, <1>5
    <2>3. r.registered = UNION {Leaf(r.trees[u]) : u \in DOMAIN r.trees}
          BY <2>1, <2>2 DEF Sound
    <2>4. r.tab \in DOMAIN r.trees \cup {Panes!Home}
          BY <1>1, <2>1 DEF Sound
    <2> QED BY <1>2, <1>3, <2>1, <2>2, <2>3, <2>4 DEF Sound, Within, r
  <1> QED BY <1>4, <1>5

\* close_pane leaves the tabs sound, whether the pane is the last of its tab, one of
\* several or gone already, as long as it is in no other tab's tree.
LEMMA ClosePane ==
  ASSUME NEW s, Shaped(s), Sound(s), NEW t, NEW p \in Panes!Panes,
         \A u \in DOMAIN s.trees : p \in Leaf(s.trees[u]) => u = t
  PROVE  Sound(Panes!close_pane(s, t, p)) /\ Within(Panes!close_pane(s, t, p), s)
  <1> DEFINE closed == [s EXCEPT !.backend = Panes!ClosedBackends(s.backend, {p} \cap s.registered),
                                 !.registered = @ \ {p}, !.ai = @ \ {p},
                                 !.last = IF @ = p THEN Panes!None ELSE @]
             others == {q \in Panes!ToSet(s.trees[t].panes) : q # p}
             next == Panes!RemovePane(s.trees[t], p)
  <1>1. /\ Shaped(closed) /\ closed.trees = s.trees /\ closed.shown = s.shown
        /\ closed.registered = s.registered \ {p} /\ closed.ai = s.ai \ {p}
        /\ closed.backend = Panes!ClosedBackends(s.backend, {p} \cap s.registered)
        /\ closed.tab = s.tab /\ closed.pending = s.pending
        /\ closed.last = (IF s.last = p THEN Panes!None ELSE s.last)
        BY DEF Shaped
  <1>2. /\ closed.backend \in [Panes!Panes -> BackendOK]
        /\ \A q \in Panes!Panes : closed.backend[q] = "live" =>
              s.backend[q] = "live" /\ q \notin {p} \cap s.registered
        BY <1>1, BackendsClosed DEF Sound
  <1>3. \A q \in Panes!Panes : closed.backend[q] = "live" => q \in s.registered /\ q # p
        BY <1>2 DEF Sound
  <1>4. {closed.last, closed.pending} \subseteq Panes!Panes \cup {Panes!None}
        BY <1>1 DEF Sound
  <1>5. Panes!close_pane(s, t, p) =
          IF t \notin DOMAIN s.trees THEN closed
          ELSE IF others = {}
          THEN Panes!close_tab([closed EXCEPT !.trees = Panes!Restrict(s.trees, DOMAIN s.trees \ {t})], t)
          ELSE [closed EXCEPT !.trees[t] = next, !.last = next.active, !.pending = next.active,
                              !.shown = Panes!sync_active_pane_view(closed, t, next.active)]
        BY DEF Panes!close_pane
  <1>d. \A u, v \in DOMAIN s.trees : u # v => Leaf(s.trees[u]) \cap Leaf(s.trees[v]) = {}
        BY DEF Sound
  <1>r. \A q : q \in s.registered <=> \E u \in DOMAIN s.trees : q \in Leaf(s.trees[u])
        BY DEF Sound
  <1>s. DOMAIN s.shown = DOMAIN s.trees /\ \A u \in DOMAIN s.trees : s.shown[u] = s.trees[u].active
        BY DEF Sound
  <1> HIDE DEF closed, next
  <1>6. CASE t \notin DOMAIN s.trees
    <2>1. p \notin s.registered
          BY <1>6 DEF Sound
    <2>2. closed.registered = s.registered /\ closed.ai = s.ai
          BY <1>1, <2>1 DEF Sound
    <2>3. closed.registered = UNION {Leaf(closed.trees[u]) : u \in DOMAIN closed.trees}
      <3>1. UNION {Leaf(closed.trees[u]) : u \in DOMAIN closed.trees}
            = UNION {Leaf(s.trees[u]) : u \in DOMAIN s.trees}
            BY <1>1
      <3> QED BY <2>2, <3>1 DEF Sound
    <2>4. \A q \in Panes!Panes : closed.backend[q] = "live" => q \in closed.registered
          BY <1>3, <2>2
    <2>5. closed.ai \subseteq closed.registered
          BY <2>2 DEF Sound
    <2>6. \A u, v \in DOMAIN closed.trees : u # v => Leaf(closed.trees[u]) \cap Leaf(closed.trees[v]) = {}
          BY <1>1, <1>d
    <2>7. DOMAIN closed.trees \subseteq Panes!Tabs
          /\ \A u \in DOMAIN closed.trees : TreeOK(closed.trees[u])
          BY <1>1 DEF Sound
    <2>8. /\ DOMAIN closed.shown = DOMAIN closed.trees
          /\ \A u \in DOMAIN closed.trees : closed.shown[u] = closed.trees[u].active
          /\ closed.tab \in DOMAIN closed.trees \cup {Panes!Home}
          BY <1>1, <1>s DEF Sound
    <2>9. Sound(closed)
          BY <1>2, <1>4, <2>3, <2>4, <2>5, <2>6, <2>7, <2>8, Zenon DEF Sound
    <2> QED BY <1>1, <1>5, <1>6, <2>9 DEF Within
  <1>7. CASE t \in DOMAIN s.trees /\ others = {}
    <2> DEFINE c == [closed EXCEPT !.trees = Panes!Restrict(s.trees, DOMAIN s.trees \ {t})]
               r == Panes!close_tab(c, t)
    <2>1. Leaf(s.trees[t]) = {p}
          BY <1>7 DEF Sound, TreeOK, Leaf
    <2>2. /\ Shaped(c) /\ c.trees = [u \in DOMAIN s.trees \ {t} |-> s.trees[u]]
          /\ c.shown = s.shown /\ c.registered = s.registered \ {p} /\ c.ai = s.ai \ {p}
          /\ c.backend = closed.backend /\ c.tab = s.tab
          /\ c.last = closed.last /\ c.pending = closed.pending
          BY <1>1 DEF Shaped, Panes!Restrict
    <2> HIDE DEF c
    <2>3. t \notin DOMAIN c.trees
          BY <2>2
    <2>4. /\ r.trees = [u \in DOMAIN c.trees \ {t} |-> c.trees[u]]
          /\ r.shown = [u \in DOMAIN c.shown \ {t} |-> c.shown[u]]
          /\ r.registered = c.registered /\ r.ai = c.ai
          /\ r.backend = Panes!ClosedBackends(c.backend, Panes!PanesOf(c, t))
          /\ r.tab = (IF c.tab = t THEN Panes!Home ELSE c.tab)
          /\ r.last = c.last /\ r.pending = c.pending
          BY <2>2, <2>3 DEF Panes!close_tab, Panes!Restrict, Shaped
    <2>5. /\ r.backend \in [Panes!Panes -> BackendOK]
          /\ \A q \in Panes!Panes : r.backend[q] = "live" => c.backend[q] = "live"
          BY <1>2, <2>2, <2>4, BackendsClosed
    <2> HIDE DEF r
    <2>6. /\ DOMAIN r.trees = DOMAIN s.trees \ {t} /\ \A u \in DOMAIN r.trees : r.trees[u] = s.trees[u]
          BY <2>2, <2>4
    <2>7. /\ DOMAIN r.shown = DOMAIN s.shown \ {t} /\ \A u \in DOMAIN r.shown : r.shown[u] = s.shown[u]
          BY <2>2, <2>4
    <2>8. r.registered = s.registered \ Leaf(s.trees[t]) /\ r.ai = s.ai \ Leaf(s.trees[t])
          BY <2>1, <2>2, <2>4
    <2>9. \A q \in Panes!Panes : r.backend[q] = "live" =>
            s.backend[q] = "live" /\ q \notin Leaf(s.trees[t])
          BY <1>2, <1>3, <2>1, <2>2, <2>5
    <2>10. r.tab = (IF s.tab = t THEN Panes!Home ELSE s.tab)
           BY <2>2, <2>4
    <2>11. {r.last, r.pending} \subseteq Panes!Panes \cup {Panes!None}
           BY <1>4, <2>2, <2>4
    <2>12. Sound(r) /\ Within(r, s)
           BY <1>7, <2>5, <2>6, <2>7, <2>8, <2>9, <2>10, <2>11, TabGone
    <2> QED BY <1>5, <1>7, <2>12 DEF r, c
  <1>8. CASE t \in DOMAIN s.trees /\ others # {}
    <2> DEFINE r == [closed EXCEPT !.trees[t] = next, !.last = next.active, !.pending = next.active,
                                   !.shown = Panes!sync_active_pane_view(closed, t, next.active)]
    <2>1. TreeOK(s.trees[t])
          BY <1>8 DEF Sound
    <2>2. TreeOK(next) /\ Leaf(next) = Leaf(s.trees[t]) \ {p}
          BY <1>8, <2>1, RemoveTree DEF Leaf, next
    <2>3. next.active \in Leaf(s.trees[t]) /\ next.active # p /\ next.active \in Panes!Panes
          BY <2>2 DEF TreeOK, Tree
    <2>4. next.active \in closed.registered
          BY <1>1, <1>8, <2>3, LeavesRegistered
    <2>5. /\ r.trees = [s.trees EXCEPT ![t] = next]
          /\ r.shown = Panes!sync_active_pane_view(closed, t, next.active)
          /\ r.registered = closed.registered /\ r.ai = closed.ai /\ r.backend = closed.backend
          /\ r.tab = s.tab /\ r.last = next.active /\ r.pending = next.active
          BY <1>1 DEF Shaped
    <2> HIDE DEF r
    <2>6. DOMAIN r.trees = DOMAIN s.trees /\ r.trees[t] = next
          /\ \A u \in DOMAIN s.trees : u # t => r.trees[u] = s.trees[u]
          BY <1>8, <2>5
    <2>7. \A u \in DOMAIN s.trees : Leaf(r.trees[u]) = Leaf(s.trees[u]) \ {p}
          BY <2>2, <2>6
    <2>8. \A u, v \in DOMAIN r.trees : u # v => Leaf(r.trees[u]) \cap Leaf(r.trees[v]) = {}
          BY <2>6, <2>7, <1>d
    <2>9. r.registered = UNION {Leaf(r.trees[u]) : u \in DOMAIN r.trees}
      <3>1. ASSUME NEW q \in r.registered
            PROVE  \E u \in DOMAIN r.trees : q \in Leaf(r.trees[u])
            BY <1>1, <1>r, <2>5, <2>6, <2>7, <3>1
      <3>2. ASSUME NEW u \in DOMAIN r.trees, NEW q \in Leaf(r.trees[u])
            PROVE  q \in r.registered
            BY <1>1, <1>r, <2>5, <2>6, <2>7, <3>2
      <3> QED BY <3>1, <3>2
    <2>10. \A u \in DOMAIN r.trees : TreeOK(r.trees[u])
           BY <2>2, <2>6 DEF Sound
    <2>11. DOMAIN r.shown = DOMAIN r.trees
           /\ \A u \in DOMAIN r.trees : r.shown[u] = r.trees[u].active
      <3>1. /\ DOMAIN r.shown = DOMAIN closed.shown \cup {t} /\ r.shown[t] = next.active
            /\ \A u \in DOMAIN closed.shown : u # t => r.shown[u] = closed.shown[u]
        <4> DEFINE v == Panes!sync_active_pane_view(closed, t, next.active)
        <4>1. /\ DOMAIN v = DOMAIN closed.shown \cup {t} /\ v[t] = next.active
              /\ \A u \in DOMAIN closed.shown : u # t => v[u] = closed.shown[u]
              BY <2>4 DEF Panes!sync_active_pane_view
        <4>2. r.shown = v
              BY <2>5
        <4> HIDE DEF v
        <4> QED BY <4>1, <4>2
      <3>2. DOMAIN closed.shown \cup {t} = DOMAIN s.trees
            BY <1>1, <1>8, <1>s
      <3>3. DOMAIN r.shown = DOMAIN r.trees
            BY <2>6, <3>1, <3>2
      <3>4. \A u \in DOMAIN s.trees : u # t => r.shown[u] = s.trees[u].active
            BY <1>1, <1>s, <3>1
      <3>5. \A u \in DOMAIN s.trees : r.shown[u] = r.trees[u].active
        <4> SUFFICES ASSUME NEW u \in DOMAIN s.trees PROVE r.shown[u] = r.trees[u].active
            OBVIOUS
        <4>1. CASE u = t
              BY <2>6, <3>1, <4>1
        <4>2. CASE u # t
              BY <2>6, <3>4, <4>2
        <4> QED BY <4>1, <4>2
      <3> QED BY <2>6, <3>3, <3>5
    <2>12. r.ai \subseteq r.registered /\ DOMAIN r.trees \subseteq Panes!Tabs
           /\ r.tab \in DOMAIN r.trees \cup {Panes!Home}
           BY <1>1, <2>5, <2>6 DEF Sound
    <2>13. /\ r.backend \in [Panes!Panes -> BackendOK]
           /\ \A q \in Panes!Panes : r.backend[q] = "live" => q \in r.registered
           BY <1>1, <1>2, <1>3, <2>5
    <2>14. Sound(r)
           BY <2>3, <2>5, <2>8, <2>9, <2>10, <2>11, <2>12, <2>13 DEF Sound
    <2>15. Within(r, s)
           BY <2>6, <2>7 DEF Within
    <2> QED BY <1>5, <1>8, <2>14, <2>15 DEF r
  <1> QED BY <1>6, <1>7, <1>8

\* Another leaf becomes the active one, and the view on show follows.
LEMMA Activated ==
  ASSUME NEW s, Sound(s), NEW t \in DOMAIN s.trees, NEW p \in Leaf(s.trees[t]), NEW r,
         r.trees = [s.trees EXCEPT ![t].active = p],
         DOMAIN r.shown = DOMAIN s.shown, r.shown[t] = p,
         \A u \in DOMAIN s.shown : u # t => r.shown[u] = s.shown[u],
         r.registered = s.registered, r.ai \subseteq s.registered, r.backend = s.backend,
         r.tab = s.tab, {r.last, r.pending} \subseteq Panes!Panes \cup {Panes!None}
  PROVE  Sound(r) /\ Within(r, s)
  <1>1. DOMAIN r.trees = DOMAIN s.trees /\ r.trees[t] = [s.trees[t] EXCEPT !.active = p]
        /\ \A u \in DOMAIN s.trees : u # t => r.trees[u] = s.trees[u]
        OBVIOUS
  <1>2. p \in Panes!Panes
        BY LeavesRegistered
  <1>3. TreeOK(s.trees[t])
        BY DEF Sound
  <1>4. TreeOK(r.trees[t]) /\ Leaf(r.trees[t]) = Leaf(s.trees[t]) /\ r.trees[t].active = p
        BY <1>1, <1>2, <1>3 DEF TreeOK, Leaf, Tree
  <1>5. \A u \in DOMAIN s.trees : Leaf(r.trees[u]) = Leaf(s.trees[u]) /\ TreeOK(r.trees[u])
    <2> SUFFICES ASSUME NEW u \in DOMAIN s.trees
                 PROVE  Leaf(r.trees[u]) = Leaf(s.trees[u]) /\ TreeOK(r.trees[u])
        OBVIOUS
    <2>1. CASE u = t
          BY <1>4, <2>1
    <2>2. CASE u # t
          BY <1>1, <2>2 DEF Sound
    <2> QED BY <2>1, <2>2
  <1>6. \A u, v \in DOMAIN r.trees : u # v => Leaf(r.trees[u]) \cap Leaf(r.trees[v]) = {}
    <2>1. \A u, v \in DOMAIN s.trees : u # v => Leaf(s.trees[u]) \cap Leaf(s.trees[v]) = {}
          BY DEF Sound
    <2> QED BY <1>1, <1>5, <2>1
  <1>7. r.registered = UNION {Leaf(r.trees[u]) : u \in DOMAIN r.trees}
    <2>1. \A q : q \in s.registered <=> \E u \in DOMAIN s.trees : q \in Leaf(s.trees[u])
          BY DEF Sound
    <2>2. ASSUME NEW q \in r.registered PROVE \E u \in DOMAIN r.trees : q \in Leaf(r.trees[u])
          BY <1>1, <1>5, <2>1, <2>2
    <2>3. ASSUME NEW u \in DOMAIN r.trees, NEW q \in Leaf(r.trees[u]) PROVE q \in r.registered
          BY <1>1, <1>5, <2>1, <2>3
    <2> QED BY <2>2, <2>3
  <1>8. DOMAIN r.shown = DOMAIN r.trees /\ \A u \in DOMAIN r.trees : r.shown[u] = r.trees[u].active
    <2>1. DOMAIN s.shown = DOMAIN s.trees /\ \A u \in DOMAIN s.trees : s.shown[u] = s.trees[u].active
          BY DEF Sound
    <2>2. DOMAIN r.shown = DOMAIN r.trees
          BY <1>1, <2>1
    <2>3. ASSUME NEW u \in DOMAIN r.trees PROVE r.shown[u] = r.trees[u].active
      <3>1. CASE u = t
            BY <1>4, <3>1
      <3>2. CASE u # t
            BY <1>1, <2>1, <3>2
      <3> QED BY <3>1, <3>2
    <2> QED BY <2>2, <2>3
  <1>9. /\ DOMAIN r.trees \subseteq Panes!Tabs /\ r.tab \in DOMAIN r.trees \cup {Panes!Home}
        /\ r.backend \in [Panes!Panes -> BackendOK]
        /\ \A q \in Panes!Panes : r.backend[q] = "live" => q \in r.registered
        BY <1>1 DEF Sound
  <1>10. Sound(r)
         BY <1>1, <1>5, <1>6, <1>7, <1>8, <1>9 DEF Sound
  <1> QED BY <1>1, <1>5, <1>10 DEF Within

-----------------------------------------------------------------------------
(* The inductive invariant.                                                *)

\* A leaf is in the tree of the tab that its pane was opened in.
InPlace == \A t \in Panes!Open : \A p \in Leaf(trees[t]) : tabOf[p] = t

\* What is open was given its id before.
Fresh == \A t \in Panes!Open : t < nextTab /\ \A p \in Leaf(trees[t]) : p < nextPane

\* The types of what Sound does not speak of.
Typed ==
  /\ nextTab \in 2..MaxTabs + 2 /\ nextPane \in 1..MaxPanes + 1
  /\ primary \subseteq Panes!Panes
  /\ drawnTab \in Panes!Tabs \cup {Panes!Home}
  /\ {focus, flagged} \subseteq Panes!Panes \cup {Panes!None}
  /\ lent \subseteq [by : Panes!Panes, tab : Panes!Tabs, from : Panes!Panes]
  /\ tabOf \in [Panes!Panes -> Panes!Tabs \cup {Panes!Home}]

PInv == Sound(Panes!State) /\ InPlace /\ Fresh /\ Typed

\* What the variables say of the record of them.
LEMMA StateFields ==
  /\ Shaped(Panes!State)
  /\ Panes!State.trees = trees /\ Panes!State.registered = registered
  /\ Panes!State.shown = shown /\ Panes!State.ai = aiPanels /\ Panes!State.tab = activeTab
  /\ Panes!State.last = lastFocused /\ Panes!State.pending = pendingFocus
  /\ Panes!State.backend = backend
BY DEF Shaped, Panes!State

LEMMA Becomes ==
  ASSUME NEW r, Panes!Become(r), Sound(r)
  PROVE  Sound(Panes!State)' /\ trees' = r.trees
  <1>1. /\ (Panes!State)'.trees = r.trees /\ (Panes!State)'.registered = r.registered
        /\ (Panes!State)'.shown = r.shown /\ (Panes!State)'.ai = r.ai
        /\ (Panes!State)'.tab = r.tab /\ (Panes!State)'.last = r.last
        /\ (Panes!State)'.pending = r.pending /\ (Panes!State)'.backend = r.backend
        BY DEF Panes!State, Panes!Become
  <1>2. trees' = r.trees
        BY DEF Panes!Become
  <1> QED BY <1>1, <1>2 DEF Sound

\* A step that opens nothing keeps the invariant.
LEMMA Shrinks ==
  ASSUME PInv, NEW r, Panes!Become(r), Sound(r), Within(r, Panes!State),
         UNCHANGED Panes!idVars,
         drawnTab' \in Panes!Tabs \cup {Panes!Home},
         {focus', flagged'} \subseteq Panes!Panes \cup {Panes!None}
  PROVE  PInv'
  <1>1. Sound(Panes!State)' /\ trees' = r.trees
        BY Becomes
  <1>2. \A u \in DOMAIN trees' : u \in DOMAIN trees /\ Leaf(trees'[u]) \subseteq Leaf(trees[u])
        BY <1>1, StateFields DEF Within
  <1>3. InPlace' /\ Fresh'
        BY <1>2 DEF PInv, InPlace, Fresh, Panes!Open, Panes!idVars
  <1>4. Typed'
        BY DEF PInv, Typed, Panes!idVars
  <1> QED BY <1>1, <1>3, <1>4 DEF PInv

-----------------------------------------------------------------------------
(* Each action keeps it.                                                   *)

LEMMA PInit == Panes!Init => PInv
  <1> SUFFICES ASSUME Panes!Init PROVE PInv
      OBVIOUS
  <1> USE DEF Panes!Init
  <1>1. DOMAIN trees = {} /\ DOMAIN shown = {}
        OBVIOUS
  <1>2. MaxTabs \in Nat /\ MaxPanes \in Nat
        BY PanesAssumption DEF Panes!WorkspaceAssumption
  <1>3. registered = UNION {Leaf(trees[t]) : t \in DOMAIN trees}
        BY <1>1
  <1>4. backend \in [Panes!Panes -> BackendOK] /\ \A p \in Panes!Panes : backend[p] # "live"
        BY DEF BackendOK
  <1>5. Sound(Panes!State)
        BY <1>1, <1>3, <1>4, StateFields DEF Sound
  <1>6. InPlace /\ Fresh
        BY <1>1 DEF InPlace, Fresh, Panes!Open
  <1>7. Typed
        BY <1>2 DEF Typed, Panes!Home, Panes!None, Panes!Tabs
  <1> QED BY <1>5, <1>6, <1>7 DEF PInv

\* The parts of Sound as the variables have them.
LEMMA SoundParts ==
  ASSUME PInv
  PROVE  /\ DOMAIN trees \subseteq Panes!Tabs /\ DOMAIN shown = DOMAIN trees
         /\ \A t \in DOMAIN trees : TreeOK(trees[t]) /\ shown[t] = trees[t].active
         /\ \A t, u \in DOMAIN trees : t # u => Leaf(trees[t]) \cap Leaf(trees[u]) = {}
         /\ \A t \in DOMAIN trees : \A p \in Leaf(trees[t]) : p \in registered /\ p \in Panes!Panes
         /\ \A p \in registered : \E t \in DOMAIN trees : p \in Leaf(trees[t])
         /\ registered \subseteq Panes!Panes /\ aiPanels \subseteq registered
         /\ backend \in [Panes!Panes -> BackendOK]
         /\ \A p \in Panes!Panes : backend[p] = "live" => p \in registered
         /\ activeTab \in DOMAIN trees \cup {Panes!Home}
         /\ {lastFocused, pendingFocus} \subseteq Panes!Panes \cup {Panes!None}
  <1> DEFINE s == Panes!State
  <1>1. Sound(s) /\ Shaped(s)
        BY StateFields DEF PInv
  <1>2. /\ s.trees = trees /\ s.registered = registered
        /\ s.shown = shown /\ s.ai = aiPanels /\ s.tab = activeTab
        /\ s.last = lastFocused /\ s.pending = pendingFocus /\ s.backend = backend
        BY StateFields
  <1> HIDE DEF s
  <1>3. \A t \in DOMAIN trees : \A p \in Leaf(trees[t]) : p \in registered /\ p \in Panes!Panes
        BY <1>1, <1>2, LeavesRegistered
  <1>4. \A p \in registered : \E t \in DOMAIN trees : p \in Leaf(trees[t])
        BY <1>1, <1>2 DEF Sound
  <1>5. registered \subseteq Panes!Panes
        BY <1>3, <1>4
  <1>6. \A t, u \in DOMAIN trees : t # u => Leaf(trees[t]) \cap Leaf(trees[u]) = {}
        BY <1>1, <1>2 DEF Sound
  <1> QED BY <1>1, <1>2, <1>3, <1>4, <1>5, <1>6 DEF Sound

LEMMA CloseButtonStep == ASSUME PInv, NEW t \in Panes!Tabs, Panes!CloseButton(t) PROVE PInv'
  <1> DEFINE s == Panes!State
             p == trees[t].active
             r == Panes!close_pane(s, t, p)
  <1>1. t \in DOMAIN trees /\ Panes!Become(r) /\ UNCHANGED <<Panes!idVars, focus, flagged, drawnTab>>
        BY DEF Panes!CloseButton, Panes!Open
  <1>2. p \in Leaf(trees[t]) /\ p \in Panes!Panes
        BY <1>1, SoundParts DEF TreeOK
  <1>3. \A u \in DOMAIN s.trees : p \in Leaf(s.trees[u]) => u = t
        BY <1>1, <1>2, SoundParts, StateFields
  <1>4. Sound(s) /\ Shaped(s)
        BY StateFields DEF PInv
  <1> HIDE DEF s, p
  <1>5. Sound(r) /\ Within(r, s)
        BY <1>2, <1>3, <1>4, ClosePane
  <1> HIDE DEF r
  <1>6. drawnTab' \in Panes!Tabs \cup {Panes!Home} /\ {focus', flagged'} \subseteq Panes!Panes \cup {Panes!None}
        BY <1>1 DEF PInv, Typed
  <1> QED BY <1>1, <1>5, <1>6, Shrinks DEF s

LEMMA BackendClosedStep == ASSUME PInv, NEW p \in Panes!Panes, Panes!BackendClosed(p) PROVE PInv'
  <1> DEFINE s == [Panes!State EXCEPT !.backend[p] = "over"]
             r == IF p \in primary THEN Panes!close_tab(s, tabOf[p]) ELSE Panes!close_pane(s, tabOf[p], p)
  <1>1. Panes!Become(r) /\ UNCHANGED <<Panes!idVars, focus, flagged, drawnTab>>
        BY DEF Panes!BackendClosed
  <1>2. /\ Shaped(s) /\ s.trees = trees /\ s.registered = registered /\ s.shown = shown
        /\ s.ai = aiPanels /\ s.tab = activeTab /\ s.last = lastFocused
        /\ s.pending = pendingFocus /\ s.backend = [backend EXCEPT ![p] = "over"]
        BY DEF Panes!State, Shaped
  <1> HIDE DEF s
  <1>3. /\ s.backend \in [Panes!Panes -> BackendOK]
        /\ \A q \in Panes!Panes : s.backend[q] = "live" => q \in s.registered
        BY <1>2, SoundParts DEF BackendOK
  <1>4. s.registered = UNION {Leaf(s.trees[t]) : t \in DOMAIN s.trees}
    <2>1. registered = UNION {Leaf(trees[t]) : t \in DOMAIN trees}
          BY SoundParts
    <2> QED BY <1>2, <2>1
  <1>5. \A t, u \in DOMAIN s.trees : t # u => Leaf(s.trees[t]) \cap Leaf(s.trees[u]) = {}
        BY <1>2, SoundParts
  <1>6. /\ DOMAIN s.trees \subseteq Panes!Tabs
        /\ \A t \in DOMAIN s.trees : TreeOK(s.trees[t])
        /\ s.ai \subseteq s.registered
        /\ DOMAIN s.shown = DOMAIN s.trees
        /\ \A t \in DOMAIN s.trees : s.shown[t] = s.trees[t].active
        /\ s.tab \in DOMAIN s.trees \cup {Panes!Home}
        /\ {s.last, s.pending} \subseteq Panes!Panes \cup {Panes!None}
        BY <1>2, SoundParts
  <1>7. Sound(s)
        BY <1>3, <1>4, <1>5, <1>6, Zenon DEF Sound
  <1>8. \A u \in DOMAIN s.trees : p \in Leaf(s.trees[u]) => u = tabOf[p]
        BY <1>2 DEF PInv, InPlace, Panes!Open
  <1>9. Sound(r) /\ Within(r, s)
    <2>1. CASE p \in primary
          BY <1>2, <1>7, <2>1, CloseTab
    <2>2. CASE p \notin primary
          BY <1>2, <1>7, <1>8, <2>2, ClosePane
    <2> QED BY <2>1, <2>2
  <1> HIDE DEF r
  <1>10. Within(r, Panes!State)
         BY <1>2, <1>9, StateFields DEF Within
  <1>11. drawnTab' \in Panes!Tabs \cup {Panes!Home} /\ {focus', flagged'} \subseteq Panes!Panes \cup {Panes!None}
         BY <1>1 DEF PInv, Typed
  <1> QED BY <1>1, <1>9, <1>10, <1>11, Shrinks

\* A step that touches no tree keeps it as long as what it changes is in its type.
LEMMA TreesStay ==
  ASSUME PInv, UNCHANGED <<trees, registered, shown, backend, nextTab, nextPane, tabOf>>,
         aiPanels' \subseteq registered, activeTab' \in DOMAIN trees \cup {Panes!Home},
         {lastFocused', pendingFocus'} \subseteq Panes!Panes \cup {Panes!None}, Typed'
  PROVE  PInv'
  <1> DEFINE r == [Panes!State EXCEPT !.ai = aiPanels', !.tab = activeTab', !.last = lastFocused',
                                      !.pending = pendingFocus']
  <1>1. /\ r.trees = trees /\ r.registered = registered /\ r.shown = shown /\ r.ai = aiPanels'
        /\ r.tab = activeTab' /\ r.last = lastFocused' /\ r.pending = pendingFocus'
        /\ r.backend = backend
        BY DEF Panes!State
  <1> HIDE DEF r
  <1>2. Panes!Become(r)
        BY <1>1 DEF Panes!Become
  <1>3. r.registered = UNION {Leaf(r.trees[t]) : t \in DOMAIN r.trees}
    <2>1. registered = UNION {Leaf(trees[t]) : t \in DOMAIN trees}
          BY SoundParts
    <2> QED BY <1>1, <2>1
  <1>4. \A t, u \in DOMAIN r.trees : t # u => Leaf(r.trees[t]) \cap Leaf(r.trees[u]) = {}
        BY <1>1, SoundParts
  <1>5. /\ DOMAIN r.trees \subseteq Panes!Tabs
        /\ \A t \in DOMAIN r.trees : TreeOK(r.trees[t])
        /\ r.ai \subseteq r.registered
        /\ DOMAIN r.shown = DOMAIN r.trees
        /\ \A t \in DOMAIN r.trees : r.shown[t] = r.trees[t].active
        /\ r.tab \in DOMAIN r.trees \cup {Panes!Home}
        /\ {r.last, r.pending} \subseteq Panes!Panes \cup {Panes!None}
        BY <1>1, SoundParts
  <1>6. /\ r.backend \in [Panes!Panes -> BackendOK]
        /\ \A q \in Panes!Panes : r.backend[q] = "live" => q \in r.registered
        BY <1>1, SoundParts
  <1>7. Sound(r)
        BY <1>3, <1>4, <1>5, <1>6, Zenon DEF Sound
  <1>8. Sound(Panes!State)' /\ trees' = trees
        BY <1>2, <1>7, Becomes
  <1>9. InPlace' /\ Fresh'
        BY <1>8 DEF PInv, InPlace, Fresh, Panes!Open
  <1> QED BY <1>8, <1>9 DEF PInv

LEMMA ActivateTabStep ==
  ASSUME PInv, NEW t \in Panes!Tabs \cup {Panes!Home}, Panes!ActivateTab(t) PROVE PInv'
  <1> USE DEF Panes!ActivateTab, Panes!idVars, Panes!layoutVars, Panes!focusVars
  <1>1. Typed'
        BY DEF PInv, Typed
  <1> QED BY <1>1, SoundParts, TreesStay DEF Panes!Open

LEMMA ContextMenuStep ==
  ASSUME PInv, NEW p \in Panes!Panes, Panes!ContextMenu(p) PROVE PInv'
  <1> USE DEF Panes!ContextMenu, Panes!idVars, Panes!layoutVars
  <1>1. Typed'
        BY DEF PInv, Typed
  <1> QED BY <1>1, SoundParts, TreesStay

LEMMA MoveFocusStep ==
  ASSUME PInv, NEW p \in Panes!Panes \cup {Panes!None}, Panes!MoveFocus(p) PROVE PInv'
  <1> USE DEF Panes!MoveFocus, Panes!idVars, Panes!layoutVars
  <1>1. Typed'
        BY DEF PInv, Typed
  <1> QED BY <1>1, SoundParts, TreesStay

LEMMA AgentOpensStep ==
  ASSUME PInv, NEW p \in Panes!Panes, Panes!AgentOpens(p) PROVE PInv'
  <1> DEFINE id == IF p \in primary THEN tabOf[p] ELSE p
  <1>1. id \in DOMAIN shown /\ lent' = {[by |-> p, tab |-> id, from |-> shown[id]]}
        /\ UNCHANGED <<nextTab, nextPane, tabOf, primary, Panes!layoutVars, Panes!focusVars, activeTab, backend>>
        BY DEF Panes!AgentOpens
  <1> HIDE DEF id
  <1>2. id \in Panes!Tabs /\ shown[id] \in Panes!Panes
        BY <1>1, SoundParts DEF TreeOK, Tree
  <1> USE DEF Panes!layoutVars, Panes!focusVars
  <1>3. Typed'
        BY <1>1, <1>2 DEF PInv, Typed
  <1> QED BY <1>1, <1>3, SoundParts, TreesStay

LEMMA FocusPaneStep ==
  ASSUME PInv, NEW p \in Panes!Panes, Panes!FocusPane(p) PROVE PInv'
  <1> DEFINE s == Panes!State
             r == [s EXCEPT !.trees[activeTab].active = p, !.last = p,
                            !.shown = Panes!sync_active_pane_view(s, activeTab, p)]
  <1>1. /\ activeTab \in DOMAIN trees /\ p \in Leaf(trees[activeTab]) /\ Panes!Become(r)
        /\ focus' = p /\ UNCHANGED <<Panes!idVars, flagged, drawnTab>>
        BY DEF Panes!FocusPane, Panes!Open, Panes!Leaves, Leaf
  <1>2. /\ Sound(s) /\ Shaped(s) /\ s.trees = trees /\ s.registered = registered
        /\ s.shown = shown /\ s.ai = aiPanels /\ s.tab = activeTab
        /\ s.last = lastFocused /\ s.pending = pendingFocus /\ s.backend = backend
        BY StateFields DEF PInv
  <1> HIDE DEF s
  <1>3. p \in registered /\ DOMAIN shown \cup {activeTab} = DOMAIN shown
    <2>1. activeTab \in DOMAIN trees /\ p \in Leaf(trees[activeTab])
          BY <1>1
    <2>2. p \in registered
          BY <2>1, SoundParts
    <2>3. DOMAIN shown = DOMAIN trees
          BY SoundParts
    <2> QED BY <2>1, <2>2, <2>3
  <1>4. Panes!sync_active_pane_view(s, activeTab, p)
        = [u \in DOMAIN shown |-> IF u = activeTab THEN p ELSE shown[u]]
        BY <1>2, <1>3 DEF Panes!sync_active_pane_view
  <1>5. /\ r.trees = [s.trees EXCEPT ![activeTab].active = p]
        /\ r.shown = [u \in DOMAIN shown |-> IF u = activeTab THEN p ELSE shown[u]]
        /\ r.registered = s.registered /\ r.ai = s.ai /\ r.backend = s.backend
        /\ r.tab = s.tab /\ r.last = p /\ r.pending = s.pending
        BY <1>2, <1>4 DEF Shaped
  <1> HIDE DEF r
  <1>6. /\ DOMAIN r.shown = DOMAIN s.shown /\ r.shown[activeTab] = p
        /\ \A u \in DOMAIN s.shown : u # activeTab => r.shown[u] = s.shown[u]
        BY <1>1, <1>2, <1>5, SoundParts
  <1>7. r.ai \subseteq s.registered /\ {r.last, r.pending} \subseteq Panes!Panes \cup {Panes!None}
        BY <1>2, <1>5, SoundParts
  <1>8. Sound(r) /\ Within(r, s)
        BY <1>1, <1>2, <1>5, <1>6, <1>7, Activated
  <1>9. drawnTab' \in Panes!Tabs \cup {Panes!Home} /\ {focus', flagged'} \subseteq Panes!Panes \cup {Panes!None}
        BY <1>1 DEF PInv, Typed
  <1> QED BY <1>1, <1>8, <1>9, Shrinks DEF s

\* A pane that is new comes into a tree, the active one of its tab.
LEMMA Opened ==
  ASSUME NEW s, Sound(s), NEW t \in Panes!Tabs, NEW p \in Panes!Panes, p \notin s.registered,
         NEW tree, TreeOK(tree), tree.active = p,
         Leaf(tree) = (IF t \in DOMAIN s.trees THEN Leaf(s.trees[t]) ELSE {}) \cup {p}, NEW r,
         DOMAIN r.trees = DOMAIN s.trees \cup {t}, r.trees[t] = tree,
         \A u \in DOMAIN s.trees : u # t => r.trees[u] = s.trees[u],
         DOMAIN r.shown = DOMAIN s.shown \cup {t}, r.shown[t] = p,
         \A u \in DOMAIN s.shown : u # t => r.shown[u] = s.shown[u],
         r.registered = s.registered \cup {p}, r.ai = s.ai,
         r.backend = [s.backend EXCEPT ![p] = "live"],
         r.tab \in DOMAIN r.trees \cup {Panes!Home},
         {r.last, r.pending} \subseteq Panes!Panes \cup {Panes!None}
  PROVE  Sound(r)
  <1>1. \A q : q \in s.registered <=> \E u \in DOMAIN s.trees : q \in Leaf(s.trees[u])
        BY DEF Sound
  <1>2. \A u \in DOMAIN s.trees : p \notin Leaf(s.trees[u])
        BY <1>1
  <1>3. \A u \in DOMAIN s.trees : TreeOK(s.trees[u]) /\ s.shown[u] = s.trees[u].active
        BY DEF Sound
  <1>4. \A u \in DOMAIN r.trees : u = t \/ (u # t /\ u \in DOMAIN s.trees)
        OBVIOUS
  <1>5. \A u \in DOMAIN r.trees : TreeOK(r.trees[u])
        BY <1>3, <1>4
  <1>6. DOMAIN s.shown = DOMAIN s.trees
        BY DEF Sound
  <1>7. DOMAIN r.shown = DOMAIN r.trees
        BY <1>6
  <1>8. \A u \in DOMAIN r.trees : r.shown[u] = r.trees[u].active
        BY <1>3, <1>4, <1>6
  <1>9. \A u \in DOMAIN s.trees : u # t => Leaf(r.trees[u]) = Leaf(s.trees[u])
        OBVIOUS
  <1>10. \A u, v \in DOMAIN s.trees : u # v => Leaf(s.trees[u]) \cap Leaf(s.trees[v]) = {}
         BY DEF Sound
  <1>11. \A u \in DOMAIN s.trees : u # t => Leaf(r.trees[u]) \cap Leaf(tree) = {}
         BY <1>2, <1>9, <1>10
  <1>12. \A u, v \in DOMAIN r.trees : u # v => Leaf(r.trees[u]) \cap Leaf(r.trees[v]) = {}
    <2> SUFFICES ASSUME NEW u \in DOMAIN r.trees, NEW v \in DOMAIN r.trees, u # v
                 PROVE  Leaf(r.trees[u]) \cap Leaf(r.trees[v]) = {}
        OBVIOUS
    <2>1. CASE u = t
      <3>1. v # t /\ v \in DOMAIN s.trees
            BY <1>4, <2>1
      <3>2. Leaf(r.trees[v]) \cap Leaf(tree) = {}
            BY <1>11, <3>1
      <3> QED BY <2>1, <3>2
    <2>2. CASE v = t
      <3>1. u # t /\ u \in DOMAIN s.trees
            BY <1>4, <2>2
      <3> QED BY <1>11, <2>2, <3>1
    <2>3. CASE u # t /\ v # t
          BY <1>4, <1>9, <1>10, <2>3
    <2> QED BY <2>1, <2>2, <2>3
  <1>13. r.registered = UNION {Leaf(r.trees[u]) : u \in DOMAIN r.trees}
    <2>1. ASSUME NEW q \in r.registered PROVE \E u \in DOMAIN r.trees : q \in Leaf(r.trees[u])
      <3>1. CASE q = p
            BY <3>1
      <3>2. CASE q \in s.registered
        <4>1. PICK u \in DOMAIN s.trees : q \in Leaf(s.trees[u])
              BY <1>1, <3>2
        <4> QED BY <1>9, <4>1
      <3> QED BY <2>1, <3>1, <3>2
    <2>2. ASSUME NEW u \in DOMAIN r.trees, NEW q \in Leaf(r.trees[u]) PROVE q \in r.registered
      <3>1. CASE u = t
            BY <1>1, <2>2, <3>1
      <3>2. CASE u # t
            BY <1>1, <1>4, <1>9, <2>2, <3>2
      <3> QED BY <3>1, <3>2
    <2> QED BY <2>1, <2>2
  <1>14. /\ r.backend \in [Panes!Panes -> BackendOK]
         /\ \A q \in Panes!Panes : r.backend[q] = "live" => q \in r.registered
         BY DEF Sound, BackendOK
  <1>15. DOMAIN r.trees \subseteq Panes!Tabs /\ r.ai \subseteq r.registered
         BY DEF Sound
  <1> QED BY <1>5, <1>7, <1>8, <1>12, <1>13, <1>14, <1>15 DEF Sound

\* A new id is nobody's.
LEMMA NewIds ==
  ASSUME PInv
  PROVE  nextPane \notin registered /\ nextTab \notin DOMAIN trees
  <1>1. \A t \in DOMAIN trees : t < nextTab /\ \A p \in Leaf(trees[t]) : p < nextPane
        BY DEF PInv, Fresh, Panes!Open
  <1>2. nextPane \in Nat /\ nextTab \in Nat
        BY PanesAssumption DEF PInv, Typed, Panes!WorkspaceAssumption
  <1>3. \A n \in Nat : ~(n < n)
        OBVIOUS
  <1>4. \A p \in registered : \E t \in DOMAIN trees : p \in Leaf(trees[t])
        BY SoundParts
  <1> QED BY <1>1, <1>2, <1>3, <1>4

LEMMA AddTabStep == ASSUME PInv, Panes!AddTab PROVE PInv'
  <1> DEFINE s == Panes!State
             r == (Panes!State)'
             tree == Panes!Single(nextPane)
  <1> USE DEF Panes!AddTab, Panes!focusVars
  <1>1. nextTab \in Panes!Tabs /\ nextPane \in Panes!Panes /\ nextTab' = nextTab + 1
        /\ nextPane' = nextPane + 1
        OBVIOUS
  <1>2. /\ DOMAIN trees' = DOMAIN trees \cup {nextTab} /\ trees'[nextTab] = tree
        /\ \A u \in DOMAIN trees : u # nextTab => trees'[u] = trees[u]
        /\ DOMAIN shown' = DOMAIN shown \cup {nextTab} /\ shown'[nextTab] = nextPane
        /\ \A u \in DOMAIN shown : u # nextTab => shown'[u] = shown[u]
        OBVIOUS
  <1>3. nextPane \notin registered /\ nextTab \notin DOMAIN trees
        BY NewIds
  <1>4. TreeOK(tree) /\ Leaf(tree) = {nextPane} /\ tree.active = nextPane
        BY <1>1, SingleTree DEF Panes!Single
  <1>5. /\ Sound(s) /\ s.trees = trees /\ s.registered = registered
        /\ s.shown = shown /\ s.ai = aiPanels /\ s.tab = activeTab
        /\ s.last = lastFocused /\ s.pending = pendingFocus /\ s.backend = backend
        BY StateFields DEF PInv
  <1>6. /\ r.trees = trees' /\ r.registered = registered \cup {nextPane} /\ r.shown = shown'
        /\ r.ai = aiPanels /\ r.tab = nextTab /\ r.last = lastFocused /\ r.pending = pendingFocus
        /\ r.backend = [backend EXCEPT ![nextPane] = "live"]
        BY DEF Panes!State
  <1> HIDE DEF s, r, tree
  <1>7. Sound(r)
    <2>1. Leaf(tree) = (IF nextTab \in DOMAIN s.trees THEN Leaf(s.trees[nextTab]) ELSE {}) \cup {nextPane}
          BY <1>3, <1>4, <1>5
    <2>2. {r.last, r.pending} \subseteq Panes!Panes \cup {Panes!None}
          BY <1>6, SoundParts
    <2>3. /\ DOMAIN r.trees = DOMAIN s.trees \cup {nextTab} /\ r.trees[nextTab] = tree
          /\ \A u \in DOMAIN s.trees : u # nextTab => r.trees[u] = s.trees[u]
          BY <1>2, <1>5, <1>6
    <2>4. /\ DOMAIN r.shown = DOMAIN s.shown \cup {nextTab} /\ r.shown[nextTab] = nextPane
          /\ \A u \in DOMAIN s.shown : u # nextTab => r.shown[u] = s.shown[u]
          BY <1>2, <1>5, <1>6
    <2>5. /\ r.registered = s.registered \cup {nextPane} /\ r.ai = s.ai
          /\ r.backend = [s.backend EXCEPT ![nextPane] = "live"]
          BY <1>5, <1>6
    <2>6. r.tab \in DOMAIN r.trees \cup {Panes!Home} /\ nextPane \notin s.registered
          BY <1>2, <1>3, <1>5, <1>6
    <2> HIDE DEF Panes!AddTab, Panes!focusVars
    <2> QED BY <1>1, <1>4, <1>5, <2>1, <2>2, <2>3, <2>4, <2>5, <2>6, Opened
  <1>8. \A u \in DOMAIN trees' : u = nextTab \/ (u # nextTab /\ u \in DOMAIN trees)
        BY <1>2
  <1>9. tabOf' = [tabOf EXCEPT ![nextPane] = nextTab] /\ tabOf \in [Panes!Panes -> Panes!Tabs \cup {Panes!Home}]
        BY DEF PInv, Typed
  <1>10. InPlace'
    <2> SUFFICES ASSUME NEW u \in DOMAIN trees', NEW p \in Leaf(trees'[u]) PROVE tabOf'[p] = u
        BY DEF InPlace, Panes!Open
    <2>1. CASE u = nextTab
          BY <1>1, <1>2, <1>4, <1>9, <2>1
    <2>2. CASE u # nextTab
      <3>1. u \in DOMAIN trees /\ p \in Leaf(trees[u])
            BY <1>2, <1>8, <2>2
      <3>2. p \in registered /\ tabOf[p] = u
            BY <3>1, SoundParts DEF PInv, InPlace, Panes!Open
      <3> QED BY <1>3, <1>9, <3>2
    <2> QED BY <2>1, <2>2
  <1>11. Fresh'
    <2>1. nextTab \in Nat /\ nextPane \in Nat
          BY PanesAssumption DEF PInv, Typed, Panes!WorkspaceAssumption
    <2> SUFFICES ASSUME NEW u \in DOMAIN trees'
                 PROVE  u < nextTab' /\ \A p \in Leaf(trees'[u]) : p < nextPane'
        BY DEF Fresh, Panes!Open
    <2>2. CASE u = nextTab
          BY <1>1, <1>2, <1>4, <2>1, <2>2
    <2>3. CASE u # nextTab
      <3>1. u \in DOMAIN trees /\ Leaf(trees'[u]) = Leaf(trees[u])
            BY <1>2, <1>8, <2>3
      <3>2. u < nextTab /\ \A p \in Leaf(trees[u]) : p < nextPane
            BY <3>1 DEF PInv, Fresh, Panes!Open
      <3>3. u \in Nat /\ \A p \in Leaf(trees[u]) : p \in Nat
            BY <3>1, SoundParts, PanesAssumption DEF Panes!Tabs, Panes!Panes, Panes!WorkspaceAssumption
      <3> QED BY <1>1, <2>1, <3>1, <3>2, <3>3
    <2> QED BY <2>2, <2>3
  <1>12. Typed'
    <2>1. nextTab' \in 2..MaxTabs + 2 /\ nextPane' \in 1..MaxPanes + 1
          BY <1>1, PanesAssumption DEF Panes!WorkspaceAssumption, Panes!Tabs, Panes!Panes
    <2>2. primary' \subseteq Panes!Panes /\ tabOf' \in [Panes!Panes -> Panes!Tabs \cup {Panes!Home}]
          BY <1>1, <1>9 DEF PInv, Typed
    <2> QED BY <2>1, <2>2 DEF PInv, Typed
  <1> QED BY <1>7, <1>10, <1>11, <1>12 DEF PInv, r

LEMMA SplitStep == ASSUME PInv, Panes!split_active_pane PROVE PInv'
  <1> DEFINE s == Panes!State
             t == activeTab
             tree == Panes!SplitActive(trees[t], nextPane)
             s1 == [s EXCEPT !.registered = @ \cup {nextPane},
                             !.trees[t] = Panes!SplitActive(@, nextPane),
                             !.last = nextPane, !.pending = nextPane,
                             !.backend[nextPane] = "live"]
             r == [s1 EXCEPT !.shown = Panes!sync_active_pane_view(s1, t, nextPane)]
  <1>1. /\ t \in DOMAIN trees /\ nextPane \in Panes!Panes /\ nextPane' = nextPane + 1
        /\ tabOf' = [tabOf EXCEPT ![nextPane] = t]
        /\ UNCHANGED <<nextTab, primary, lent, focus, flagged, drawnTab>>
        BY DEF Panes!split_active_pane, Panes!Open
  <1>2. Panes!Become(r)
        BY DEF Panes!split_active_pane
  <1>3. nextPane \notin registered
        BY NewIds
  <1>4. nextPane \notin Leaf(trees[t]) /\ TreeOK(trees[t])
        BY <1>1, <1>3, SoundParts
  <1>5. TreeOK(tree) /\ Leaf(tree) = Leaf(trees[t]) \cup {nextPane} /\ tree.active = nextPane
        BY <1>1, <1>4, SplitTree
  <1>6. /\ Sound(s) /\ Shaped(s) /\ s.trees = trees /\ s.registered = registered
        /\ s.shown = shown /\ s.ai = aiPanels /\ s.tab = activeTab
        /\ s.last = lastFocused /\ s.pending = pendingFocus /\ s.backend = backend
        BY StateFields DEF PInv
  <1>7. /\ Shaped(s1) /\ s1.trees = [trees EXCEPT ![t] = tree]
        /\ s1.registered = registered \cup {nextPane} /\ s1.shown = shown /\ s1.ai = aiPanels
        /\ s1.tab = activeTab /\ s1.last = nextPane /\ s1.pending = nextPane
        /\ s1.backend = [backend EXCEPT ![nextPane] = "live"]
        BY <1>6 DEF Shaped
  <1> HIDE DEF s1
  <1>8. /\ r.trees = [trees EXCEPT ![t] = tree] /\ r.registered = registered \cup {nextPane}
        /\ r.shown = Panes!sync_active_pane_view(s1, t, nextPane) /\ r.ai = aiPanels
        /\ r.tab = activeTab /\ r.last = nextPane /\ r.pending = nextPane
        /\ r.backend = [backend EXCEPT ![nextPane] = "live"]
        BY <1>7 DEF Shaped
  <1>9. Panes!sync_active_pane_view(s1, t, nextPane)
        = [u \in DOMAIN shown \cup {t} |-> IF u = t THEN nextPane ELSE shown[u]]
        BY <1>7 DEF Panes!sync_active_pane_view
  <1> HIDE DEF s, r, tree
  <1>10. /\ DOMAIN r.trees = DOMAIN s.trees \cup {t} /\ r.trees[t] = tree
         /\ \A u \in DOMAIN s.trees : u # t => r.trees[u] = s.trees[u]
    <2>1. DOMAIN trees \cup {t} = DOMAIN trees
          BY <1>1
    <2> QED BY <1>1, <1>6, <1>8, <2>1
  <1>11. /\ DOMAIN r.shown = DOMAIN s.shown \cup {t} /\ r.shown[t] = nextPane
         /\ \A u \in DOMAIN s.shown : u # t => r.shown[u] = s.shown[u]
         BY <1>6, <1>8, <1>9
  <1>12. Sound(r)
    <2>1. t \in Panes!Tabs /\ nextPane \notin s.registered
          BY <1>1, <1>3, <1>6, SoundParts
    <2>2. Leaf(tree) = (IF t \in DOMAIN s.trees THEN Leaf(s.trees[t]) ELSE {}) \cup {nextPane}
          BY <1>1, <1>5, <1>6
    <2>3. /\ r.registered = s.registered \cup {nextPane} /\ r.ai = s.ai
          /\ r.backend = [s.backend EXCEPT ![nextPane] = "live"]
          /\ r.tab \in DOMAIN r.trees \cup {Panes!Home}
          BY <1>6, <1>8, <1>10
    <2>4. {r.last, r.pending} \subseteq Panes!Panes \cup {Panes!None}
          BY <1>1, <1>8
    <2> HIDE DEF t
    <2> QED BY <1>1, <1>5, <1>6, <1>10, <1>11, <2>1, <2>2, <2>3, <2>4, Opened
  <1>13. Sound(Panes!State)' /\ trees' = r.trees
         BY <1>2, <1>12, Becomes
  <1>14. /\ DOMAIN trees' = DOMAIN trees /\ Leaf(trees'[t]) = Leaf(trees[t]) \cup {nextPane}
         /\ \A u \in DOMAIN trees : u # t => trees'[u] = trees[u]
         BY <1>1, <1>5, <1>6, <1>10, <1>13
  <1>15. tabOf \in [Panes!Panes -> Panes!Tabs \cup {Panes!Home}]
         BY DEF PInv, Typed
  <1>16. InPlace'
    <2> SUFFICES ASSUME NEW u \in DOMAIN trees', NEW p \in Leaf(trees'[u]) PROVE tabOf'[p] = u
        BY DEF InPlace, Panes!Open
    <2>1. CASE p = nextPane
      <3>1. u = t
        <4>1. CASE u # t
          <5>1. p \in Leaf(trees[u])
                BY <1>14, <4>1
          <5> QED BY <1>3, <1>14, <2>1, <5>1, SoundParts
        <4> QED BY <4>1
      <3> QED BY <1>1, <1>15, <2>1, <3>1
    <2>2. CASE p # nextPane
      <3>1. u \in DOMAIN trees /\ p \in Leaf(trees[u])
            BY <1>14, <2>2
      <3>2. p \in registered /\ p \in Panes!Panes /\ tabOf[p] = u
            BY <3>1, SoundParts DEF PInv, InPlace, Panes!Open
      <3> QED BY <1>1, <1>15, <2>2, <3>2
    <2> QED BY <2>1, <2>2
  <1>17. Fresh'
    <2>1. nextTab \in Nat /\ nextPane \in Nat
          BY PanesAssumption DEF PInv, Typed, Panes!WorkspaceAssumption
    <2> SUFFICES ASSUME NEW u \in DOMAIN trees'
                 PROVE  u < nextTab' /\ \A p \in Leaf(trees'[u]) : p < nextPane'
        BY DEF Fresh, Panes!Open
    <2>2. u < nextTab /\ \A p \in Leaf(trees[u]) : p < nextPane
          BY <1>14 DEF PInv, Fresh, Panes!Open
    <2>3. \A p \in Leaf(trees[u]) : p \in Nat
          BY <1>14, SoundParts, PanesAssumption DEF Panes!Panes, Panes!WorkspaceAssumption
    <2>4. \A p \in Leaf(trees'[u]) : p \in Leaf(trees[u]) \/ p = nextPane
      <3>1. CASE u = t
            BY <1>14, <3>1
      <3>2. CASE u # t
            BY <1>14, <3>2
      <3> QED BY <3>1, <3>2
    <2>5. nextTab' = nextTab /\ nextPane' = nextPane + 1
          BY <1>1
    <2> QED BY <2>1, <2>2, <2>3, <2>4, <2>5
  <1>18. Typed'
    <2>1. nextTab' \in 2..MaxTabs + 2 /\ nextPane' \in 1..MaxPanes + 1
          BY <1>1, PanesAssumption DEF PInv, Typed, Panes!WorkspaceAssumption, Panes!Panes
    <2>2. tabOf' \in [Panes!Panes -> Panes!Tabs \cup {Panes!Home}]
          BY <1>1, <1>15, SoundParts
    <2> QED BY <1>1, <2>1, <2>2 DEF PInv, Typed
  <1> QED BY <1>13, <1>16, <1>17, <1>18 DEF PInv

LEMMA RenderStep == ASSUME PInv, Panes!Render PROVE PInv'
  <1> DEFINE visible == IF activeTab \in Panes!Open THEN Panes!Leaves(activeTab) ELSE {}
             toTab == IF drawnTab # activeTab /\ activeTab \in Panes!Open THEN shown[activeTab] ELSE focus
             to == IF pendingFocus \in registered THEN pendingFocus ELSE toTab
             now == IF to \in visible THEN to ELSE Panes!None
             ai == aiPanels \cup (IF activeTab \in Panes!Open
                                  THEN {trees[activeTab].active} \cap registered ELSE {})
             s == [Panes!State EXCEPT !.ai = ai, !.pending = Panes!None]
             r == [s EXCEPT !.last = now, !.trees[activeTab].active = now,
                            !.shown = IF trees[activeTab].active = now THEN @
                                      ELSE Panes!sync_active_pane_view(s, activeTab, now)]
  <1>1. /\ focus' = to /\ flagged' = now /\ drawnTab' = activeTab /\ UNCHANGED Panes!idVars
        /\ IF now # Panes!None /\ now # flagged THEN Panes!Become(r) ELSE Panes!Become(s)
        BY DEF Panes!Render
  <1>2. ai \subseteq registered
        BY SoundParts
  <1>3. to \in Panes!Panes \cup {Panes!None}
    <2>1. toTab \in Panes!Panes \cup {Panes!None}
          BY SoundParts DEF Panes!Open, PInv, Typed, TreeOK, Tree
    <2> QED BY <2>1, SoundParts
  <1>4. now # Panes!None => now = to /\ activeTab \in DOMAIN trees /\ now \in Leaf(trees[activeTab])
        BY DEF Panes!Open, Panes!Leaves, Leaf
  <1>5. now \in Panes!Panes \cup {Panes!None}
        BY <1>3
  <1>6. /\ Sound(Panes!State) /\ Panes!State.trees = trees /\ Panes!State.registered = registered
        /\ Panes!State.shown = shown /\ Panes!State.tab = activeTab /\ Panes!State.backend = backend
        BY StateFields DEF PInv
  <1>7. /\ Shaped(s) /\ s.trees = trees /\ s.registered = registered
        /\ s.shown = shown /\ s.ai = ai /\ s.tab = activeTab
        /\ s.last = lastFocused /\ s.pending = Panes!None /\ s.backend = backend
        BY DEF Shaped, Panes!State
  <1>8. drawnTab' \in Panes!Tabs \cup {Panes!Home} /\ {focus', flagged'} \subseteq Panes!Panes \cup {Panes!None}
        BY <1>1, <1>3, <1>5, SoundParts
  <1>9. CASE ~(now # Panes!None /\ now # flagged)
    <2>1. Panes!Become(s)
          BY <1>1, <1>9
    <2> HIDE DEF s
    <2>2. /\ UNCHANGED <<trees, registered, shown, backend, activeTab, lastFocused>>
          /\ aiPanels' = ai /\ pendingFocus' = Panes!None
          BY <1>7, <2>1 DEF Panes!Become
    <2> HIDE DEF to, now, ai
    <2>3. Typed'
          BY <1>1, <1>8 DEF PInv, Typed, Panes!idVars
    <2> QED BY <1>1, <1>2, <2>2, <2>3, SoundParts, TreesStay DEF Panes!idVars
  <1>10. CASE now # Panes!None /\ now # flagged
    <2> DEFINE a == activeTab
    <2>1. Panes!Become(r)
          BY <1>1, <1>10
    <2> HIDE DEF s, ai
    <2> HIDE DEF now
    <2>2. a \in DOMAIN trees /\ now \in Leaf(trees[a])
          BY <1>4, <1>10
    <2>3. now \in registered /\ DOMAIN shown = DOMAIN trees /\ shown[a] = trees[a].active
          BY <2>2, SoundParts
    <2>4. Panes!sync_active_pane_view(s, a, now)
          = [u \in DOMAIN shown \cup {a} |-> IF u = a THEN now ELSE shown[u]]
          BY <1>7, <2>3 DEF Panes!sync_active_pane_view
    <2>5. /\ r.trees = [trees EXCEPT ![a].active = now]
          /\ r.shown = (IF trees[a].active = now THEN shown ELSE Panes!sync_active_pane_view(s, a, now))
          /\ r.registered = registered /\ r.ai = ai /\ r.backend = backend
          /\ r.tab = activeTab /\ r.last = now /\ r.pending = Panes!None
          BY <1>7 DEF Shaped
    <2> HIDE DEF r
    <2>6. /\ DOMAIN r.shown = DOMAIN shown /\ r.shown[a] = now
          /\ \A u \in DOMAIN shown : u # a => r.shown[u] = shown[u]
      <3>1. CASE trees[a].active = now
            BY <2>2, <2>3, <2>5, <3>1
      <3>2. CASE trees[a].active # now
        <4>1. DOMAIN shown \cup {a} = DOMAIN shown
              BY <2>2, <2>3
        <4> QED BY <2>4, <2>5, <3>2, <4>1
      <3> QED BY <3>1, <3>2
    <2>7. Sound(r) /\ Within(r, Panes!State)
      <3> DEFINE st == Panes!State
      <3>1. {r.last, r.pending} \subseteq Panes!Panes \cup {Panes!None}
            BY <1>5, <2>5
      <3>2. /\ Sound(st) /\ st.trees = trees /\ st.registered = registered
            /\ st.shown = shown /\ st.tab = activeTab /\ st.backend = backend
            BY <1>6
      <3> HIDE DEF st, a
      <3>3. a \in DOMAIN st.trees /\ now \in Leaf(st.trees[a])
            BY <2>2, <3>2
      <3>4. /\ r.trees = [st.trees EXCEPT ![a].active = now]
            /\ r.registered = st.registered /\ r.ai \subseteq st.registered
            /\ r.backend = st.backend /\ r.tab = st.tab
            BY <1>2, <2>5, <3>2
      <3>5. /\ DOMAIN r.shown = DOMAIN st.shown /\ r.shown[a] = now
            /\ \A u \in DOMAIN st.shown : u # a => r.shown[u] = st.shown[u]
            BY <2>6, <3>2
      <3>6. Sound(r) /\ Within(r, st)
            BY <3>1, <3>2, <3>3, <3>4, <3>5, Activated
      <3> QED BY <3>6 DEF st
    <2> HIDE DEF to
    <2>8. UNCHANGED Panes!idVars
          BY <1>1
    <2> QED BY <1>8, <2>1, <2>7, <2>8, Shrinks
  <1> QED BY <1>9, <1>10

-----------------------------------------------------------------------------
(* What follows from it.                                                   *)

LEMMA PanesStep == ASSUME PInv, Panes!Next PROVE PInv'
  <1> USE DEF Panes!Next
  <1>1. CASE Panes!AddTab
        BY <1>1, AddTabStep
  <1>2. CASE Panes!split_active_pane
        BY <1>2, SplitStep
  <1>3. CASE Panes!Render
        BY <1>3, RenderStep
  <1>4. ASSUME NEW t \in Panes!Tabs \cup {Panes!Home}, Panes!ActivateTab(t) PROVE PInv'
        BY <1>4, ActivateTabStep
  <1>5. ASSUME NEW t \in Panes!Tabs, Panes!CloseButton(t) PROVE PInv'
        BY <1>5, CloseButtonStep
  <1>6. ASSUME NEW p \in Panes!Panes,
               Panes!FocusPane(p) \/ Panes!ContextMenu(p) \/ Panes!AgentOpens(p) \/ Panes!BackendClosed(p)
        PROVE  PInv'
        BY <1>6, FocusPaneStep, ContextMenuStep, AgentOpensStep, BackendClosedStep
  <1>7. ASSUME NEW p \in Panes!Panes \cup {Panes!None}, Panes!MoveFocus(p) PROVE PInv'
        BY <1>7, MoveFocusStep
  <1> QED BY <1>1, <1>2, <1>3, <1>4, <1>5, <1>6, <1>7

LEMMA PanesStutter == ASSUME PInv, UNCHANGED panesVars PROVE PInv'
  <1> USE DEF panesVars
  <1>1. Typed'
        BY DEF PInv, Typed
  <1> QED BY <1>1, SoundParts, TreesStay

LEMMA PInvAlways == MCSpec => []PInv
  <1>1. MCInit => PInv
        BY PInit DEF MCInit
  <1>2. PInv /\ [MCNext]_<<vars, panesVars, part>> => PInv'
    <2> SUFFICES ASSUME PInv, [MCNext]_<<vars, panesVars, part>> PROVE PInv'
        OBVIOUS
    <2>1. CASE Panes!Next
          BY <2>1, PanesStep
    <2>2. CASE UNCHANGED panesVars
          BY <2>2, PanesStutter
    <2> QED BY <2>1, <2>2 DEF MCNext, OfAgent
  <1> QED BY <1>1, <1>2, PTL DEF MCSpec

\* Panes, what shows them and what runs behind them agree (split.rs, tabs.rs): whatever
\* is opened, split, focused and closed, and whichever shells end, every registered pane
\* is a leaf of one tree, the toolbar has the active one, and no shell goes on behind a
\* pane that is gone.
THEOREM PanesAgree == MCSpec => []PanesSound
  <1>1. PInv => PanesSound
    <2> SUFFICES ASSUME PInv PROVE PanesSound
        OBVIOUS
    <2>1. registered = UNION {Panes!Leaves(t) : t \in Panes!Open}
      <3>1. \A q \in registered : \E t \in Panes!Open : q \in Panes!Leaves(t)
            BY SoundParts DEF Panes!Open, Panes!Leaves, Leaf
      <3>2. \A t \in Panes!Open : \A q \in Panes!Leaves(t) : q \in registered
            BY SoundParts DEF Panes!Open, Panes!Leaves, Leaf
      <3> QED BY <3>1, <3>2
    <2>2. \A t, u \in Panes!Open : t # u => Panes!Leaves(t) \cap Panes!Leaves(u) = {}
          BY SoundParts DEF Panes!Open, Panes!Leaves, Leaf
    <2>3. \A t \in Panes!Open : trees[t].active \in Panes!Leaves(t) /\ Panes!IsInjective(trees[t].panes)
          BY SoundParts DEF Panes!Open, Panes!Leaves, Leaf, TreeOK
    <2>4. Panes!PanesAccounted
          BY <2>1, <2>2, <2>3, SoundParts DEF Panes!PanesAccounted
    <2>5. Panes!ToolbarFollowsActive
          BY SoundParts DEF Panes!ToolbarFollowsActive, Panes!Open
    <2>6. Panes!NothingLeftRunning
          BY SoundParts DEF Panes!NothingLeftRunning
    <2> QED BY <2>4, <2>5, <2>6 DEF PanesSound
  <1> QED BY <1>1, PInvAlways, PTL

\* Every variable of the tabs and panes stays in its type.
THEOREM PanesTypeCorrect == MCSpec => []Panes!TypeOK
  <1>1. PInv => Panes!TypeOK
    <2> SUFFICES ASSUME PInv PROVE Panes!TypeOK
        OBVIOUS
    <2>1. \A t \in Panes!Open : trees[t] \in [panes : Seq(Panes!Panes), active : Panes!Panes]
          BY SoundParts DEF Panes!Open, TreeOK, Tree
    <2>2. DOMAIN shown \subseteq Panes!Tabs /\ Panes!Range(shown) \subseteq Panes!Panes
          BY SoundParts DEF Panes!Range, TreeOK, Tree
    <2>3. Typed
          BY DEF PInv
    <2>4. aiPanels \subseteq Panes!Panes /\ registered \subseteq Panes!Panes
          BY SoundParts
    <2> QED BY <2>1, <2>2, <2>3, <2>4, SoundParts DEF Panes!TypeOK, Typed, Panes!Open, BackendOK
  <1> QED BY <1>1, PInvAlways, PTL

-----------------------------------------------------------------------------
(* The agent loop: the conversation.                                       *)

\* A call is answered once it is neither waiting for a click nor running, and runs only
\* when allowed.
ToolCall ==
  {c \in [id : Nat, kind : {"exec", "wait"},
          decision : {"Pending", "Allowed", "Denied", "Unavailable"},
          result : {"none", "own", "foreign", "note"},
          running : BOOLEAN, cancelled : BOOLEAN] :
     /\ (c.result = "none") <=> (c.decision = "Pending" \/ c.running)
     /\ c.running => c.decision = "Allowed"}
Calls == {cs \in Seq(ToolCall) : Len(cs) <= PerTurn}
Message == [role : {"User", "Assistant", "Summary"}, gen : Nat, text : Nat, calls : Calls]
Outcomes == [end : {"ok", "err", "cancelled"}, blank : BOOLEAN, calls : Calls]
PanelType == [messages : Seq(Message), stream : Nat, generation : Nat, compaction : Nat,
              finish : {NoFinish} \cup [gen : Nat \ {0}, outcome : Outcomes],
              queue : Seq(Nat)]

\* All calls of the conversation are answered.
Answered(m) == \A i \in DOMAIN m : \A j \in DOMAIN m[i].calls : m[i].calls[j].result # "none"

\* Turns are in the order of their generations, none of them later than g.
Dated(m, g) ==
  \A i \in DOMAIN m : m[i].gen <= g /\ \A j \in DOMAIN m : i < j => m[i].gen <= m[j].gen

\* A summary stands first, before a message of the user.
Summarised(m) ==
  \A i \in DOMAIN m : m[i].role = "Summary" => i = 1 /\ Len(m) >= 2 /\ m[2].role = "User"

\* The ids of the calls a reply brings, after n others.
Numbered(cs, n) ==
  \A j \in DOMAIN cs :
    /\ cs[j].id = n + j /\ ~cs[j].cancelled /\ cs[j].result # "foreign"
    /\ cs[j].running => cs[j].decision = "Allowed"

-----------------------------------------------------------------------------
(* The inductive invariant.                                                *)

\* One request at a time, of the panel's generation, over an answered history; what
\* waits for the reveal is the stream's.
PanelOK(p) ==
  /\ p \in PanelType
  /\ Dated(p.messages, p.generation)
  /\ Summarised(p.messages)
  /\ p.stream \in {0, p.generation}
  /\ p.stream # 0 \/ p.compaction # 0 =>
        Answered(p.messages) /\ (p.stream = 0 \/ p.compaction = 0)
  /\ p.compaction # 0 =>
        /\ around.compacts /\ p.compaction + 1 \in DOMAIN p.messages
        /\ p.messages[p.compaction + 1].role = "User"
  /\ p.finish # NoFinish => p.stream # 0 /\ p.finish.gen = p.stream

\* A generation has one pump, and the current one's feeds the stream on show.
Pumped(ps, p) ==
  /\ \A t \in ps : t \in [gen : 1..p.generation, for : {"chat", "summary"}, cancelled : BOOLEAN]
  /\ \A t, u \in ps : t.gen = u.gen => t = u
  /\ \A t \in ps : t.for = "chat" /\ t.gen = p.generation => p.stream = t.gen /\ p.finish = NoFinish

\* Ids are given in order.
Known(p, n) == \A at \in Cards(p) : Card(p, at).id \in 1..n
Held(p, n) == p.finish # NoFinish => Numbered(p.finish.outcome.calls, n)

\* While no card is renumbered: each has an id of its own and is what was decided and
\* what came of it; a run's place is that of its call, which somebody allowed and which
\* is running or given up.
OwnCard(p, x, allowed) ==
  /\ x \in [call : Nat, st : {"live", "stopping", "late"}, at : Cards(p)]
  /\ Card(p, x.at).id = x.call
  /\ x.call \in allowed /\ Card(p, x.at).decision # "Pending"
  /\ Card(p, x.at).running \/ Card(p, x.at).cancelled
  /\ x.st = "late" => Card(p, x.at).cancelled
CardsTrue(p, allowed) ==
  /\ \A at, bt \in Cards(p) : Card(p, at).id = Card(p, bt).id => at = bt
  /\ \A at \in Cards(p) :
        /\ Card(p, at).decision = "Allowed" => Card(p, at).id \in allowed
        /\ Card(p, at).result # "foreign"
Kept(p, xs, allowed) ==
  /\ CardsTrue(p, allowed)
  /\ \A x \in xs : OwnCard(p, x, allowed)
  /\ \A x, y \in xs : x.at = y.at => x = y

\* What the user typed, sent or queued, n messages so far.
InTurn(p, n) ==
  /\ \A i \in DOMAIN p.messages : p.messages[i].role = "User" =>
        /\ p.messages[i].text <= n
        /\ \A j \in DOMAIN p.messages :
             i < j /\ p.messages[j].role = "User" => p.messages[i].text < p.messages[j].text
        /\ \A k \in DOMAIN p.queue : p.messages[i].text < p.queue[k]
  /\ \A k \in DOMAIN p.queue :
        /\ p.queue[k] <= n
        /\ \A l \in DOMAIN p.queue : k < l => p.queue[k] < p.queue[l]

\* With a provider throughout a queue that is left waits for something.
QueueWaits(p) == is_busy(p) \/ p.queue = <<>>

AInv ==
  /\ typed \in Nat /\ asked \in Nat /\ around \in Circumstances /\ provider \in around.configured
  /\ PanelOK(panel) /\ Pumped(pumps, panel) /\ Known(panel, asked) /\ Held(panel, asked)
  /\ ~around.compacts => Kept(panel, execs, approved)
  /\ Steady => InTurn(panel, typed) /\ QueueWaits(panel)

-----------------------------------------------------------------------------
(* Reading the conversation.                                               *)

\* Cards are pairs of a message and a call of it.
LEMMA CardPairs ==
  ASSUME NEW p, p.messages \in Seq(Message), NEW at
  PROVE  at \in Cards(p) <=> \E i \in DOMAIN p.messages :
                               \E j \in DOMAIN p.messages[i].calls : at = <<i, j>>
  <1>1. DOMAIN p.messages = 1..Len(p.messages)
        OBVIOUS
  <1>2. ASSUME NEW i \in DOMAIN p.messages
        PROVE  p.messages[i].calls \in Seq(ToolCall) /\ Len(p.messages[i].calls) <= PerTurn
    <2>1. p.messages[i] \in Message
          OBVIOUS
    <2> QED BY <2>1 DEF Message, Calls
  <1>3. ASSUME NEW i \in DOMAIN p.messages PROVE DOMAIN p.messages[i].calls \subseteq 1..PerTurn
    <2>1. DOMAIN p.messages[i].calls = 1..Len(p.messages[i].calls)
          BY <1>2
    <2>2. Len(p.messages[i].calls) \in Nat
          BY <1>2
    <2> QED BY <1>2, <2>1, <2>2, PanelAssumption DEF PanelAssumption
  <1> QED BY <1>1, <1>3 DEF Cards

\* What a card is.
LEMMA CardOf ==
  ASSUME NEW p, p.messages \in Seq(Message),
         NEW i \in DOMAIN p.messages, NEW j \in DOMAIN p.messages[i].calls
  PROVE  /\ <<i, j>> \in Cards(p) /\ Card(p, <<i, j>>) = p.messages[i].calls[j]
         /\ p.messages[i].calls[j] \in ToolCall
  <1>1. <<i, j>> \in Cards(p)
        BY CardPairs
  <1>2. p.messages[i] \in Message
        OBVIOUS
  <1>3. p.messages[i].calls \in Seq(ToolCall)
        BY <1>2 DEF Message, Calls
  <1> QED BY <1>1, <1>3 DEF Card

\* No card waits exactly if every call of the conversation is answered.
LEMMA NoneWaits ==
  ASSUME NEW p, p.messages \in Seq(Message)
  PROVE  /\ Unanswered(p) = {} <=> Answered(p.messages)
         /\ pending_tool_calls(p) = {} <=> Answered(p.messages)
  <1>1. \A at \in Cards(p) : \E i \in DOMAIN p.messages : \E j \in DOMAIN p.messages[i].calls :
           at = <<i, j>>
        BY CardPairs
  <1>2. ASSUME NEW at \in Cards(p)
        PROVE  Card(p, at) \in ToolCall /\ (Answered(p.messages) => Card(p, at).result # "none")
    <2>1. PICK i \in DOMAIN p.messages : \E j \in DOMAIN p.messages[i].calls : at = <<i, j>>
          BY <1>1
    <2>2. PICK j \in DOMAIN p.messages[i].calls : at = <<i, j>>
          BY <2>1
    <2> QED BY <2>2, CardOf DEF Answered
  <1>3. ASSUME NEW i \in DOMAIN p.messages, NEW j \in DOMAIN p.messages[i].calls
        PROVE  <<i, j>> \in Cards(p) /\ Card(p, <<i, j>>) = p.messages[i].calls[j]
        BY CardOf
  <1>4. \A at \in Cards(p) :
           (Card(p, at).result = "none") <=> (Card(p, at).decision = "Pending" \/ Card(p, at).running)
        BY <1>2 DEF ToolCall
  <1>5. pending_tool_calls(p) = Unanswered(p)
        BY <1>4 DEF pending_tool_calls, Unanswered
  <1>6. Answered(p.messages) => Unanswered(p) = {}
        BY <1>2 DEF Unanswered
  <1>7. Unanswered(p) = {} => Answered(p.messages)
        BY <1>3 DEF Unanswered, Answered
  <1> QED BY <1>5, <1>6, <1>7

\* The panel is idle exactly between two rounds.
LEMMA IdleMeans ==
  ASSUME NEW p, p.messages \in Seq(Message)
  PROVE  ~is_busy(p) <=> p.stream = 0 /\ p.compaction = 0 /\ p.finish = NoFinish
                         /\ Answered(p.messages)
  BY NoneWaits DEF is_busy

-----------------------------------------------------------------------------
(* Conversations that grow.                                                *)

\* A turn at the end.
LEMMA TurnAdded ==
  ASSUME NEW m \in Seq(Message), NEW g \in Nat, Dated(m, g), Summarised(m),
         NEW t \in Message, t.gen = g, t.role # "Summary"
  PROVE  /\ Append(m, t) \in Seq(Message) /\ Len(Append(m, t)) = Len(m) + 1
         /\ \A i \in DOMAIN m : Append(m, t)[i] = m[i]
         /\ Append(m, t)[Len(m) + 1] = t
         /\ DOMAIN m = 1..Len(m) /\ DOMAIN Append(m, t) = DOMAIN m \cup {Len(m) + 1}
         /\ Dated(Append(m, t), g) /\ Summarised(Append(m, t))
  <1> DEFINE r == Append(m, t)
  <1>1. /\ r \in Seq(Message) /\ Len(r) = Len(m) + 1 /\ Len(m) \in Nat
        /\ \A i \in 1..Len(m) : r[i] = m[i]
        /\ r[Len(m) + 1] = t
        BY AppendProperties
  <1> HIDE DEF r
  <1>2. DOMAIN m = 1..Len(m) /\ DOMAIN r = 1..(Len(m) + 1)
        BY <1>1
  <1>3. DOMAIN r = DOMAIN m \cup {Len(m) + 1}
        BY <1>1, <1>2
  <1>4. Dated(r, g)
    <2> SUFFICES ASSUME NEW i \in DOMAIN r
                 PROVE  r[i].gen <= g /\ \A j \in DOMAIN r : i < j => r[i].gen <= r[j].gen
        BY DEF Dated
    <2>1. CASE i \in DOMAIN m
      <3>1. r[i].gen <= g
            BY <1>1, <1>2, <2>1 DEF Dated
      <3>2. ASSUME NEW j \in DOMAIN r, i < j PROVE r[i].gen <= r[j].gen
        <4>1. CASE j \in DOMAIN m
              BY <1>1, <1>2, <2>1, <3>2, <4>1 DEF Dated
        <4>2. CASE j = Len(m) + 1
              BY <1>1, <3>1, <4>2
        <4> QED BY <1>3, <4>1, <4>2
      <3> QED BY <3>1, <3>2
    <2>2. CASE i = Len(m) + 1
          BY <1>1, <1>2, <2>2
    <2> QED BY <1>3, <2>1, <2>2
  <1>5. Summarised(r)
    <2> SUFFICES ASSUME NEW i \in DOMAIN r, r[i].role = "Summary"
                 PROVE  i = 1 /\ Len(r) >= 2 /\ r[2].role = "User"
        BY DEF Summarised
    <2>1. i \in DOMAIN m /\ m[i].role = "Summary"
          BY <1>1, <1>2, <1>3
    <2>2. i = 1 /\ Len(m) >= 2 /\ m[2].role = "User"
          BY <2>1 DEF Summarised
    <2> QED BY <1>1, <1>2, <2>2
  <1> QED BY <1>1, <1>2, <1>3, <1>4, <1>5 DEF r

-----------------------------------------------------------------------------
(* The cascade.                                                            *)

\* A bounded set of numbers has a greatest.
LEMMA LatestExists ==
  ASSUME NEW n \in Nat, NEW S \in SUBSET (1..n), S # {}
  PROVE  \E i \in S : \A j \in S : j <= i
  <1> DEFINE R == OpToRel(<, Nat)
             T == {n - i : i \in S}
  <1>1. IsWellFoundedOn(R, Nat)
        BY NatLessThanWellFounded
  <1>2. \A p, q \in Nat : q < p => <<q, p>> \in R
        BY DEF OpToRel
  <1>3. T \in SUBSET Nat /\ T # {}
    <2>1. \A i \in S : n - i \in Nat
          OBVIOUS
    <2> QED BY <2>1
  <1> HIDE DEF R
  <1>4. PICK r \in T : \A q \in T : ~(<<q, r>> \in R)
        BY <1>1, <1>3, WFMin, Zenon
  <1>5. PICK i \in S : r = n - i
        BY <1>4
  <1>6. ASSUME NEW j \in S PROVE j <= i
    <2>1. n - j \in T /\ n - j \in Nat /\ r \in Nat
          BY <1>3, <1>4
    <2>2. ~(n - j < r)
          BY <1>2, <1>4, <2>1
    <2> QED BY <1>5, <2>2
  <1> QED BY <1>6

\* What is kept verbatim opens with a turn of the user.
LEMMA CutAtUser ==
  ASSUME NEW m \in Seq(Message), NEW ix \in 0..Len(m), compaction_cut(m, ix) # 0
  PROVE  /\ compaction_cut(m, ix) \in Nat /\ compaction_cut(m, ix) + 1 \in DOMAIN m
         /\ m[compaction_cut(m, ix) + 1].role = "User"
  <1> DEFINE users == {i \in 1..ix : m[i].role = "User"}
             last == CHOOSE i \in users : \A j \in users : j <= i
  <1>1. users # {} /\ compaction_cut(m, ix) = last - 1
        BY DEF compaction_cut
  <1>2. ix \in Nat /\ ix <= Len(m) /\ Len(m) \in Nat
        OBVIOUS
  <1>3. \E i \in users : \A j \in users : j <= i
        BY <1>1, <1>2, LatestExists
  <1>4. last \in users
        BY <1>3
  <1> QED BY <1>1, <1>2, <1>4

\* What a round leaves of a panel q that was p before it: nothing but the generation
\* and what runs in it.
Moves(p, q) ==
  /\ q.generation \in Nat /\ p.generation <= q.generation
  /\ q.generation = p.generation =>
        q.stream = p.stream
  /\ q.finish \in {p.finish, NoFinish}
  /\ q.generation # p.generation => q.finish = NoFinish

\* The fields of a panel.
LEMMA Fields ==
  ASSUME NEW p \in PanelType
  PROVE  /\ p.messages \in Seq(Message) /\ p.stream \in Nat /\ p.generation \in Nat
         /\ p.compaction \in Nat /\ p.queue \in Seq(Nat)
         /\ p.finish \in {NoFinish} \cup [gen : Nat \ {0}, outcome : Outcomes]
  BY DEF PanelType

LEMMA DatedLater ==
  ASSUME NEW m \in Seq(Message), NEW g \in Nat, NEW h \in Nat, g <= h, Dated(m, g)
  PROVE  Dated(m, h)
  <1>1. \A i \in DOMAIN m : m[i] \in Message
        OBVIOUS
  <1>2. \A i \in DOMAIN m : m[i].gen \in Nat
        BY <1>1 DEF Message
  <1> QED BY <1>2 DEF Dated

\* A round starts, and it is the only one.
LEMMA Starts ==
  ASSUME NEW p, PanelOK(p), Answered(p.messages), p.stream = 0,
         NEW q \in start_turn([p EXCEPT !.compaction = 0])
  PROVE  /\ PanelOK(q) /\ q.messages = p.messages /\ q.queue = p.queue
         /\ Moves(p, q) /\ q.compaction = 0 /\ q.finish = NoFinish
         /\ provider => q.stream # 0
  <1>1. p \in PanelType /\ p.finish = NoFinish
        BY DEF PanelOK
  <1>2. CASE provider
    <2> DEFINE g == p.generation + 1
    <2>3. p.generation \in Nat /\ p.messages \in Seq(Message) /\ g \in Nat /\ g = p.generation + 1
          BY <1>1, Fields
    <2>a. [p EXCEPT !.compaction = 0].generation = p.generation
          BY <1>1 DEF PanelType
    <2> HIDE DEF g
    <2>1. q = [p EXCEPT !.compaction = 0, !.generation = g, !.stream = g, !.finish = NoFinish]
          BY <1>1, <1>2, <2>3, <2>a DEF start_turn, PanelType
    <2>b. q = [messages |-> p.messages, stream |-> g, generation |-> g, compaction |-> 0,
               finish |-> NoFinish, queue |-> p.queue]
          BY <1>1, <2>1 DEF PanelType
    <2>c. q \in PanelType
          BY <1>1, <2>b, <2>3, Fields DEF PanelType
    <2>2. /\ q \in PanelType
          /\ q.messages = p.messages /\ q.queue = p.queue /\ q.compaction = 0
          /\ q.generation = g /\ q.stream = g /\ q.finish = NoFinish
          BY <2>b, <2>c
    <2>4. Dated(q.messages, q.generation)
          BY <2>2, <2>3, DatedLater DEF PanelOK
    <2>5. PanelOK(q)
          BY <2>2, <2>3, <2>4 DEF PanelOK
    <2> QED BY <2>2, <2>3, <2>5 DEF Moves
  <1>3. CASE ~provider
    <2>1. q = [p EXCEPT !.compaction = 0]
          BY <1>3 DEF start_turn
    <2>2. /\ q.messages = p.messages /\ q.queue = p.queue /\ q.compaction = 0
          /\ q.generation = p.generation /\ q.stream = p.stream /\ q.finish = p.finish
          /\ q \in PanelType
          BY <1>1, <2>1 DEF PanelType
    <2>3. PanelOK(q)
          BY <2>2 DEF PanelOK
    <2>4. q.generation \in Nat
          BY <2>2 DEF PanelType
    <2> QED BY <1>1, <1>3, <2>2, <2>3, <2>4 DEF Moves
  <1> QED BY <1>2, <1>3

LEMMA Compacts ==
  ASSUME NEW p, PanelOK(p), Answered(p.messages), p.stream = 0, p.compaction = 0,
         NEW q \in start_compaction(p)
  PROVE  /\ PanelOK(q) /\ q.messages = p.messages /\ q.queue = p.queue
         /\ Moves(p, q) /\ around.compacts
  <1>1. /\ p \in PanelType /\ p.finish = NoFinish /\ p.generation \in Nat
        /\ p.messages \in Seq(Message)
        BY DEF PanelOK, PanelType
  <1>2. around.compacts /\ provider
        BY DEF start_compaction
  <1>3. PICK ix \in 0..Len(p.messages) :
          /\ compaction_cut(p.messages, ix) # 0
          /\ q = [p EXCEPT !.generation = @ + 1, !.compaction = compaction_cut(p.messages, ix)]
        BY <1>2 DEF start_compaction
  <1> DEFINE cut == compaction_cut(p.messages, ix)
  <1>4. cut \in Nat /\ cut + 1 \in DOMAIN p.messages /\ p.messages[cut + 1].role = "User"
        BY <1>1, <1>3, CutAtUser
  <1> HIDE DEF cut
  <1> DEFINE g == p.generation + 1
  <1>g. g \in Nat /\ g = p.generation + 1
        BY <1>1
  <1> HIDE DEF g
  <1>5. q = [p EXCEPT !.generation = g, !.compaction = cut]
        BY <1>1, <1>3, <1>g DEF cut, PanelType
  <1>b. q = [messages |-> p.messages, stream |-> 0, generation |-> g, compaction |-> cut,
             finish |-> NoFinish, queue |-> p.queue]
        BY <1>1, <1>5 DEF PanelType
  <1>c. q \in PanelType
        BY <1>1, <1>b, <1>4, <1>g, Fields DEF PanelType
  <1>6. /\ q.messages = p.messages /\ q.queue = p.queue /\ q.compaction = cut
        /\ q.generation = g /\ q.stream = 0 /\ q.finish = NoFinish
        /\ q \in PanelType
        BY <1>b, <1>c
  <1>7. Dated(q.messages, q.generation)
        BY <1>1, <1>6, <1>g, DatedLater DEF PanelOK
  <1>8. PanelOK(q)
        BY <1>2, <1>4, <1>6, <1>7 DEF PanelOK
  <1> QED BY <1>1, <1>2, <1>g, <1>6, <1>8 DEF Moves

\* The loop goes on when every call is answered.
LEMMA Continues ==
  ASSUME NEW p, PanelOK(p), Answered(p.messages), NEW q \in continue_after_tools(p)
  PROVE  /\ PanelOK(q) /\ q.messages = p.messages /\ q.queue = p.queue
         /\ Moves(p, q)
         /\ provider /\ ~around.compacts => q.stream # 0
  <1>1. CASE p.stream # 0 \/ p.compaction # 0
    <2>1. q = p
          BY <1>1 DEF continue_after_tools
    <2>2. p.generation \in Nat
          BY DEF PanelOK, PanelType
    <2> QED BY <1>1, <2>1, <2>2 DEF PanelOK, Moves
  <1>2. CASE p.stream = 0 /\ p.compaction = 0
    <2>1. q \in start_turn(p) \/ q \in start_compaction(p)
          BY <1>2 DEF continue_after_tools
    <2>2. p = [p EXCEPT !.compaction = 0]
          BY <1>2 DEF PanelOK, PanelType
    <2> QED BY <1>2, <2>1, <2>2, Starts, Compacts
  <1> QED BY <1>1, <1>2 DEF PanelOK, PanelType

\* Settled calls: the loop goes on with the last of them.
LEMMA MayContinue ==
  ASSUME NEW p, PanelOK(p), NEW q \in maybe_continue_after_tools(p)
  PROVE  /\ PanelOK(q) /\ q.messages = p.messages /\ q.queue = p.queue
         /\ Moves(p, q)
         /\ provider /\ ~around.compacts => q.stream # 0 \/ ~Answered(q.messages)
  <1>1. p.messages \in Seq(Message) /\ p.generation \in Nat
        BY DEF PanelOK, PanelType
  <1>2. CASE Answered(p.messages)
        BY <1>1, <1>2, NoneWaits, Continues DEF maybe_continue_after_tools
  <1>3. CASE ~Answered(p.messages)
    <2>1. q = p
          BY <1>1, <1>3, NoneWaits DEF maybe_continue_after_tools
    <2> QED BY <1>1, <1>3, <2>1 DEF Moves
  <1> QED BY <1>2, <1>3

\* A message goes out.
Said(p, text) == Turn("User", p.generation, text, <<>>)

LEMMA Commits ==
  ASSUME NEW p, PanelOK(p), Answered(p.messages), p.stream = 0, p.compaction = 0,
         NEW text \in Nat, NEW q \in commit_and_send(p, text)
  PROVE  /\ PanelOK(q) /\ q.messages = Append(p.messages, Said(p, text))
         /\ Said(p, text) \in Message
         /\ q.queue = p.queue /\ Moves(p, q)
         /\ provider /\ ~around.compacts => q.stream # 0
  <1> DEFINE t == Said(p, text)
             s == [p EXCEPT !.messages = Append(@, t)]
  <1>1. /\ p \in PanelType /\ p.finish = NoFinish /\ p.generation \in Nat
        /\ p.messages \in Seq(Message) /\ Dated(p.messages, p.generation) /\ Summarised(p.messages)
        BY DEF PanelOK, PanelType
  <1>2. t \in Message /\ t.gen = p.generation /\ t.role = "User" /\ t.calls = <<>>
    <2>1. <<>> \in Calls
          BY PanelAssumption DEF PanelAssumption, Calls
    <2> QED BY <1>1, <2>1 DEF Said, Turn, Message
  <1> HIDE DEF t
  <1>3. q \in continue_after_tools(s)
        BY DEF commit_and_send, Said, t
  <1> DEFINE r == Append(p.messages, t)
  <1>4. /\ r \in Seq(Message) /\ Dated(r, p.generation) /\ Summarised(r)
        /\ \A i \in DOMAIN p.messages : r[i] = p.messages[i]
        /\ r[Len(p.messages) + 1] = t
        /\ DOMAIN r = DOMAIN p.messages \cup {Len(p.messages) + 1}
        BY <1>1, <1>2, TurnAdded
  <1> HIDE DEF r
  <1>5. Answered(r)
        BY <1>2, <1>4 DEF Answered
  <1>6. /\ s.messages = r /\ s.stream = 0 /\ s.compaction = 0 /\ s.finish = NoFinish
        /\ s.generation = p.generation /\ s.queue = p.queue /\ s \in PanelType
        BY <1>1, <1>4 DEF PanelType, r
  <1> HIDE DEF s
  <1>7. PanelOK(s)
        BY <1>4, <1>6 DEF PanelOK
  <1>8. /\ PanelOK(q) /\ q.messages = s.messages /\ q.queue = s.queue
        /\ Moves(s, q)
        /\ provider /\ ~around.compacts => q.stream # 0
        BY <1>3, <1>5, <1>6, <1>7, Continues
  <1> QED BY <1>1, <1>2, <1>6, <1>8 DEF Moves, t, r

\* The head of the queue goes out when the panel is idle.
LEMMA SendsQueued ==
  ASSUME NEW p, PanelOK(p), NEW q \in send_queued(p)
  PROVE  \/ q = p /\ (p.queue = <<>> \/ is_busy(p))
         \/ /\ p.queue # <<>> /\ PanelOK(q) /\ Moves(p, q)
            /\ Head(p.queue) \in Nat /\ Said(p, Head(p.queue)) \in Message
            /\ q.messages = Append(p.messages, Said(p, Head(p.queue)))
            /\ q.queue = Tail(p.queue)
            /\ provider /\ ~around.compacts => q.stream # 0
  <1>1. p \in PanelType /\ p.messages \in Seq(Message) /\ p.queue \in Seq(Nat)
        BY DEF PanelOK, PanelType
  <1>2. CASE p.queue = <<>> \/ is_busy(p)
        BY <1>2 DEF send_queued
  <1>3. CASE ~(p.queue = <<>> \/ is_busy(p))
    <2> DEFINE s == [p EXCEPT !.queue = Tail(@)]
    <2>1. q \in commit_and_send(s, Head(p.queue))
          BY <1>3 DEF send_queued
    <2>2. Head(p.queue) \in Nat /\ Tail(p.queue) \in Seq(Nat)
          BY <1>1, <1>3, HeadTailProperties
    <2>3. /\ s.messages = p.messages /\ s.stream = p.stream /\ s.compaction = p.compaction
          /\ s.finish = p.finish /\ s.generation = p.generation /\ s.queue = Tail(p.queue)
          /\ s \in PanelType
          BY <1>1, <2>2 DEF PanelType
    <2> HIDE DEF s
    <2>4. PanelOK(s)
          BY <2>3 DEF PanelOK
    <2>5. Answered(s.messages) /\ s.stream = 0 /\ s.compaction = 0
          BY <1>1, <1>3, <2>3, IdleMeans
    <2>6. Said(s, Head(p.queue)) = Said(p, Head(p.queue))
          BY <2>3 DEF Said
    <2>7. /\ PanelOK(q) /\ q.messages = Append(s.messages, Said(s, Head(p.queue)))
          /\ Said(s, Head(p.queue)) \in Message
          /\ q.queue = s.queue /\ Moves(s, q)
          /\ provider /\ ~around.compacts => q.stream # 0
          BY <2>1, <2>2, <2>4, <2>5, Commits
    <2>8. Moves(p, q)
          BY <2>3, <2>7 DEF Moves
    <2> QED BY <1>3, <2>2, <2>3, <2>6, <2>7, <2>8
  <1> QED BY <1>2, <1>3

-----------------------------------------------------------------------------
(* A reply is committed.                                                   *)

\* r is m with a reply of generation g at its end, with the calls cs.
Grown(m, r, g, cs) ==
  /\ r \in Seq(Message) /\ DOMAIN m \subseteq DOMAIN r
  /\ \A i \in DOMAIN m :
        /\ r[i].role = m[i].role /\ r[i].gen = m[i].gen /\ r[i].text = m[i].text
        /\ r[i].calls = m[i].calls \/ (m[i].calls = <<>> /\ i = Len(r) /\ r[i].calls = cs)
  /\ \A i \in DOMAIN r : i \notin DOMAIN m =>
        /\ r[i].role = "Assistant" /\ r[i].gen = g
        /\ r[i].calls = <<>> \/ (i = Len(r) /\ r[i].calls = cs)
  /\ cs # <<>> => /\ Len(r) \in DOMAIN r /\ r[Len(r)].calls = cs
                  /\ Len(r) \in DOMAIN m => m[Len(r)].calls = <<>>

\* Everything but the messages is as it was.
OnlyMessages(p, q) ==
  /\ q.stream = p.stream /\ q.generation = p.generation /\ q.compaction = p.compaction
  /\ q.finish = p.finish /\ q.queue = p.queue

LEMMA Partial ==
  ASSUME NEW p \in PanelType, NEW g \in Nat, Dated(p.messages, g), Summarised(p.messages),
         NEW blank \in BOOLEAN, NEW q, q = push_partial(p, g, blank)
  PROVE  /\ q \in PanelType /\ OnlyMessages(p, q)
         /\ Dated(q.messages, g) /\ Summarised(q.messages)
         /\ Grown(p.messages, q.messages, g, <<>>)
  <1>1. p.messages \in Seq(Message)
        BY Fields
  <1>2. CASE blank
        BY <1>1, <1>2 DEF push_partial, OnlyMessages, Grown
  <1>3. CASE ~blank
    <2> DEFINE t == Turn("Assistant", g, 0, <<>>)
               r == Append(p.messages, t)
    <2>1. t \in Message /\ t.gen = g /\ t.role = "Assistant" /\ t.calls = <<>>
      <3>1. <<>> \in Calls
            BY PanelAssumption DEF PanelAssumption, Calls
      <3> QED BY <3>1 DEF Turn, Message
    <2>2. q = [p EXCEPT !.messages = r]
          BY <1>3 DEF push_partial
    <2> HIDE DEF t
    <2>3. /\ r \in Seq(Message) /\ Dated(r, g) /\ Summarised(r)
          /\ \A i \in DOMAIN p.messages : r[i] = p.messages[i]
          /\ r[Len(p.messages) + 1] = t
          /\ DOMAIN r = DOMAIN p.messages \cup {Len(p.messages) + 1}
          BY <1>1, <2>1, TurnAdded
    <2> HIDE DEF r
    <2>4. q \in PanelType /\ OnlyMessages(p, q) /\ q.messages = r
          BY <2>2, <2>3 DEF PanelType, OnlyMessages
    <2>5. Grown(p.messages, r, g, <<>>)
          BY <2>1, <2>3 DEF Grown
    <2> QED BY <2>3, <2>4, <2>5
  <1> QED BY <1>2, <1>3

\* Other calls on a message: the same conversation otherwise.
Recalled(m, r) ==
  /\ r \in Seq(Message) /\ Len(r) = Len(m) /\ DOMAIN r = DOMAIN m
  /\ \A i \in DOMAIN m : r[i].role = m[i].role /\ r[i].gen = m[i].gen /\ r[i].text = m[i].text

LEMMA RecalledSound ==
  ASSUME NEW m \in Seq(Message), NEW r, Recalled(m, r), NEW g \in Nat, Dated(m, g), Summarised(m)
  PROVE  Dated(r, g) /\ Summarised(r)
  <1>1. Dated(r, g)
        BY DEF Dated, Recalled
  <1>2. Summarised(r)
    <2> SUFFICES ASSUME NEW i \in DOMAIN r, r[i].role = "Summary"
                 PROVE  i = 1 /\ Len(r) >= 2 /\ r[2].role = "User"
        BY DEF Summarised
    <2>1. i = 1 /\ Len(m) >= 2 /\ m[2].role = "User"
          BY DEF Summarised, Recalled
    <2>2. 2 \in DOMAIN m
          BY <2>1
    <2> QED BY <2>1, <2>2 DEF Recalled
  <1> QED BY <1>1, <1>2

LEMMA Attached ==
  ASSUME NEW p \in PanelType, NEW g \in Nat, Dated(p.messages, g), Summarised(p.messages),
         NEW cs \in Calls, cs # <<>>, NEW q, q = attach_calls(p, g, cs)
  PROVE  /\ q \in PanelType /\ OnlyMessages(p, q)
         /\ Dated(q.messages, g) /\ Summarised(q.messages)
         /\ Grown(p.messages, q.messages, g, cs)
  <1> DEFINE m == p.messages
             n == Len(m)
  <1>1. m \in Seq(Message) /\ n \in Nat /\ DOMAIN m = 1..n
        BY Fields
  <1>2. CASE n > 0 /\ m[n].role = "Assistant" /\ m[n].calls = <<>>
    <2> DEFINE r == [m EXCEPT ![n].calls = cs]
    <2>1. q = [p EXCEPT !.messages[n].calls = cs]
          BY <1>2 DEF attach_calls
    <2>2. q.messages = r /\ OnlyMessages(p, q)
          BY <2>1 DEF PanelType, OnlyMessages
    <2>3. n \in DOMAIN m /\ m[n] \in Message
          BY <1>1, <1>2
    <2>4. [m[n] EXCEPT !.calls = cs] \in Message
          BY <2>3 DEF Message
    <2>5. /\ DOMAIN r = DOMAIN m /\ r[n] = [m[n] EXCEPT !.calls = cs]
          /\ \A i \in DOMAIN m : i # n => r[i] = m[i]
          BY <2>3
    <2>6. r \in Seq(Message) /\ Len(r) = n
          BY <1>1, <2>3, <2>4, ExceptSeq
    <2>7. r[n].calls = cs /\ r[n].role = m[n].role /\ r[n].gen = m[n].gen /\ r[n].text = m[n].text
          BY <2>3, <2>5 DEF Message
    <2> HIDE DEF r
    <2>8. Recalled(m, r)
          BY <1>1, <2>5, <2>6, <2>7 DEF Recalled
    <2>9. Grown(m, r, g, cs)
          BY <1>1, <1>2, <2>3, <2>5, <2>6, <2>7 DEF Grown
    <2>10. q \in PanelType
          BY <2>1, <2>2, <2>6 DEF PanelType
    <2> QED BY <1>1, <2>2, <2>8, <2>9, <2>10, RecalledSound
  <1>3. CASE ~(n > 0 /\ m[n].role = "Assistant" /\ m[n].calls = <<>>)
    <2> DEFINE t == Turn("Assistant", g, 0, cs)
               r == Append(m, t)
    <2>1. t \in Message /\ t.gen = g /\ t.role = "Assistant" /\ t.calls = cs
          BY DEF Turn, Message
    <2>2. q = [p EXCEPT !.messages = r]
          BY <1>3 DEF attach_calls
    <2> HIDE DEF t
    <2>3. /\ r \in Seq(Message) /\ Dated(r, g) /\ Summarised(r)
          /\ \A i \in DOMAIN m : r[i] = m[i]
          /\ r[n + 1] = t /\ Len(r) = n + 1
          /\ DOMAIN r = DOMAIN m \cup {n + 1}
          BY <1>1, <2>1, TurnAdded
    <2> HIDE DEF r
    <2>4. q \in PanelType /\ OnlyMessages(p, q) /\ q.messages = r
          BY <2>2, <2>3 DEF PanelType, OnlyMessages
    <2>a. n + 1 \notin DOMAIN m
          BY <1>1
    <2>5. Grown(m, r, g, cs)
          BY <2>1, <2>3, <2>a DEF Grown
    <2> QED BY <2>3, <2>4, <2>5
  <1> QED BY <1>2, <1>3

\* Both together.
LEMMA GrownTwice ==
  ASSUME NEW m \in Seq(Message), NEW r, NEW s, NEW g \in Nat, NEW cs \in Calls, cs # <<>>,
         Grown(m, r, g, <<>>), Grown(r, s, g, cs)
  PROVE  Grown(m, s, g, cs)
  <1>1. \A i \in DOMAIN m : i \in DOMAIN r /\ i \in DOMAIN s
        BY DEF Grown
  <1>2. \A i \in DOMAIN m :
          /\ s[i].role = m[i].role /\ s[i].gen = m[i].gen /\ s[i].text = m[i].text
          /\ r[i].calls = m[i].calls
          /\ s[i].calls = m[i].calls \/ (m[i].calls = <<>> /\ i = Len(s) /\ s[i].calls = cs)
        BY <1>1 DEF Grown
  <1>3. \A i \in DOMAIN s : i \notin DOMAIN m =>
          /\ s[i].role = "Assistant" /\ s[i].gen = g
          /\ s[i].calls = <<>> \/ (i = Len(s) /\ s[i].calls = cs)
        BY DEF Grown
  <1> QED BY <1>1, <1>2, <1>3 DEF Grown

\* A message of the user's goes out behind r.
Sent(r, m, text) ==
  \E t \in Message : t.role = "User" /\ t.text = text /\ t.calls = <<>> /\ m = Append(r, t)

\* The conversation r, with at most a message sent behind it.
Longer(r, m) == m = r \/ \E text : Sent(r, m, text)

\* A turn that may start does.
Steadily == provider /\ ~around.compacts

\* q has the conversation r, or r with the head of the queue sent behind it.
Followed(q, r, queue) ==
  \/ q.messages = r /\ q.queue = queue /\ (Steadily => QueueWaits(q))
  \/ /\ queue # <<>> /\ Sent(r, q.messages, Head(queue)) /\ q.queue = Tail(queue)
     /\ Steadily => q.stream # 0

LEMMA QueueFollows ==
  ASSUME NEW p, PanelOK(p), NEW q \in send_queued(p)
  PROVE  /\ PanelOK(q) /\ Moves(p, q) /\ Followed(q, p.messages, p.queue)
  <1>1. p.generation \in Nat
        BY Fields DEF PanelOK
  <1>2. CASE q = p /\ (p.queue = <<>> \/ is_busy(p))
        BY <1>1, <1>2 DEF Followed, Moves, QueueWaits
  <1>3. CASE ~(q = p /\ (p.queue = <<>> \/ is_busy(p)))
    <2>1. /\ p.queue # <<>> /\ PanelOK(q) /\ Moves(p, q)
          /\ Said(p, Head(p.queue)) \in Message
          /\ q.messages = Append(p.messages, Said(p, Head(p.queue)))
          /\ q.queue = Tail(p.queue)
          /\ provider /\ ~around.compacts => q.stream # 0
          BY <1>3, SendsQueued
    <2>2. Said(p, Head(p.queue)).role = "User" /\ Said(p, Head(p.queue)).text = Head(p.queue)
          /\ Said(p, Head(p.queue)).calls = <<>>
          BY DEF Said, Turn
    <2>3. Sent(p.messages, q.messages, Head(p.queue))
          BY <2>1, <2>2 DEF Sent
    <2> QED BY <2>1, <2>3 DEF Followed, Steadily
  <1> QED BY <1>2, <1>3

\* The conversation after a reply, and where the loop goes from there.
LEMMA Finalizes ==
  ASSUME NEW p, PanelOK(p), p.stream # 0, p.finish = NoFinish, NEW o \in Outcomes,
         NEW q \in finalize_turn(p, p.generation, o)
  PROVE  /\ PanelOK(q) /\ q.finish = NoFinish /\ p.generation <= q.generation
         /\ q.generation = p.generation => q.stream = 0
         /\ \E r : Grown(p.messages, r, p.generation, o.calls) /\ Followed(q, r, p.queue)
  <1> DEFINE g == p.generation
             p0 == [p EXCEPT !.stream = 0]
             p1 == push_partial(p0, g, o.blank)
  <1>1. /\ p \in PanelType /\ g \in Nat /\ p.messages \in Seq(Message)
        /\ Dated(p.messages, g) /\ Summarised(p.messages) /\ p.compaction = 0
        /\ Answered(p.messages)
        BY Fields DEF PanelOK
  <1>2. /\ p0 \in PanelType /\ p0.messages = p.messages /\ p0.stream = 0 /\ p0.generation = g
        /\ p0.compaction = 0 /\ p0.finish = NoFinish /\ p0.queue = p.queue
        BY <1>1 DEF PanelType
  <1>3. o.blank \in BOOLEAN /\ o.calls \in Calls
        BY DEF Outcomes
  <1>4. PICK s \in (IF o.calls = <<>> THEN {p1} ELSE push_tool_calls(p1, g, o.calls)) :
          q \in send_queued(s)
        BY DEF finalize_turn
  <1> HIDE DEF p0, p1
  <1>5. /\ p1 \in PanelType /\ OnlyMessages(p0, p1)
        /\ Dated(p1.messages, g) /\ Summarised(p1.messages)
        /\ Grown(p.messages, p1.messages, g, <<>>)
        BY <1>1, <1>2, <1>3, Partial DEF p1
  <1>6. ASSUME NEW r \in PanelType, OnlyMessages(p0, r), Dated(r.messages, g), Summarised(r.messages)
        PROVE  PanelOK(r)
        BY <1>2, <1>6 DEF PanelOK, OnlyMessages
  <1>7. /\ PanelOK(s) /\ s.queue = p.queue /\ Grown(p.messages, s.messages, g, o.calls)
        /\ s.finish = NoFinish /\ g <= s.generation
        /\ s.generation = g => s.stream = 0
    <2>1. CASE o.calls = <<>>
      <3>1. s = p1
            BY <1>4, <2>1
      <3> QED BY <1>1, <1>2, <1>5, <1>6, <2>1, <3>1 DEF OnlyMessages
    <2>2. CASE o.calls # <<>>
      <3> DEFINE p2 == attach_calls(p1, g, o.calls)
      <3>1. s = p2 \/ s \in maybe_continue_after_tools(p2)
            BY <1>4, <2>2 DEF push_tool_calls
      <3>2. /\ p2 \in PanelType /\ OnlyMessages(p1, p2)
            /\ Dated(p2.messages, g) /\ Summarised(p2.messages)
            /\ Grown(p1.messages, p2.messages, g, o.calls)
            BY <1>1, <1>3, <1>5, <2>2, Attached
      <3> HIDE DEF p2
      <3>3. OnlyMessages(p0, p2)
            BY <1>5, <3>2 DEF OnlyMessages
      <3>4. PanelOK(p2)
            BY <1>6, <3>2, <3>3
      <3>5. Grown(p.messages, p2.messages, g, o.calls)
            BY <1>1, <1>3, <1>5, <2>2, <3>2, GrownTwice
      <3>6. CASE s = p2
            BY <1>1, <1>2, <3>3, <3>4, <3>5, <3>6 DEF OnlyMessages
      <3>7. CASE s \in maybe_continue_after_tools(p2)
        <4>1. PanelOK(s) /\ s.messages = p2.messages /\ s.queue = p2.queue /\ Moves(p2, s)
              BY <3>4, <3>7, MayContinue
        <4> QED BY <1>1, <1>2, <3>3, <3>5, <4>1 DEF OnlyMessages, Moves
      <3> QED BY <3>1, <3>6, <3>7
    <2> QED BY <2>1, <2>2
  <1>8. PanelOK(q) /\ Moves(s, q) /\ Followed(q, s.messages, s.queue)
        BY <1>4, <1>7, QueueFollows
  <1>9. s.generation \in Nat
        BY <1>7, Fields DEF PanelOK
  <1> QED BY <1>1, <1>7, <1>8, <1>9 DEF Moves

-----------------------------------------------------------------------------
(* One card changes.                                                       *)

Put(p, at, c) == [p EXCEPT !.messages[at[1]].calls[at[2]] = c]

LEMMA CardSet ==
  ASSUME NEW p \in PanelType, NEW at \in Cards(p), NEW c \in ToolCall,
         NEW q, q = Put(p, at, c)
  PROVE  /\ q \in PanelType /\ OnlyMessages(p, q) /\ Recalled(p.messages, q.messages)
         /\ Cards(q) = Cards(p) /\ Card(q, at) = c
         /\ \A bt \in Cards(p) : bt # at => Card(q, bt) = Card(p, bt)
  <1> DEFINE m == p.messages
             i == at[1]
             j == at[2]
             cs == m[i].calls
             ds == [cs EXCEPT ![j] = c]
             t == [m[i] EXCEPT !.calls = ds]
             r == [m EXCEPT ![i] = t]
  <1>1. m \in Seq(Message)
        BY Fields
  <1>a. q = [p EXCEPT !.messages[i].calls[j] = c]
        BY DEF Put
  <1>2. i \in DOMAIN m /\ j \in DOMAIN cs /\ at = <<i, j>>
    <2>1. PICK x \in DOMAIN m : \E y \in DOMAIN m[x].calls : at = <<x, y>>
          BY <1>1, CardPairs
    <2> QED BY <2>1
  <1>b. m[i] \in Message
        BY <1>1, <1>2
  <1>3. m[i] \in Message /\ cs \in Calls /\ cs \in Seq(ToolCall)
        BY <1>b DEF Message, Calls
  <1>4. ds \in Seq(ToolCall) /\ Len(ds) = Len(cs)
        BY <1>2, <1>3, ExceptSeq
  <1>5. DOMAIN ds = DOMAIN cs /\ ds[j] = c /\ \A k \in DOMAIN cs : k # j => ds[k] = cs[k]
        BY <1>2
  <1>6. ds \in Calls
        BY <1>3, <1>4 DEF Calls
  <1>7. q.messages = r /\ OnlyMessages(p, q)
        BY <1>a, <1>2 DEF PanelType, OnlyMessages
  <1> HIDE DEF ds
  <1>8. /\ t \in Message /\ t.role = m[i].role /\ t.gen = m[i].gen /\ t.text = m[i].text
        /\ t.calls = ds
        BY <1>3, <1>6 DEF Message
  <1> HIDE DEF t
  <1>9. r \in Seq(Message) /\ Len(r) = Len(m) /\ DOMAIN r = DOMAIN m
        BY <1>1, <1>2, <1>8, ExceptSeq
  <1>10. r[i] = t /\ \A k \in DOMAIN m : k # i => r[k] = m[k]
        BY <1>2
  <1> HIDE DEF r
  <1>11. Recalled(m, r)
        BY <1>8, <1>9, <1>10 DEF Recalled
  <1>12. q \in PanelType
    <2>1. q = [p EXCEPT !.messages = r]
          BY <1>a, <1>7 DEF r, t, ds, PanelType
    <2> QED BY <1>9, <2>1 DEF PanelType
  <1>13. \A k \in DOMAIN m : DOMAIN r[k].calls = DOMAIN m[k].calls
        BY <1>2, <1>5, <1>8, <1>10
  <1>14. \A bt : bt \in Cards(q) <=> bt \in Cards(p)
    <2> TAKE bt
    <2>1. bt \in Cards(p) <=> \E x \in DOMAIN m : \E y \in DOMAIN m[x].calls : bt = <<x, y>>
          BY <1>1, CardPairs
    <2>a. q.messages \in Seq(Message) /\ q.messages = r
          BY <1>7, <1>9
    <2>b. bt \in Cards(q) <=> \E x \in DOMAIN q.messages :
                                 \E y \in DOMAIN q.messages[x].calls : bt = <<x, y>>
          BY <2>a, CardPairs
    <2>2. bt \in Cards(q) <=> \E x \in DOMAIN r : \E y \in DOMAIN r[x].calls : bt = <<x, y>>
          BY <2>a, <2>b
    <2> QED BY <1>9, <1>13, <2>1, <2>2
  <1>15. Card(q, at) = c
        BY <1>2, <1>5, <1>7, <1>8, <1>10 DEF Card
  <1>16. ASSUME NEW bt \in Cards(p), bt # at PROVE Card(q, bt) = Card(p, bt)
    <2>1. PICK x \in DOMAIN m : \E y \in DOMAIN m[x].calls : bt = <<x, y>>
          BY <1>1, CardPairs
    <2>2. PICK y \in DOMAIN m[x].calls : bt = <<x, y>>
          BY <2>1
    <2>3. x # i \/ y # j
          BY <1>2, <1>16, <2>2
    <2>4. Card(q, bt) = r[x].calls[y] /\ Card(p, bt) = m[x].calls[y]
          BY <1>7, <2>2 DEF Card
    <2> QED BY <1>2, <1>5, <1>8, <1>10, <2>2, <2>3, <2>4
  <1> QED BY <1>7, <1>11, <1>12, <1>14, <1>15, <1>16

\* Every card is a call.
LEMMA CardTyped ==
  ASSUME NEW p, p.messages \in Seq(Message), NEW at \in Cards(p)
  PROVE  Card(p, at) \in ToolCall
  <1>1. PICK i \in DOMAIN p.messages : \E j \in DOMAIN p.messages[i].calls : at = <<i, j>>
        BY CardPairs
  <1> QED BY <1>1, CardOf

\* A panel in which a card settles, or one in which none runs a round, stays sound.
LEMMA CardSetOK ==
  ASSUME NEW p, PanelOK(p), NEW at \in Cards(p), NEW c \in ToolCall,
         c.result # "none" \/ Card(p, at).result = "none",
         NEW q, q = Put(p, at, c)
  PROVE  PanelOK(q)
  <1>1. /\ p \in PanelType /\ p.generation \in Nat /\ p.messages \in Seq(Message)
        /\ Dated(p.messages, p.generation) /\ Summarised(p.messages)
        BY Fields DEF PanelOK
  <1>2. /\ q \in PanelType /\ OnlyMessages(p, q) /\ Recalled(p.messages, q.messages)
        /\ Cards(q) = Cards(p) /\ Card(q, at) = c
        /\ \A bt \in Cards(p) : bt # at => Card(q, bt) = Card(p, bt)
        BY <1>1, CardSet
  <1>3. Dated(q.messages, q.generation) /\ Summarised(q.messages)
        BY <1>1, <1>2, RecalledSound DEF OnlyMessages
  <1>4. q.messages \in Seq(Message)
        BY <1>2, Fields
  <1>5. Answered(p.messages) => Answered(q.messages)
    <2>1. Unanswered(p) = {} => Unanswered(q) = {}
          BY <1>2 DEF Unanswered
    <2> QED BY <1>1, <1>4, <2>1, NoneWaits
  <1>6. \A i \in DOMAIN p.messages : i \in DOMAIN q.messages /\ q.messages[i].role = p.messages[i].role
        BY <1>2 DEF Recalled
  <1> QED BY <1>2, <1>3, <1>5, <1>6 DEF PanelOK, OnlyMessages

-----------------------------------------------------------------------------
(* Cards of a conversation that grew.                                      *)

LEMMA CardsGrow ==
  ASSUME NEW p, p.messages \in Seq(Message), NEW r, NEW g, NEW cs \in Calls,
         Grown(p.messages, r, g, cs),
         NEW q, Longer(r, q.messages)
  PROVE  /\ \A at \in Cards(p) : at \in Cards(q) /\ Card(q, at) = Card(p, at)
         /\ \A at \in Cards(q) : at \notin Cards(p) =>
               \E j \in DOMAIN cs : at = <<Len(r), j>>
         /\ \A j \in DOMAIN cs : /\ <<Len(r), j>> \in Cards(q) /\ <<Len(r), j>> \notin Cards(p)
                                 /\ Card(q, <<Len(r), j>>) = cs[j]
  <1> DEFINE m == p.messages
             n == Len(r)
             s == q.messages
  <1>1. r \in Seq(Message) /\ n \in Nat /\ DOMAIN r = 1..n /\ DOMAIN m \subseteq DOMAIN r
        BY DEF Grown
  <1>2. /\ s \in Seq(Message) /\ DOMAIN r \subseteq DOMAIN s /\ \A i \in DOMAIN r : s[i] = r[i]
        /\ \A i \in DOMAIN s : i \notin DOMAIN r => s[i].calls = <<>>
    <2>1. CASE q.messages = r
          BY <1>1, <2>1
    <2>2. CASE \E text : Sent(r, q.messages, text)
      <3>1. PICK t \in Message : t.calls = <<>> /\ s = Append(r, t)
            BY <2>2 DEF Sent
      <3> DEFINE u == Append(r, t)
      <3>2. /\ u \in Seq(Message) /\ Len(u) = n + 1 /\ (\A i \in 1..n : u[i] = r[i])
            /\ u[n + 1] = t
            BY <1>1, AppendProperties
      <3>a. s = u
            BY <3>1
      <3> HIDE DEF u
      <3>b. u \in Seq(Message) /\ DOMAIN u = 1..Len(u)
            BY <3>2
      <3>3. DOMAIN u = 1..(n + 1)
            BY <3>2, <3>b
      <3>4. DOMAIN r \subseteq DOMAIN u /\ \A i \in DOMAIN u : i \notin DOMAIN r => i = n + 1
            BY <1>1, <3>3
      <3> QED BY <1>1, <3>1, <3>2, <3>a, <3>4
    <2> QED BY <2>1, <2>2 DEF Longer
  <1>3. ASSUME NEW i \in DOMAIN m, NEW j \in DOMAIN m[i].calls
        PROVE  /\ i \in DOMAIN s /\ s[i].calls = m[i].calls
               /\ i = n => cs = <<>>
    <2>1. m[i].calls # <<>>
          OBVIOUS
    <2>2. i = n => cs = <<>>
          BY <2>1 DEF Grown
    <2>3. i \in DOMAIN r /\ r[i].calls = m[i].calls
          BY <2>1 DEF Grown
    <2>4. i \in DOMAIN s /\ s[i] = r[i]
          BY <1>2, <2>3
    <2> QED BY <2>2, <2>3, <2>4
  <1>4. ASSUME NEW at \in Cards(p) PROVE at \in Cards(q) /\ Card(q, at) = Card(p, at)
    <2>1. PICK i \in DOMAIN m : \E j \in DOMAIN m[i].calls : at = <<i, j>>
          BY CardPairs
    <2>2. PICK j \in DOMAIN m[i].calls : at = <<i, j>>
          BY <2>1
    <2>3. i \in DOMAIN s /\ s[i].calls = m[i].calls
          BY <1>3
    <2>4. Card(p, at) = m[i].calls[j] /\ Card(q, at) = s[i].calls[j]
          BY <2>2 DEF Card
    <2>5. at \in Cards(q)
          BY <1>2, <2>2, <2>3, CardPairs
    <2> QED BY <2>3, <2>4, <2>5
  <1>5. ASSUME NEW at \in Cards(q), at \notin Cards(p)
        PROVE  \E j \in DOMAIN cs : at = <<n, j>>
    <2>1. PICK i \in DOMAIN s : \E j \in DOMAIN s[i].calls : at = <<i, j>>
          BY <1>2, CardPairs
    <2>2. PICK j \in DOMAIN s[i].calls : at = <<i, j>>
          BY <2>1
    <2>3. s[i].calls # <<>>
          OBVIOUS
    <2>4. i \in DOMAIN r /\ s[i] = r[i]
          BY <1>2, <2>3
    <2>5. ~(i \in DOMAIN m /\ r[i].calls = m[i].calls)
          BY <1>5, <2>2, <2>4, CardPairs
    <2>6. i = n /\ r[i].calls = cs
          BY <2>3, <2>4, <2>5 DEF Grown
    <2> QED BY <2>2, <2>4, <2>6
  <1>6. ASSUME NEW j \in DOMAIN cs
        PROVE  <<n, j>> \in Cards(q) /\ <<n, j>> \notin Cards(p) /\ Card(q, <<n, j>>) = cs[j]
    <2>1. cs # <<>>
          OBVIOUS
    <2>2. n \in DOMAIN r /\ r[n].calls = cs
          BY <2>1 DEF Grown
    <2>3. n \in DOMAIN s /\ s[n].calls = cs
          BY <1>2, <2>2
    <2>4. <<n, j>> \in Cards(q) /\ Card(q, <<n, j>>) = cs[j]
          BY <1>2, <2>3, CardOf
    <2>5. ASSUME <<n, j>> \in Cards(p) PROVE FALSE
      <3>1. PICK x \in DOMAIN m : \E y \in DOMAIN m[x].calls : <<n, j>> = <<x, y>>
            BY <2>5, CardPairs
      <3>2. x = n
            BY <3>1
      <3> QED BY <1>3, <2>1, <3>1, <3>2
    <2> QED BY <2>4, <2>5
  <1> QED BY <1>4, <1>5, <1>6

-----------------------------------------------------------------------------
(* What the user typed stays in order.                                     *)

SameUsers(m, r) ==
  \A i \in DOMAIN r : r[i].role = "User" =>
     i \in DOMAIN m /\ m[i].role = "User" /\ r[i].text = m[i].text

LEMMA TurnsKept ==
  ASSUME NEW p, p.messages \in Seq(Message), p.queue \in Seq(Nat), NEW n \in Nat, InTurn(p, n),
         NEW r \in Seq(Message), SameUsers(p.messages, r),
         NEW q, \/ q.messages = r /\ q.queue = p.queue
                \/ p.queue # <<>> /\ Sent(r, q.messages, Head(p.queue)) /\ q.queue = Tail(p.queue)
  PROVE  InTurn(q, n)
  <1> DEFINE m == p.messages
             k0 == p.queue
  <1>1. CASE q.messages = r /\ q.queue = p.queue
        BY <1>1 DEF InTurn, SameUsers
  <1>2. CASE p.queue # <<>> /\ Sent(r, q.messages, Head(p.queue)) /\ q.queue = Tail(p.queue)
    <2>1. PICK t \in Message : t.role = "User" /\ t.text = Head(k0) /\ q.messages = Append(r, t)
          BY <1>2 DEF Sent
    <2> DEFINE s == Append(r, t)
               l == Tail(k0)
    <2>2. /\ s \in Seq(Message) /\ Len(s) = Len(r) + 1 /\ Len(r) \in Nat
          /\ \A i \in 1..Len(r) : s[i] = r[i]
          /\ s[Len(r) + 1] = t
          BY AppendProperties
    <2>3. DOMAIN r = 1..Len(r) /\ DOMAIN s = 1..(Len(r) + 1)
          BY <2>2
    <2> DEFINE len == Len(k0)
    <2>4. /\ Head(k0) = k0[1] /\ l \in Seq(Nat) /\ Len(l) = len - 1 /\ len \in Nat /\ len # 0
          /\ \A k \in 1..Len(l) : l[k] = k0[k + 1]
          BY <1>2, HeadTailProperties
    <2>5. DOMAIN k0 = 1..len /\ DOMAIN l = 1..(len - 1) /\ \A k \in DOMAIN l : l[k] = k0[k + 1]
          BY <2>4
    <2>6. q.messages = s /\ q.queue = l
          BY <1>2, <2>1
    <2>a. /\ \A i \in DOMAIN m : m[i].role = "User" =>
                m[i].text <= n /\ \A k \in DOMAIN k0 : m[i].text < k0[k]
          /\ \A k \in DOMAIN k0 :
                k0[k] <= n /\ \A j \in DOMAIN k0 : k < j => k0[k] < k0[j]
          BY DEF InTurn
    <2> HIDE DEF s, l, k0, len
    <2>d. len \in Nat /\ len # 0
          BY <2>4
    <2>e. 1 \in 1..len /\ \A k \in 1..(len - 1) : k + 1 \in 1..len /\ 1 < k + 1 /\ k \in Nat
          BY <2>d
    <2>b. 1 \in DOMAIN k0
          BY <2>5, <2>e
    <2>c. \A k \in DOMAIN l : k + 1 \in DOMAIN k0 /\ 1 < k + 1 /\ k \in Nat
          BY <2>5, <2>e
    <2>7. \A k \in DOMAIN l : k + 1 \in DOMAIN k0 /\ 1 < k + 1 /\ l[k] = k0[k + 1]
          BY <2>5, <2>c
    <2>8. t.text = k0[1] /\ t.text \in Nat
          BY <2>1, <2>4 DEF Message
    <2>9. ASSUME NEW i \in DOMAIN s, s[i].role = "User"
          PROVE  /\ s[i].text <= n
                 /\ \A j \in DOMAIN s : i < j /\ s[j].role = "User" => s[i].text < s[j].text
                 /\ \A k \in DOMAIN l : s[i].text < l[k]
      <3>1. CASE i \in DOMAIN r
        <4>1. /\ s[i] = r[i] /\ i \in DOMAIN m /\ m[i].role = "User" /\ r[i].text = m[i].text
              BY <2>2, <2>3, <2>9, <3>1 DEF SameUsers
        <4>2. s[i].text <= n /\ \A k \in DOMAIN k0 : s[i].text < k0[k]
              BY <2>a, <4>1
        <4>3. ASSUME NEW j \in DOMAIN s, i < j, s[j].role = "User" PROVE s[i].text < s[j].text
          <5>1. CASE j \in DOMAIN r
            <6>1. s[j] = r[j] /\ j \in DOMAIN m /\ m[j].role = "User" /\ r[j].text = m[j].text
                  BY <2>2, <2>3, <4>3, <5>1 DEF SameUsers
            <6> QED BY <4>1, <4>3, <6>1 DEF InTurn
          <5>2. CASE j \notin DOMAIN r
            <6>1. j = Len(r) + 1
                  BY <2>3, <5>2
            <6> QED BY <2>2, <2>b, <2>8, <4>2, <6>1
          <5> QED BY <5>1, <5>2
        <4> QED BY <2>7, <4>2, <4>3
      <3>2. CASE i \notin DOMAIN r
        <4>1. i = Len(r) + 1 /\ s[i] = t
              BY <2>2, <2>3, <3>2
        <4>2. \A j \in DOMAIN s : ~(i < j)
              BY <2>2, <2>3, <4>1
        <4>3. s[i].text <= n /\ \A k \in DOMAIN l : s[i].text < l[k]
              BY <2>7, <2>8, <2>a, <2>b, <4>1
        <4> QED BY <4>2, <4>3
      <3> QED BY <3>1, <3>2
    <2>10. ASSUME NEW k \in DOMAIN l
           PROVE  l[k] <= n /\ \A j \in DOMAIN l : k < j => l[k] < l[j]
      <3>1. \A j \in DOMAIN l : k < j => k + 1 < j + 1
            BY <2>c
      <3> QED BY <2>7, <2>a, <3>1
    <2> QED BY <2>6, <2>9, <2>10 DEF InTurn
  <1> QED BY <1>1, <1>2

LEMMA GrownUsers ==
  ASSUME NEW m, NEW r, NEW g, NEW cs, Grown(m, r, g, cs)
  PROVE  SameUsers(m, r)
  BY DEF Grown, SameUsers

-----------------------------------------------------------------------------
(* The cards of a reply.                                                   *)

\* The runs a reply starts, and the calls it allows.
Started(q, cs) ==
  {[call |-> cs[j].id, st |-> "live", at |-> Place(q, cs[j].id)]
     : j \in {j \in DOMAIN cs : cs[j].running}}
AllowedOf(cs) == {cs[j].id : j \in {j \in DOMAIN cs : cs[j].decision = "Allowed"}}

LEMMA ReplyKept ==
  ASSUME NEW p, p.messages \in Seq(Message), NEW n \in Nat, Known(p, n),
         NEW cs \in Calls, Numbered(cs, n), NEW r, NEW g, Grown(p.messages, r, g, cs),
         NEW q, Longer(r, q.messages)
  PROVE  /\ Known(q, n + Len(cs))
         /\ \A xs, allowed : Kept(p, xs, allowed) =>
              Kept(q, xs \cup Started(q, cs), allowed \cup AllowedOf(cs))
  <1> DEFINE l == Len(r)
  <1>1. cs \in Seq(ToolCall) /\ DOMAIN cs = 1..Len(cs) /\ Len(cs) \in Nat
        BY DEF Calls
  <1>2. /\ \A at \in Cards(p) : at \in Cards(q) /\ Card(q, at) = Card(p, at)
        /\ \A at \in Cards(q) : at \notin Cards(p) => \E j \in DOMAIN cs : at = <<l, j>>
        /\ \A j \in DOMAIN cs : /\ <<l, j>> \in Cards(q) /\ <<l, j>> \notin Cards(p)
                                /\ Card(q, <<l, j>>) = cs[j]
        BY CardsGrow
  <1>3. \A j \in DOMAIN cs : cs[j].id = n + j /\ cs[j].id \in 1..(n + Len(cs)) /\ cs[j].id > n
        BY <1>1 DEF Numbered
  <1>4. \A at \in Cards(p) : Card(p, at).id \in 1..n
        BY DEF Known
  <1>5. Known(q, n + Len(cs))
    <2> SUFFICES ASSUME NEW at \in Cards(q) PROVE Card(q, at).id \in 1..(n + Len(cs))
        BY DEF Known
    <2>1. CASE at \in Cards(p)
          BY <1>1, <1>2, <1>4, <2>1
    <2>2. CASE at \notin Cards(p)
      <3>1. PICK j \in DOMAIN cs : at = <<l, j>>
            BY <1>2, <2>2
      <3> QED BY <1>2, <1>3, <3>1
    <2> QED BY <2>1, <2>2
  <1>6. ASSUME NEW xs, NEW allowed, Kept(p, xs, allowed)
        PROVE  Kept(q, xs \cup Started(q, cs), allowed \cup AllowedOf(cs))
    <2> DEFINE ys == {[call |-> cs[j].id, st |-> "live", at |-> Place(q, cs[j].id)]
                        : j \in {j \in DOMAIN cs : cs[j].running}}
               al == allowed \cup {cs[j].id : j \in {j \in DOMAIN cs : cs[j].decision = "Allowed"}}
    <2>a. CardsTrue(p, allowed)
          BY <1>6 DEF Kept
    <2>1. \A at, bt \in Cards(q) : Card(q, at).id = Card(q, bt).id => at = bt
      <3> SUFFICES ASSUME NEW at \in Cards(q), NEW bt \in Cards(q), Card(q, at).id = Card(q, bt).id
                   PROVE  at = bt
          OBVIOUS
      <3>1. CASE at \in Cards(p) /\ bt \in Cards(p)
            BY <1>2, <2>a, <3>1 DEF CardsTrue
      <3>2. ASSUME NEW j \in DOMAIN cs, NEW ct \in Cards(p) PROVE Card(q, ct).id # cs[j].id
        <4>1. Card(q, ct).id \in 1..n
              BY <1>2, <1>4
        <4>2. cs[j].id > n
              BY <1>3
        <4> QED BY <4>1, <4>2
      <3>3. CASE at \notin Cards(p) /\ bt \notin Cards(p)
        <4>1. PICK i \in DOMAIN cs : at = <<l, i>>
              BY <1>2, <3>3
        <4>2. PICK j \in DOMAIN cs : bt = <<l, j>>
              BY <1>2, <3>3
        <4>3. n + i = n + j
              BY <1>2, <1>3, <4>1, <4>2
        <4> QED BY <1>1, <4>1, <4>2, <4>3
      <3> QED BY <1>2, <3>1, <3>2, <3>3
    <2>2. ASSUME NEW at \in Cards(q)
          PROVE  /\ Card(q, at).decision = "Allowed" => Card(q, at).id \in al
                 /\ Card(q, at).result # "foreign"
      <3>1. CASE at \in Cards(p)
            BY <1>2, <2>a, <3>1 DEF CardsTrue
      <3>2. CASE at \notin Cards(p)
        <4>1. PICK j \in DOMAIN cs : at = <<l, j>>
              BY <1>2, <3>2
        <4>2. Card(q, at) = cs[j]
              BY <1>2, <4>1
        <4> QED BY <4>2 DEF Numbered
      <3> QED BY <3>1, <3>2
    <2>3. CardsTrue(q, al)
          BY <2>1, <2>2 DEF CardsTrue
    <2>4. ASSUME NEW x \in xs PROVE OwnCard(q, x, al) /\ x.at \in Cards(p)
      <3>1. OwnCard(p, x, allowed)
            BY <1>6 DEF Kept
      <3>2. /\ x \in [call : Nat, st : {"live", "stopping", "late"}, at : Cards(p)]
            /\ x.at \in Cards(p) /\ x.call \in al
            BY <3>1 DEF OwnCard
      <3>3. x \in [call : Nat, st : {"live", "stopping", "late"}, at : Cards(q)]
            BY <1>2, <3>2
      <3>4. Card(q, x.at) = Card(p, x.at)
            BY <1>2, <3>2
      <3> HIDE DEF al
      <3> QED BY <3>1, <3>2, <3>3, <3>4 DEF OwnCard
    <2>5. ASSUME NEW j \in DOMAIN cs PROVE Place(q, cs[j].id) = <<l, j>>
      <3>1. <<l, j>> \in Cards(q) /\ Card(q, <<l, j>>).id = cs[j].id
            BY <1>2
      <3>2. \A at \in Cards(q) : Card(q, at).id = cs[j].id => at = <<l, j>>
            BY <2>1, <3>1
      <3> QED BY <3>1, <3>2 DEF Place
    <2>6. ASSUME NEW y \in ys
          PROVE  OwnCard(q, y, al) /\ \E j \in DOMAIN cs : y.at = <<l, j>> /\ y.call = cs[j].id
                                                            /\ y.st = "live"
      <3>1. PICK j \in DOMAIN cs : /\ cs[j].running
                                   /\ y = [call |-> cs[j].id, st |-> "live", at |-> Place(q, cs[j].id)]
            OBVIOUS
      <3>2. y.at = <<l, j>> /\ y.call = cs[j].id /\ y.st = "live"
            BY <2>5, <3>1
      <3>3. cs[j].decision = "Allowed"
            BY <3>1 DEF Numbered
      <3>4. cs[j].id \in al
            BY <3>3
      <3>5. <<l, j>> \in Cards(q) /\ Card(q, <<l, j>>) = cs[j]
            BY <1>2
      <3>6. y \in [call : Nat, st : {"live", "stopping", "late"}, at : Cards(q)]
        <4>1. <<l, j>> \in Cards(q) /\ cs[j].id \in Nat
              BY <1>3, <3>5
        <4> QED BY <2>5, <3>1, <4>1
      <3> QED BY <3>1, <3>2, <3>3, <3>4, <3>5, <3>6 DEF OwnCard
    <2>7. ASSUME NEW x \in xs \cup ys, NEW y \in xs \cup ys, x.at = y.at PROVE x = y
      <3>1. CASE x \in xs /\ y \in xs
            BY <1>6, <2>7, <3>1 DEF Kept
      <3>2. CASE x \in ys /\ y \in ys
        <4>1. PICK i \in DOMAIN cs : x = [call |-> cs[i].id, st |-> "live", at |-> Place(q, cs[i].id)]
              BY <3>2
        <4>2. PICK j \in DOMAIN cs : y = [call |-> cs[j].id, st |-> "live", at |-> Place(q, cs[j].id)]
              BY <3>2
        <4>3. <<l, i>> = <<l, j>>
              BY <2>5, <2>7, <4>1, <4>2
        <4> QED BY <4>1, <4>2, <4>3
      <3>3. ASSUME NEW u \in xs, NEW v \in ys PROVE u.at # v.at
        <4>1. u.at \in Cards(p)
              BY <2>4
        <4>2. PICK j \in DOMAIN cs : v.at = <<l, j>>
              BY <2>6
        <4> QED BY <1>2, <4>1, <4>2
      <3> QED BY <2>7, <3>1, <3>2, <3>3
    <2> HIDE DEF ys, al
    <2>8. Kept(q, xs \cup ys, al)
          BY <2>3, <2>4, <2>6, <2>7 DEF Kept
    <2> QED BY <2>8 DEF ys, al, Started, AllowedOf
  <1> QED BY <1>5, <1>6

-----------------------------------------------------------------------------
(* The pumps.                                                              *)

\* A round started is the only pump of its generation.
LEMMA Pumping ==
  ASSUME PanelOK(panel), NEW rest, Pumped(rest, panel), NEW q, PanelOK(q),
         panel.generation <= q.generation, q.finish \in {panel.finish, NoFinish},
         q.generation # panel.generation => q.finish = NoFinish,
         q.generation = panel.generation =>
            \/ q.stream = panel.stream
            \/ q.stream = 0 /\ \A t \in rest : ~(t.for = "chat" /\ t.gen = panel.generation),
         NEW ps,
         ps = rest \cup
                (IF q.stream # 0 /\ q.stream # panel.stream
                   THEN {[gen |-> q.stream, for |-> "chat", cancelled |-> FALSE]} ELSE {})
                \cup
                (IF q.compaction # 0 /\ q.generation # panel.generation
                   THEN {[gen |-> q.generation, for |-> "summary", cancelled |-> FALSE]} ELSE {})
  PROVE  Pumped(ps, q)
  <1> DEFINE chat == [gen |-> q.stream, for |-> "chat", cancelled |-> FALSE]
             summary == [gen |-> q.generation, for |-> "summary", cancelled |-> FALSE]
  <1>1. /\ panel.generation \in Nat /\ q.generation \in Nat /\ q.stream \in {0, q.generation}
        /\ panel.stream \in {0, panel.generation}
        /\ q.stream = 0 \/ q.compaction = 0
        BY Fields DEF PanelOK
  <1>2. CASE q.generation = panel.generation
    <2>1. ps = rest
          BY <1>1, <1>2
    <2> QED BY <1>1, <1>2, <2>1 DEF Pumped
  <1>3. CASE q.generation # panel.generation
    <2>1. q.generation > panel.generation /\ q.finish = NoFinish
          BY <1>1, <1>3
    <2>2. \A t \in rest : t.gen \in 1..q.generation /\ t.gen # q.generation
          BY <1>1, <2>1 DEF Pumped
    <2> DEFINE new ==
          (IF q.stream # 0 /\ q.stream # panel.stream THEN {chat} ELSE {}) \cup
          (IF q.compaction # 0 /\ q.generation # panel.generation THEN {summary} ELSE {})
    <2>3. /\ ps = rest \cup new
          /\ \A t \in new : \/ t = chat /\ q.stream # 0
                            \/ t = summary /\ q.compaction # 0
          OBVIOUS
    <2> HIDE DEF new
    <2>a. q.generation \in 1..q.generation
          BY <1>1, <2>1
    <2>4. \A t \in new : /\ t.gen = q.generation
                         /\ t \in [gen : 1..q.generation, for : {"chat", "summary"}, cancelled : BOOLEAN]
                         /\ t.for = "chat" => q.stream = q.generation
      <3>1. chat.gen = q.stream /\ chat.for = "chat" /\ summary.gen = q.generation /\ summary.for = "summary"
            OBVIOUS
      <3>2. q.stream # 0 =>
              chat \in [gen : 1..q.generation, for : {"chat", "summary"}, cancelled : BOOLEAN]
            BY <1>1, <2>a
      <3>3. summary \in [gen : 1..q.generation, for : {"chat", "summary"}, cancelled : BOOLEAN]
            BY <2>a
      <3> HIDE DEF chat, summary
      <3> QED BY <1>1, <2>3, <3>1, <3>2, <3>3
    <2>7. \A t, u \in new : t = u
          BY <1>1, <2>3
    <2> HIDE DEF chat, summary
    <2>8. ASSUME NEW t \in ps
          PROVE  t \in [gen : 1..q.generation, for : {"chat", "summary"}, cancelled : BOOLEAN]
      <3>1. CASE t \in rest
        <4>1. t \in [gen : 1..panel.generation, for : {"chat", "summary"}, cancelled : BOOLEAN]
              BY <3>1 DEF Pumped
        <4>2. 1..panel.generation \subseteq 1..q.generation
              BY <1>1
        <4> QED BY <4>1, <4>2
      <3>2. CASE t \in new
            BY <2>4, <3>2
      <3> QED BY <2>3, <3>1, <3>2
    <2>9. ASSUME NEW t \in ps, NEW u \in ps, t.gen = u.gen PROVE t = u
          BY <2>2, <2>3, <2>4, <2>7, <2>9 DEF Pumped
    <2>10. ASSUME NEW t \in ps, t.for = "chat", t.gen = q.generation
           PROVE  q.stream = t.gen /\ q.finish = NoFinish
          BY <2>1, <2>2, <2>3, <2>4, <2>10
    <2> QED BY <2>8, <2>9, <2>10 DEF Pumped
  <1> QED BY <1>2, <1>3

-----------------------------------------------------------------------------
(* Same conversation, same cards.                                          *)

LEMMA SameCards ==
  ASSUME NEW p, NEW q, q.messages = p.messages
  PROVE  /\ Cards(q) = Cards(p) /\ \A at : Card(q, at) = Card(p, at)
         /\ \A n : Known(p, n) => Known(q, n)
         /\ \A xs, allowed : Kept(p, xs, allowed) => Kept(q, xs, allowed)
         /\ pending_tool_calls(q) = pending_tool_calls(p)
  <1>1. Cards(q) = Cards(p) /\ \A at : Card(q, at) = Card(p, at)
        BY DEF Cards, Card
  <1>2. \A n : Known(p, n) => Known(q, n)
        BY <1>1 DEF Known
  <1>3. ASSUME NEW allowed, CardsTrue(p, allowed) PROVE CardsTrue(q, allowed)
        BY <1>1, <1>3 DEF CardsTrue
  <1>4. ASSUME NEW x, NEW allowed, OwnCard(p, x, allowed) PROVE OwnCard(q, x, allowed)
        BY <1>1, <1>4 DEF OwnCard
  <1>5. \A xs, allowed : Kept(p, xs, allowed) => Kept(q, xs, allowed)
        BY <1>3, <1>4 DEF Kept
  <1>6. pending_tool_calls(q) = pending_tool_calls(p)
        BY <1>1 DEF pending_tool_calls
  <1> QED BY <1>1, <1>2, <1>5, <1>6

\* The queue is nobody's concern but the user's.
LEMMA Requeued ==
  ASSUME NEW p, PanelOK(p), NEW l \in Seq(Nat), NEW q, q = [p EXCEPT !.queue = l]
  PROVE  /\ PanelOK(q) /\ q.messages = p.messages /\ q.stream = p.stream /\ q.queue = l
         /\ q.generation = p.generation /\ q.compaction = p.compaction /\ q.finish = p.finish
         /\ is_busy(q) = is_busy(p)
  <1>1. p \in PanelType
        BY DEF PanelOK
  <1>2. /\ q \in PanelType /\ q.messages = p.messages /\ q.stream = p.stream /\ q.queue = l
        /\ q.generation = p.generation /\ q.compaction = p.compaction /\ q.finish = p.finish
        BY <1>1 DEF PanelType
  <1>3. PanelOK(q)
        BY <1>2 DEF PanelOK
  <1>4. is_busy(q) = is_busy(p)
        BY <1>2, SameCards DEF is_busy
  <1> QED BY <1>2, <1>3, <1>4

\* A draft goes to the end of the queue.
LEMMA Queued ==
  ASSUME NEW p, PanelOK(p), NEW n \in Nat, InTurn(p, n),
         NEW q, q = [p EXCEPT !.queue = Append(@, n + 1)]
  PROVE  /\ InTurn(q, n + 1) /\ q.queue = Append(p.queue, n + 1) /\ q.queue \in Seq(Nat)
  <1> DEFINE s == p.queue
             len == Len(s)
             l == Append(s, n + 1)
  <1>1. p \in PanelType /\ s \in Seq(Nat) /\ p.messages \in Seq(Message)
        BY Fields DEF PanelOK
  <1>2. q.queue = l /\ q.messages = p.messages
        BY <1>1 DEF PanelType
  <1>3. /\ l \in Seq(Nat) /\ Len(l) = len + 1 /\ len \in Nat
        /\ \A i \in 1..len : l[i] = s[i]
        /\ l[len + 1] = n + 1
        BY <1>1, AppendProperties
  <1>4. DOMAIN s = 1..len /\ DOMAIN l = 1..(len + 1) /\ \A i \in DOMAIN s : l[i] = s[i]
        BY <1>1, <1>3
  <1>5. \A i \in DOMAIN p.messages : p.messages[i].role = "User" =>
           /\ p.messages[i].text <= n /\ p.messages[i].text \in Nat
           /\ \A j \in DOMAIN p.messages :
                i < j /\ p.messages[j].role = "User" => p.messages[i].text < p.messages[j].text
           /\ \A k \in DOMAIN s : p.messages[i].text < s[k]
    <2>1. \A i \in DOMAIN p.messages : p.messages[i] \in Message
          BY <1>1
    <2> QED BY <2>1 DEF InTurn, Message
  <1>6. \A k \in DOMAIN s : s[k] <= n /\ s[k] \in Nat /\ \A j \in DOMAIN s : k < j => s[k] < s[j]
        BY <1>1 DEF InTurn
  <1>7. l[len + 1] = n + 1 /\ len \in Nat
        BY <1>3
  <1>a. q.queue = Append(p.queue, n + 1) /\ q.queue \in Seq(Nat)
        BY <1>2, <1>3
  <1> HIDE DEF l, s, len
  <1>8. \A k \in DOMAIN l : k \in DOMAIN s \/ k = len + 1
        BY <1>4, <1>7
  <1>9. \A k \in DOMAIN s : k <= len
        BY <1>4, <1>7
  <1>10. ASSUME NEW i \in DOMAIN p.messages, p.messages[i].role = "User"
         PROVE  p.messages[i].text <= n + 1 /\ \A k \in DOMAIN l : p.messages[i].text < l[k]
    <2>1. p.messages[i].text <= n + 1 /\ p.messages[i].text < n + 1
          BY <1>5, <1>10
    <2> QED BY <1>4, <1>5, <1>7, <1>8, <1>10, <2>1
  <1>11. ASSUME NEW k \in DOMAIN l
         PROVE  l[k] <= n + 1 /\ \A j \in DOMAIN l : k < j => l[k] < l[j]
    <2>1. CASE k \in DOMAIN s
      <3>1. l[k] <= n + 1 /\ l[k] < n + 1
            BY <1>4, <1>6, <2>1
      <3> QED BY <1>4, <1>6, <1>7, <1>8, <2>1, <3>1
    <2>2. CASE k = len + 1
      <3>1. \A j \in DOMAIN l : ~(k < j)
            BY <1>7, <1>8, <1>9, <2>2, <1>4
      <3> QED BY <1>7, <2>2, <3>1
    <2> QED BY <1>8, <2>1, <2>2
  <1>b. InTurn(q, n + 1)
        BY <1>2, <1>5, <1>10, <1>11 DEF InTurn
  <1> QED BY <1>a, <1>b

\* One entry less.
Without(s, i) == SubSeq(s, 1, i - 1) \o SubSeq(s, i + 1, Len(s))

LEMMA Part ==
  ASSUME NEW S, NEW s, NEW n \in Nat, \A k \in 1..n : s[k] \in S,
         NEW i \in 1..(n + 1), NEW j \in (i - 1)..n
  PROVE  /\ SubSeq(s, i, j) \in Seq(S) /\ Len(SubSeq(s, i, j)) = j - i + 1
         /\ \A k \in 1..(j - i + 1) : SubSeq(s, i, j)[k] = s[i + k - 1]
  <1>1. i \in Int /\ j \in Int /\ \A k \in i..j : k \in 1..n
        OBVIOUS
  <1>2. \A k \in i..j : s[k] \in S
        BY <1>1
  <1>3. /\ SubSeq(s, i, j) \in Seq(S)
        /\ Len(SubSeq(s, i, j)) = IF i <= j THEN j - i + 1 ELSE 0
        /\ \A k \in 1..(j - i + 1) : SubSeq(s, i, j)[k] = s[i + k - 1]
        BY <1>1, <1>2, SubSeqProperties
  <1>4. (IF i <= j THEN j - i + 1 ELSE 0) = j - i + 1
        OBVIOUS
  <1> QED BY <1>3, <1>4

LEMMA WithoutOne ==
  ASSUME NEW s \in Seq(Nat), NEW i \in DOMAIN s
  PROVE  /\ Without(s, i) \in Seq(Nat) /\ DOMAIN Without(s, i) = 1..(Len(s) - 1)
         /\ \A k \in 1..(Len(s) - 1) : Without(s, i)[k] = IF k < i THEN s[k] ELSE s[k + 1]
  <1> DEFINE len == Len(s)
             a == SubSeq(s, 1, i - 1)
             b == SubSeq(s, i + 1, len)
             l == a \o b
  <1>1. len \in Nat /\ DOMAIN s = 1..len /\ i \in 1..len
        OBVIOUS
  <1>2. \A k \in 1..len : s[k] \in Nat
        BY <1>1
  <1>3. a \in Seq(Nat) /\ Len(a) = i - 1 /\ \A k \in 1..(i - 1) : a[k] = s[k]
    <2>1. 1 \in 1..(len + 1) /\ i - 1 \in (1 - 1)..len /\ i - 1 - 1 + 1 = i - 1
          BY <1>1
    <2>2. a \in Seq(Nat) /\ Len(a) = i - 1 /\ \A k \in 1..(i - 1) : a[k] = s[1 + k - 1]
          BY <1>1, <1>2, <2>1, Part
    <2> QED BY <1>1, <2>2
  <1>4. b \in Seq(Nat) /\ Len(b) = len - i /\ \A k \in 1..(len - i) : b[k] = s[i + k]
    <2> DEFINE h == i + 1
    <2>1. h \in 1..(len + 1) /\ len \in (h - 1)..len /\ len - h + 1 = len - i
          BY <1>1
    <2>2. b = SubSeq(s, h, len) /\ \A k \in 1..(len - i) : h + k - 1 = i + k
          BY <1>1
    <2> HIDE DEF h
    <2>3. SubSeq(s, h, len) \in Seq(Nat) /\ Len(SubSeq(s, h, len)) = len - h + 1
          /\ \A k \in 1..(len - h + 1) : SubSeq(s, h, len)[k] = s[h + k - 1]
          BY <1>1, <1>2, <2>1, Part
    <2> HIDE DEF b
    <2> QED BY <2>1, <2>2, <2>3
  <1>5. /\ l \in Seq(Nat) /\ Len(l) = Len(a) + Len(b)
        /\ \A k \in 1..(Len(a) + Len(b)) : l[k] = IF k <= Len(a) THEN a[k] ELSE b[k - Len(a)]
    <2> HIDE DEF a, b
    <2> QED BY <1>3, <1>4, ConcatProperties
  <1> HIDE DEF len, a, b, l
  <1>6. Len(l) = len - 1
        BY <1>1, <1>3, <1>4, <1>5
  <1>7. ASSUME NEW k \in 1..(len - 1) PROVE l[k] = IF k < i THEN s[k] ELSE s[k + 1]
    <2>1. k \in 1..(Len(a) + Len(b))
          BY <1>1, <1>3, <1>4
    <2>2. CASE k < i
      <3>1. k \in 1..(i - 1) /\ k <= Len(a)
            BY <1>1, <1>3, <2>2
      <3> QED BY <1>3, <1>5, <2>1, <2>2, <3>1
    <2>3. CASE ~(k < i)
      <3>1. ~(k <= Len(a)) /\ k - Len(a) \in 1..(len - i) /\ i + (k - Len(a)) = k + 1
            BY <1>1, <1>3, <2>3
      <3> QED BY <1>4, <1>5, <2>1, <2>3, <3>1
    <2> QED BY <2>2, <2>3
  <1>8. l \in Seq(Nat) /\ DOMAIN l = 1..(len - 1)
        BY <1>5, <1>6
  <1>9. Without(s, i) = l /\ len = Len(s)
        BY DEF Without, l, a, b, len
  <1> QED BY <1>7, <1>8, <1>9

LEMMA Dropped ==
  ASSUME NEW p, PanelOK(p), NEW n \in Nat, NEW i \in DOMAIN p.queue,
         NEW q, q = [p EXCEPT !.queue = Without(p.queue, i)]
  PROVE  InTurn(p, n) => InTurn(q, n)
  <1> DEFINE s == p.queue
             len == Len(s)
             l == Without(s, i)
             old(k) == IF k < i THEN k ELSE k + 1
  <1>1. p \in PanelType /\ s \in Seq(Nat)
        BY Fields DEF PanelOK
  <1>2. len \in Nat /\ DOMAIN s = 1..len /\ i \in 1..len
        BY <1>1
  <1>3. /\ l \in Seq(Nat) /\ DOMAIN l = 1..(len - 1)
        /\ \A k \in 1..(len - 1) : l[k] = IF k < i THEN s[k] ELSE s[k + 1]
        BY <1>1, WithoutOne
  <1>4. q.queue = l /\ q.messages = p.messages
        BY <1>1 DEF PanelType
  <1>5. SUFFICES ASSUME InTurn(p, n) PROVE InTurn(q, n)
        OBVIOUS
  <1> HIDE DEF l, len
  <1>6. /\ \A k \in 1..(len - 1) : old(k) \in 1..len
        /\ \A k, j \in 1..(len - 1) : k < j => old(k) < old(j)
        BY <1>2
  <1>7. \A k \in DOMAIN l : old(k) \in DOMAIN s /\ l[k] = s[old(k)]
        BY <1>2, <1>3, <1>6
  <1>8. \A k, j \in DOMAIN l : k < j => old(k) < old(j)
        BY <1>3, <1>6
  <1> HIDE DEF old
  <1>9. \A j \in DOMAIN p.messages : p.messages[j].role = "User" =>
          \A k \in DOMAIN l : p.messages[j].text < l[k]
        BY <1>5, <1>7 DEF InTurn
  <1>10. \A k \in DOMAIN l : l[k] <= n /\ \A j \in DOMAIN l : k < j => l[k] < l[j]
        BY <1>5, <1>7, <1>8 DEF InTurn
  <1> QED BY <1>4, <1>5, <1>9, <1>10 DEF InTurn

-----------------------------------------------------------------------------
(* What a step leaves behind.                                              *)

LEMMA Lands ==
  ASSUME AInv, UNCHANGED around, typed' \in Nat, asked' \in Nat, provider' \in around.configured,
         PanelOK(panel'), Pumped(pumps', panel'), Known(panel', asked'), Held(panel', asked'),
         ~around.compacts => Kept(panel', execs', approved'),
         Steady => InTurn(panel', typed') /\ QueueWaits(panel')
  PROVE  AInv'
  <1>1. PanelOK(panel)'
        BY DEF PanelOK
  <1>2. Steady' <=> Steady
        BY DEF Steady
  <1>3. around' \in Circumstances
        BY DEF AInv
  <1> QED BY <1>1, <1>2, <1>3 DEF AInv

\* The rest of the pumps, and the panel they are left with.
Onward(q, rest) ==
  /\ PanelOK(q) /\ panel.generation <= q.generation /\ q.finish \in {panel.finish, NoFinish}
  /\ q.generation # panel.generation => q.finish = NoFinish
  /\ q.generation = panel.generation =>
        \/ q.stream = panel.stream
        \/ q.stream = 0 /\ \A t \in rest : ~(t.for = "chat" /\ t.gen = panel.generation)

LEMMA Left ==
  ASSUME PanelOK(panel), NEW S, NEW rest, Pumped(rest, panel), Leaves(S, rest),
         \A q \in S : Onward(q, rest)
  PROVE  \E q \in S : panel' = q /\ Pumped(pumps', q)
  <1>1. PICK q \in S :
          /\ panel' = q
          /\ pumps' = rest \cup
               (IF q.stream # 0 /\ q.stream # panel.stream
                  THEN {[gen |-> q.stream, for |-> "chat", cancelled |-> FALSE]} ELSE {})
               \cup
               (IF q.compaction # 0 /\ q.generation # panel.generation
                  THEN {[gen |-> q.generation, for |-> "summary", cancelled |-> FALSE]} ELSE {})
        BY DEF Leaves
  <1>2. Onward(q, rest)
        BY <1>1
  <1>3. Pumped(pumps', q)
        BY <1>1, <1>2, Pumping DEF Onward
  <1> QED BY <1>1, <1>3

LEMMA MovesOn ==
  ASSUME PanelOK(panel), NEW q, PanelOK(q), Moves(panel, q), NEW rest
  PROVE  Onward(q, rest)
  BY DEF Moves, Onward

\* Fewer pumps, or the current one cancelled.
LEMMA Rest ==
  ASSUME NEW p, NEW t, Pumped(pumps, p)
  PROVE  Pumped(pumps \ {t}, p)
  BY DEF Pumped

LEMMA Cancels ==
  ASSUME Pumped(pumps, panel)
  PROVE  Pumped(CancelLive, panel)
  <1> DEFINE F(t) == IF t.gen = panel.generation THEN [t EXCEPT !.cancelled = TRUE] ELSE t
  <1>1. CancelLive = {F(t) : t \in pumps}
        BY DEF CancelLive
  <1>2. ASSUME NEW t \in pumps
        PROVE  /\ F(t).gen = t.gen /\ F(t).for = t.for
               /\ F(t) \in [gen : 1..panel.generation, for : {"chat", "summary"}, cancelled : BOOLEAN]
    <2>1. t \in [gen : 1..panel.generation, for : {"chat", "summary"}, cancelled : BOOLEAN]
          BY DEF Pumped
    <2> QED BY <2>1
  <1> HIDE DEF F
  <1> QED BY <1>1, <1>2 DEF Pumped

\* Whom a provider serves throughout.
LEMMA SteadyMeans ==
  ASSUME AInv, Steady
  PROVE  Steadily /\ ~around.compacts
  BY DEF AInv, Steady, Steadily

-----------------------------------------------------------------------------
(* The conversation and one message more of the user's.                    *)

LEMMA SaidKept ==
  ASSUME NEW p, p.messages \in Seq(Message), NEW n \in Nat, NEW q, Longer(p.messages, q.messages)
  PROVE  /\ Known(p, n) => Known(q, n)
         /\ \A xs, allowed : Kept(p, xs, allowed) => Kept(q, xs, allowed)
  <1> DEFINE none == <<>>
  <1>1. none \in Calls /\ Len(none) = 0 /\ DOMAIN none = {}
        BY PanelAssumption DEF Calls
  <1>2. Grown(p.messages, p.messages, 0, none)
        BY DEF Grown
  <1> HIDE DEF none
  <1>3. Numbered(none, n)
        BY <1>1 DEF Numbered
  <1>4. /\ \A at \in Cards(p) : at \in Cards(q) /\ Card(q, at) = Card(p, at)
        /\ \A at \in Cards(q) : at \notin Cards(p) =>
              \E j \in DOMAIN none : at = <<Len(p.messages), j>>
        BY <1>1, <1>2, CardsGrow
  <1>5. Cards(q) = Cards(p) /\ \A at \in Cards(p) : Card(q, at) = Card(p, at)
        BY <1>1, <1>4
  <1>6. Known(p, n) => Known(q, n)
        BY <1>5 DEF Known
  <1>7. ASSUME NEW allowed, CardsTrue(p, allowed) PROVE CardsTrue(q, allowed)
        BY <1>5, <1>7 DEF CardsTrue
  <1>8. ASSUME NEW x, NEW allowed, OwnCard(p, x, allowed) PROVE OwnCard(q, x, allowed)
    <2>1. /\ x \in [call : Nat, st : {"live", "stopping", "late"}, at : Cards(p)]
          /\ x.at \in Cards(p)
          BY <1>8 DEF OwnCard
    <2>2. Card(q, x.at) = Card(p, x.at)
          BY <1>5, <2>1
    <2> QED BY <1>5, <1>8, <2>1, <2>2 DEF OwnCard
  <1>9. \A xs, allowed : Kept(p, xs, allowed) => Kept(q, xs, allowed)
        BY <1>7, <1>8 DEF Kept
  <1> QED BY <1>6, <1>9

-----------------------------------------------------------------------------
(* The user writes.                                                        *)

LEMMA SubmitKeeps ==
  ASSUME AInv, Submit, UNCHANGED around
  PROVE  AInv'
  <1> DEFINE n == typed + 1
             l == Append(panel.queue, n)
             p1 == [panel EXCEPT !.queue = Append(@, n)]
  <1>1. /\ PanelOK(panel) /\ Pumped(pumps, panel) /\ Known(panel, asked) /\ Held(panel, asked)
        /\ typed \in Nat /\ n \in Nat /\ asked \in Nat /\ provider \in around.configured
        /\ typed' = n /\ asked' = asked /\ provider' = provider /\ execs' = execs
        /\ approved' = approved
        /\ ~around.compacts => Kept(panel, execs, approved)
        /\ Steady => InTurn(panel, typed) /\ QueueWaits(panel)
        BY DEF AInv, Submit
  <1>2. /\ panel \in PanelType /\ panel.messages \in Seq(Message) /\ panel.queue \in Seq(Nat)
        /\ panel.generation \in Nat
        BY <1>1, Fields DEF PanelOK
  <1>3. l \in Seq(Nat) /\ p1 = [panel EXCEPT !.queue = l]
        BY <1>1, <1>2
  <1>a. p1 = [panel EXCEPT !.queue = Append(@, n)]
        OBVIOUS
  <1> HIDE DEF p1, n, l
  <1>4. /\ PanelOK(p1) /\ p1.messages = panel.messages /\ p1.stream = panel.stream
        /\ p1.generation = panel.generation /\ p1.finish = panel.finish
        /\ is_busy(p1) = is_busy(panel) /\ p1.queue = l
        BY <1>1, <1>3, Requeued
  <1>5. Steady => InTurn(p1, n)
        BY <1>1, <1>a, Queued DEF n
  <1>6. CASE is_busy(panel)
    <2>1. Leaves({p1}, pumps)
          BY <1>6, <1>a DEF Submit, n
    <2>2. Onward(p1, pumps)
          BY <1>2, <1>4 DEF Onward
    <2>3. panel' = p1 /\ Pumped(pumps', p1)
          BY <1>1, <2>1, <2>2, Left
    <2>4. Known(p1, asked) /\ (~around.compacts => Kept(p1, execs, approved)) /\ Held(p1, asked)
          BY <1>1, <1>4, SameCards DEF Held
    <2>5. Steady => QueueWaits(p1)
          BY <1>4, <1>6 DEF QueueWaits
    <2> QED BY <1>1, <1>4, <1>5, <2>3, <2>4, <2>5, Lands
  <1>7. CASE ~is_busy(panel)
    <2>1. provider /\ Leaves(commit_and_send(panel, n), pumps)
          BY <1>7 DEF Submit, n
    <2>2. panel.stream = 0 /\ panel.compaction = 0 /\ panel.finish = NoFinish /\ Answered(panel.messages)
          BY <1>2, <1>7, IdleMeans
    <2>3. ASSUME NEW q \in commit_and_send(panel, n)
          PROVE  /\ PanelOK(q) /\ q.messages = Append(panel.messages, Said(panel, n))
                 /\ Said(panel, n) \in Message /\ q.queue = panel.queue /\ Moves(panel, q)
                 /\ provider /\ ~around.compacts => q.stream # 0
                 /\ Onward(q, pumps)
          BY <1>1, <2>2, Commits, MovesOn
    <2>4. PICK q \in commit_and_send(panel, n) : panel' = q /\ Pumped(pumps', q)
          BY <1>1, <2>1, <2>3, Left
    <2>5. Sent(panel.messages, q.messages, n)
      <3>1. /\ Said(panel, n).role = "User" /\ Said(panel, n).text = n /\ Said(panel, n).calls = <<>>
            BY DEF Said, Turn
      <3> QED BY <2>3, <3>1 DEF Sent
    <2>6. Longer(panel.messages, q.messages)
          BY <2>5 DEF Longer
    <2>7. Known(q, asked) /\ (~around.compacts => Kept(q, execs, approved))
          BY <1>1, <1>2, <2>6, SaidKept
    <2>8. Held(q, asked)
          BY <2>2, <2>3 DEF Held, Moves
    <2>9. ASSUME Steady PROVE InTurn(q, n) /\ QueueWaits(q)
      <3>1. ~around.compacts /\ panel.queue = <<>>
            BY <1>1, <1>7, <2>9 DEF QueueWaits, Steady
      <3>2. /\ p1.queue # <<>> /\ Head(p1.queue) = n /\ Tail(p1.queue) = <<>> /\ p1.queue \in Seq(Nat)
        <4>1. p1.queue = <<n>>
              BY <1>4, <3>1 DEF l
        <4> QED BY <1>1, <4>1
      <3>3. /\ p1.messages \in Seq(Message) /\ InTurn(p1, n) /\ SameUsers(p1.messages, panel.messages)
            BY <1>2, <1>4, <1>5, <2>9 DEF SameUsers
      <3>4. q.queue = Tail(p1.queue) /\ Sent(panel.messages, q.messages, Head(p1.queue))
            BY <2>3, <2>5, <3>1, <3>2
      <3>5. InTurn(q, n)
            BY <1>1, <1>2, <3>2, <3>3, <3>4, TurnsKept
      <3>6. QueueWaits(q)
            BY <2>1, <2>3, <3>1 DEF QueueWaits, is_busy
      <3> QED BY <3>5, <3>6
    <2> QED BY <1>1, <2>3, <2>4, <2>7, <2>8, <2>9, Lands
  <1> QED BY <1>6, <1>7

LEMMA RemoveQueuedKeeps ==
  ASSUME AInv, RemoveQueued, UNCHANGED around
  PROVE  AInv'
  <1>1. /\ PanelOK(panel) /\ Pumped(pumps, panel) /\ Known(panel, asked) /\ Held(panel, asked)
        /\ typed \in Nat /\ asked \in Nat /\ provider \in around.configured
        /\ typed' = typed /\ asked' = asked /\ provider' = provider /\ execs' = execs
        /\ approved' = approved /\ pumps' = pumps
        /\ ~around.compacts => Kept(panel, execs, approved)
        /\ Steady => InTurn(panel, typed) /\ QueueWaits(panel)
        BY DEF AInv, RemoveQueued
  <1>2. PICK i \in DOMAIN panel.queue : panel' = [panel EXCEPT !.queue = Without(panel.queue, i)]
        BY DEF RemoveQueued, Without
  <1>3. panel \in PanelType /\ panel.queue \in Seq(Nat)
        BY <1>1, Fields DEF PanelOK
  <1>4. Without(panel.queue, i) \in Seq(Nat)
        BY <1>3, WithoutOne
  <1>5. /\ PanelOK(panel') /\ panel'.messages = panel.messages /\ panel'.stream = panel.stream
        /\ panel'.generation = panel.generation /\ panel'.finish = panel.finish
        /\ is_busy(panel') = is_busy(panel)
        BY <1>1, <1>2, <1>4, Requeued
  <1>6. Known(panel', asked) /\ (~around.compacts => Kept(panel', execs, approved)) /\ Held(panel', asked)
        BY <1>1, <1>5, SameCards DEF Held
  <1>7. Pumped(pumps, panel')
        BY <1>1, <1>5 DEF Pumped
  <1>8. ASSUME Steady PROVE InTurn(panel', typed) /\ QueueWaits(panel')
    <2>1. InTurn(panel', typed)
          BY <1>1, <1>2, <1>8, Dropped
    <2>2. panel.queue # <<>>
          OBVIOUS
    <2> QED BY <1>1, <1>5, <1>8, <2>1, <2>2 DEF QueueWaits
  <1> QED BY <1>1, <1>5, <1>6, <1>7, <1>8, Lands

LEMMA StopKeeps ==
  ASSUME AInv, Stop, UNCHANGED around
  PROVE  AInv'
  <1>1. Pumped(pumps, panel)'
        BY Cancels DEF AInv, Stop
  <1>2. PanelOK(panel)' /\ (Steady' <=> Steady)
        BY DEF AInv, Stop, PanelOK, Steady
  <1> QED BY <1>1, <1>2 DEF AInv, Stop

LEMMA ReconfigureKeeps ==
  ASSUME AInv, Reconfigure, UNCHANGED around
  PROVE  AInv'
  <1>1. PanelOK(panel)' /\ (Steady' <=> Steady)
        BY DEF AInv, Reconfigure, PanelOK, Steady
  <1> QED BY <1>1 DEF AInv, Reconfigure

-----------------------------------------------------------------------------
(* The queue is sent and what runs is cancelled.                           *)

LEMMA SkippedCall ==
  ASSUME NEW c \in ToolCall
  PROVE  /\ Skipped(c) \in ToolCall /\ Skipped(c).id = c.id /\ Skipped(c).result # "none"
         /\ Skipped(c).decision = "Allowed" => c.decision = "Allowed"
         /\ c.result # "foreign" => Skipped(c).result # "foreign"
         /\ c.decision # "Pending" => Skipped(c).decision # "Pending"
         /\ c.running \/ c.cancelled => Skipped(c).cancelled
  <1>1. CASE c.running
        BY <1>1 DEF Skipped, ToolCall
  <1>2. CASE ~c.running /\ c.decision = "Pending"
        BY <1>2 DEF Skipped, ToolCall
  <1>3. CASE ~c.running /\ c.decision # "Pending"
        BY <1>3 DEF Skipped, ToolCall
  <1> QED BY <1>1, <1>2, <1>3

AllSkipped(m) ==
  [i \in DOMAIN m |-> [m[i] EXCEPT !.calls = [j \in DOMAIN @ |-> Skipped(@[j])]]]

LEMMA SkippedCalls ==
  ASSUME NEW m \in Seq(Message)
  PROVE  /\ Recalled(m, AllSkipped(m)) /\ Answered(AllSkipped(m))
         /\ \A i \in DOMAIN m :
              /\ DOMAIN AllSkipped(m)[i].calls = DOMAIN m[i].calls
              /\ \A j \in DOMAIN m[i].calls :
                   m[i].calls[j] \in ToolCall /\ AllSkipped(m)[i].calls[j] = Skipped(m[i].calls[j])
  <1> DEFINE r == AllSkipped(m)
  <1>1. Len(m) \in Nat /\ DOMAIN m = 1..Len(m)
        OBVIOUS
  <1>2. ASSUME NEW i \in DOMAIN m
        PROVE  /\ r[i] \in Message /\ r[i].role = m[i].role /\ r[i].gen = m[i].gen
               /\ r[i].text = m[i].text /\ DOMAIN r[i].calls = DOMAIN m[i].calls
               /\ \A j \in DOMAIN m[i].calls :
                    m[i].calls[j] \in ToolCall /\ r[i].calls[j] = Skipped(m[i].calls[j])
    <2> DEFINE cs == m[i].calls
               ds == [j \in DOMAIN cs |-> Skipped(cs[j])]
    <2>1. m[i] \in Message
          OBVIOUS
    <2>2. r[i] = [m[i] EXCEPT !.calls = ds]
          BY DEF AllSkipped
    <2>3. cs \in Seq(ToolCall) /\ Len(cs) \in Nat /\ Len(cs) <= PerTurn /\ DOMAIN cs = 1..Len(cs)
          BY <2>1 DEF Message, Calls
    <2>4. \A j \in DOMAIN cs : cs[j] \in ToolCall /\ Skipped(cs[j]) \in ToolCall
          BY <2>3, SkippedCall
    <2>5. ds \in Seq(ToolCall) /\ Len(ds) = Len(cs)
          BY <2>3, <2>4
    <2>6. DOMAIN ds = DOMAIN cs /\ \A j \in DOMAIN cs : ds[j] = Skipped(cs[j])
          OBVIOUS
    <2>7. ds \in Calls
          BY <2>3, <2>5 DEF Calls
    <2> HIDE DEF ds, cs, r
    <2>8. /\ r[i] \in Message /\ r[i].role = m[i].role /\ r[i].gen = m[i].gen
          /\ r[i].text = m[i].text /\ r[i].calls = ds
          BY <2>1, <2>2, <2>7 DEF Message
    <2> QED BY <2>4, <2>6, <2>8 DEF cs
  <1>3. r \in Seq(Message) /\ Len(r) = Len(m) /\ DOMAIN r = DOMAIN m
    <2>1. r = [i \in 1..Len(m) |-> r[i]]
          BY <1>1 DEF AllSkipped
    <2>2. \A i \in 1..Len(m) : r[i] \in Message
          BY <1>1, <1>2
    <2> HIDE DEF r
    <2> QED BY <1>1, <2>1, <2>2
  <1> HIDE DEF r
  <1>4. Recalled(m, r)
        BY <1>2, <1>3 DEF Recalled
  <1>5. Answered(r)
    <2> SUFFICES ASSUME NEW i \in DOMAIN r, NEW j \in DOMAIN r[i].calls
                 PROVE  r[i].calls[j].result # "none"
        BY DEF Answered
    <2>1. i \in DOMAIN m /\ j \in DOMAIN m[i].calls
          BY <1>2, <1>3
    <2>2. m[i].calls[j] \in ToolCall /\ r[i].calls[j] = Skipped(m[i].calls[j])
          BY <1>2, <2>1
    <2> QED BY <2>2, SkippedCall
  <1>6. \A i \in DOMAIN m :
              /\ DOMAIN r[i].calls = DOMAIN m[i].calls
              /\ \A j \in DOMAIN m[i].calls :
                   m[i].calls[j] \in ToolCall /\ r[i].calls[j] = Skipped(m[i].calls[j])
        BY <1>2
  <1> QED BY <1>4, <1>5, <1>6 DEF r

\* What was allowed stays so; what ran is given up, and its outcome will be late.
LEMMA SkippedKept ==
  ASSUME NEW p, p.messages \in Seq(Message), NEW q, q.messages = AllSkipped(p.messages)
  PROVE  /\ \A n : Known(p, n) => Known(q, n)
         /\ \A xs, allowed : Kept(p, xs, allowed) =>
              Kept(q, {[x EXCEPT !.st = "late"] : x \in xs}, allowed)
  <1> DEFINE m == p.messages
  <1>1. /\ q.messages \in Seq(Message) /\ DOMAIN q.messages = DOMAIN m
        /\ \A i \in DOMAIN m :
              /\ DOMAIN q.messages[i].calls = DOMAIN m[i].calls
              /\ \A j \in DOMAIN m[i].calls :
                   m[i].calls[j] \in ToolCall /\ q.messages[i].calls[j] = Skipped(m[i].calls[j])
        BY SkippedCalls DEF Recalled
  <1>2. Cards(q) = Cards(p)
    <2>1. \A at : at \in Cards(q) <=> \E i \in DOMAIN m : \E j \in DOMAIN q.messages[i].calls : at = <<i, j>>
          BY <1>1, CardPairs
    <2>2. \A at : at \in Cards(p) <=> \E i \in DOMAIN m : \E j \in DOMAIN m[i].calls : at = <<i, j>>
          BY CardPairs
    <2>3. \A at : at \in Cards(q) <=> at \in Cards(p)
          BY <1>1, <2>1, <2>2
    <2>4. \A at \in Cards(p) : at \in Cards(q)
          BY <2>3
    <2>5. \A at \in Cards(q) : at \in Cards(p)
          BY <2>3
    <2> QED BY <2>4, <2>5
  <1>3. ASSUME NEW at \in Cards(p) PROVE Card(p, at) \in ToolCall /\ Card(q, at) = Skipped(Card(p, at))
    <2>1. PICK i \in DOMAIN m : \E j \in DOMAIN m[i].calls : at = <<i, j>>
          BY CardPairs
    <2>2. PICK j \in DOMAIN m[i].calls : at = <<i, j>>
          BY <2>1
    <2>3. Card(p, at) = m[i].calls[j] /\ Card(q, at) = q.messages[i].calls[j]
          BY <2>2 DEF Card
    <2> QED BY <1>1, <2>3
  <1>4. \A at \in Cards(p) :
          /\ Card(q, at).id = Card(p, at).id
          /\ Card(q, at).decision = "Allowed" => Card(p, at).decision = "Allowed"
          /\ Card(p, at).result # "foreign" => Card(q, at).result # "foreign"
          /\ Card(p, at).decision # "Pending" => Card(q, at).decision # "Pending"
          /\ Card(p, at).running \/ Card(p, at).cancelled => Card(q, at).cancelled
        BY <1>3, SkippedCall
  <1>5. \A n : Known(p, n) => Known(q, n)
        BY <1>2, <1>4 DEF Known
  <1>6. ASSUME NEW xs, NEW allowed, Kept(p, xs, allowed)
        PROVE  Kept(q, {[x EXCEPT !.st = "late"] : x \in xs}, allowed)
    <2> DEFINE F(x) == [x EXCEPT !.st = "late"]
               Runs == [call : Nat, st : {"live", "stopping", "late"}, at : Cards(p)]
    <2>1. CardsTrue(q, allowed)
          BY <1>2, <1>4, <1>6 DEF CardsTrue, Kept
    <2>2. ASSUME NEW x \in xs
          PROVE  OwnCard(q, F(x), allowed) /\ F(x).at = x.at
      <3>1. OwnCard(p, x, allowed)
            BY <1>6 DEF Kept
      <3>2. x \in Runs
            BY <3>1 DEF OwnCard
      <3>3. F(x) \in Runs /\ F(x).at = x.at /\ F(x).call = x.call /\ x.at \in Cards(p)
            BY <3>2
      <3> HIDE DEF F
      <3>4. /\ Card(q, x.at).id = x.call /\ x.call \in allowed /\ Card(q, x.at).decision # "Pending"
            /\ Card(q, x.at).cancelled
            BY <1>4, <3>1, <3>3 DEF OwnCard
      <3> QED BY <1>2, <3>3, <3>4 DEF OwnCard
    <2> HIDE DEF F, Runs
    <2>3. ASSUME NEW u \in {F(x) : x \in xs}, NEW v \in {F(x) : x \in xs}, u.at = v.at
          PROVE  u = v
      <3>1. PICK x \in xs : u = F(x)
            OBVIOUS
      <3>2. PICK y \in xs : v = F(y)
            OBVIOUS
      <3>3. x.at = y.at
            BY <2>2, <2>3, <3>1, <3>2
      <3>4. x = y
            BY <1>6, <3>3 DEF Kept
      <3> QED BY <3>1, <3>2, <3>4
    <2>4. Kept(q, {F(x) : x \in xs}, allowed)
          BY <2>1, <2>2, <2>3 DEF Kept
    <2> QED BY <2>4 DEF F
  <1> QED BY <1>5, <1>6

LEMMA SendQueuedKeeps ==
  ASSUME AInv, SendQueuedCancelRun, UNCHANGED around
  PROVE  AInv'
  <1> DEFINE g == panel.generation + 1
             m == panel.messages
             r == AllSkipped(m)
             text == Head(panel.queue)
             l == Tail(panel.queue)
             p == [messages |-> r, stream |-> 0, generation |-> g, compaction |-> 0,
                   finish |-> NoFinish, queue |-> l]
  <1>1. /\ PanelOK(panel) /\ Pumped(pumps, panel) /\ Known(panel, asked)
        /\ typed \in Nat /\ asked \in Nat /\ provider \in around.configured
        /\ typed' = typed /\ asked' = asked /\ provider' = provider
        /\ approved' = approved /\ execs' = {[x EXCEPT !.st = "late"] : x \in execs}
        /\ ~around.compacts => Kept(panel, execs, approved)
        /\ Steady => InTurn(panel, typed)
        BY DEF AInv, SendQueuedCancelRun
  <1>2. /\ panel \in PanelType /\ m \in Seq(Message) /\ panel.queue \in Seq(Nat)
        /\ panel.generation \in Nat /\ g \in Nat /\ panel.queue # <<>>
        /\ Dated(m, panel.generation) /\ Summarised(m)
        BY <1>1, Fields DEF PanelOK, SendQueuedCancelRun
  <1>3. text \in Nat /\ l \in Seq(Nat)
        BY <1>2, HeadTailProperties
  <1>4. Leaves(commit_and_send(p, text), CancelLive)
    <2>1. [panel EXCEPT !.messages = r, !.stream = 0, !.compaction = 0,
                        !.finish = NoFinish, !.generation = @ + 1, !.queue = Tail(@)] = p
      <3>1. panel = [messages |-> m, stream |-> panel.stream, generation |-> panel.generation,
                     compaction |-> panel.compaction, finish |-> panel.finish, queue |-> panel.queue]
            BY <1>2 DEF PanelType
      <3> DEFINE w == [panel EXCEPT !.messages = r, !.stream = 0, !.compaction = 0,
                                    !.finish = NoFinish, !.generation = @ + 1, !.queue = Tail(@)]
      <3>2. /\ DOMAIN w = {"messages", "stream", "generation", "compaction", "finish", "queue"}
            /\ w = [k \in DOMAIN w |-> w[k]]
            BY <3>1
      <3>3. w.messages = r /\ w.stream = 0 /\ w.compaction = 0
            BY <3>1
      <3>4. w.finish = NoFinish /\ w.generation = g /\ w.queue = l
            BY <3>1
      <3> HIDE DEF w, r, g, l
      <3>5. w = p
            BY <3>2, <3>3, <3>4
      <3> QED BY <3>5 DEF w
    <2> HIDE DEF p
    <2> QED BY <2>1 DEF SendQueuedCancelRun, AllSkipped
  <1> HIDE DEF g, r, text, l
  <1>5. /\ p.messages = r /\ p.stream = 0 /\ p.generation = g /\ p.compaction = 0
        /\ p.finish = NoFinish /\ p.queue = l
        OBVIOUS
  <1>6. Recalled(m, r) /\ Answered(r) /\ r \in Seq(Message)
        BY <1>2, SkippedCalls DEF r, Recalled
  <1>7. PanelOK(p)
    <2>1. p \in PanelType
          BY <1>2, <1>3, <1>6 DEF PanelType
    <2>2. Dated(m, g)
          BY <1>2, DatedLater DEF g
    <2>3. Dated(r, g) /\ Summarised(r)
          BY <1>2, <1>6, <2>2, RecalledSound
    <2> HIDE DEF p
    <2> QED BY <1>5, <2>1, <2>3 DEF PanelOK
  <1>8. /\ Known(p, asked)
        /\ ~around.compacts => Kept(p, execs', approved)
        BY <1>1, <1>2, <1>5, SkippedKept DEF r
  <1> HIDE DEF p
  <1>9. ASSUME NEW q \in commit_and_send(p, text)
        PROVE  /\ PanelOK(q) /\ q.messages = Append(r, Said(p, text)) /\ Said(p, text) \in Message
               /\ q.queue = l /\ Moves(p, q) /\ q.finish = NoFinish
               /\ provider /\ ~around.compacts => q.stream # 0
               /\ Onward(q, CancelLive)
    <2>1. /\ PanelOK(q) /\ q.messages = Append(r, Said(p, text)) /\ Said(p, text) \in Message
          /\ q.queue = l /\ Moves(p, q)
          /\ provider /\ ~around.compacts => q.stream # 0
          BY <1>3, <1>5, <1>6, <1>7, Commits
    <2>2. q.finish = NoFinish /\ q.generation \in Nat /\ g <= q.generation
          BY <1>5, <2>1 DEF Moves
    <2>3. panel.generation <= q.generation /\ panel.generation # q.generation
          BY <1>2, <2>2 DEF g
    <2> QED BY <2>1, <2>2, <2>3 DEF Onward
  <1>10. PICK q \in commit_and_send(p, text) : panel' = q /\ Pumped(pumps', q)
        BY <1>1, <1>4, <1>9, Left, Cancels
  <1>11. Sent(r, q.messages, text)
    <2>1. Said(p, text).role = "User" /\ Said(p, text).text = text /\ Said(p, text).calls = <<>>
          BY DEF Said, Turn
    <2> QED BY <1>9, <2>1 DEF Sent
  <1>12. Known(q, asked) /\ (~around.compacts => Kept(q, execs', approved))
        BY <1>1, <1>5, <1>6, <1>8, <1>11, SaidKept DEF Longer
  <1>13. Held(q, asked)
        BY <1>9 DEF Held
  <1>14. ASSUME Steady PROVE InTurn(q, typed) /\ QueueWaits(q)
    <2>1. SameUsers(m, r)
          BY <1>6 DEF Recalled, SameUsers
    <2>2. q.queue = Tail(panel.queue) /\ Sent(r, q.messages, Head(panel.queue))
          BY <1>9, <1>11 DEF l, text
    <2>3. InTurn(q, typed)
          BY <1>1, <1>2, <1>6, <1>14, <2>1, <2>2, TurnsKept
    <2>4. q.stream # 0
          BY <1>9, <1>14, SteadyMeans DEF Steadily
    <2> QED BY <2>3, <2>4 DEF QueueWaits, is_busy
  <1> QED BY <1>1, <1>9, <1>10, <1>12, <1>13, <1>14, Lands

-----------------------------------------------------------------------------
(* The model answers.                                                      *)

LEMMA NewCallOK ==
  ASSUME NEW id \in Nat, NEW kind \in ToolKinds, NEW fate \in Fates
  PROVE  /\ NewCall(id, kind, fate) \in ToolCall /\ NewCall(id, kind, fate).id = id
         /\ ~NewCall(id, kind, fate).cancelled /\ NewCall(id, kind, fate).result # "foreign"
         /\ NewCall(id, kind, fate).running => NewCall(id, kind, fate).decision = "Allowed"
  <1>1. kind \in {"exec", "wait"}
        BY PanelAssumption
  <1>2. fate \in {"confirm", "blocked", "deny", "refused", "done", "running"}
        BY PanelAssumption
  <1> DEFINE ds == [confirm |-> "Pending", blocked |-> "Unavailable", deny |-> "Denied",
                    refused |-> "Denied", done |-> "Allowed", running |-> "Allowed"]
             rs == [confirm |-> "none", blocked |-> "note", deny |-> "note",
                    refused |-> "note", done |-> "own", running |-> "none"]
             d == ds[fate]
             r == rs[fate]
  <1>3. /\ d \in {"Pending", "Allowed", "Denied", "Unavailable"} /\ r \in {"none", "own", "note"}
        /\ (r = "none") <=> (d = "Pending" \/ fate = "running")
        /\ fate = "running" => d = "Allowed"
    <2>1. CASE fate = "confirm"
          BY <2>1
    <2>2. CASE fate = "blocked"
          BY <2>2
    <2>3. CASE fate = "deny"
          BY <2>3
    <2>4. CASE fate = "refused"
          BY <2>4
    <2>5. CASE fate = "done"
          BY <2>5
    <2>6. CASE fate = "running"
          BY <2>6
    <2> QED BY <1>2, <2>1, <2>2, <2>3, <2>4, <2>5, <2>6
  <1>4. NewCall(id, kind, fate) = [id |-> id, kind |-> kind, cancelled |-> FALSE,
                                   running |-> fate = "running", decision |-> d, result |-> r]
        BY DEF NewCall
  <1> DEFINE b == fate = "running"
             c == NewCall(id, kind, fate)
  <1>5. b \in BOOLEAN
        OBVIOUS
  <1>6. /\ c.id = id /\ c.kind = kind /\ c.cancelled = FALSE /\ c.running = b /\ c.decision = d
        /\ c.result = r
        /\ c = [id |-> id, kind |-> kind, cancelled |-> FALSE, running |-> b, decision |-> d, result |-> r]
        BY <1>4
  <1>7. (r = "none") <=> (d = "Pending" \/ b)
        BY <1>3
  <1>8. b => d = "Allowed"
        BY <1>3
  <1> HIDE DEF d, r, b, c
  <1>9. c \in [id : Nat, kind : {"exec", "wait"},
               decision : {"Pending", "Allowed", "Denied", "Unavailable"},
               result : {"none", "own", "foreign", "note"}, running : BOOLEAN, cancelled : BOOLEAN]
        BY <1>1, <1>3, <1>5, <1>6
  <1>10. c \in ToolCall
        BY <1>6, <1>7, <1>8, <1>9 DEF ToolCall
  <1>11. c.result # "foreign"
        BY <1>3, <1>6
  <1> QED BY <1>6, <1>8, <1>10, <1>11 DEF c

LEMMA BatchOK ==
  ASSUME AInv, NEW cs \in Batches
  PROVE  cs \in Calls /\ Numbered(cs, asked)
  <1>1. /\ asked \in Nat /\ around.calls \in Nat /\ PerTurn \in Nat
    <2>1. around \in [compacts : BOOLEAN, configured : SUBSET BOOLEAN, calls : 0..MaxCalls]
          BY PanelAssumption DEF AInv
    <2> QED BY <2>1, PanelAssumption DEF AInv
  <1> DEFINE most == IF asked + PerTurn <= around.calls THEN PerTurn ELSE around.calls - asked
  <1> DEFINE B(n) == {[j \in 1..n |-> NewCall(asked + j, k[j], f[j])] :
                        k \in [1..n -> ToolKinds], f \in [1..n -> Fates]}
  <1>a. Batches = UNION {B(n) : n \in 0..most}
        BY DEF Batches
  <1>2. PICK n \in 0..most : cs \in B(n)
    <2> HIDE DEF B, most
    <2> QED BY <1>a
  <1>3. PICK k \in [1..n -> ToolKinds], f \in [1..n -> Fates] :
          cs = [j \in 1..n |-> NewCall(asked + j, k[j], f[j])]
        BY <1>2
  <1>4. n \in Nat /\ n <= PerTurn
        BY <1>1
  <1>5. \A j \in 1..n : asked + j \in Nat /\ k[j] \in ToolKinds /\ f[j] \in Fates
        BY <1>1
  <1> HIDE DEF most
  <1>6. DOMAIN cs = 1..n /\ \A j \in 1..n : cs[j] = NewCall(asked + j, k[j], f[j])
        BY <1>3
  <1>7. \A j \in 1..n : /\ cs[j] \in ToolCall /\ cs[j].id = asked + j
                        /\ ~cs[j].cancelled /\ cs[j].result # "foreign"
                        /\ cs[j].running => cs[j].decision = "Allowed"
        BY <1>5, <1>6, NewCallOK
  <1>8. cs \in Seq(ToolCall) /\ Len(cs) = n
    <2>1. cs = [j \in 1..n |-> cs[j]]
          BY <1>3
    <2> QED BY <1>4, <1>7, <2>1
  <1> QED BY <1>4, <1>6, <1>7, <1>8 DEF Calls, Numbered

LEMMA OutcomeOK ==
  ASSUME AInv, NEW o \in Replies \cup Broken("err") \cup Broken("cancelled")
  PROVE  o \in Outcomes /\ Numbered(o.calls, asked)
  <1>1. CASE o \in Replies
    <2>1. PICK b \in BOOLEAN, cs \in Batches : o = [end |-> "ok", blank |-> b, calls |-> cs]
          BY <1>1 DEF Replies
    <2>2. cs \in Calls /\ Numbered(cs, asked)
          BY BatchOK
    <2> QED BY <2>1, <2>2 DEF Outcomes
  <1>2. CASE o \in Broken("err") \cup Broken("cancelled")
    <2>1. PICK e \in {"err", "cancelled"}, b \in BOOLEAN : o = [end |-> e, blank |-> b, calls |-> <<>>]
          BY <1>2 DEF Broken
    <2>2. <<>> \in Calls /\ Numbered(<<>>, asked)
          BY PanelAssumption DEF Calls, Numbered
    <2> QED BY <2>1, <2>2 DEF Outcomes
  <1> QED BY <1>1, <1>2

\* A turn is committed, with its calls and what waited in the queue.
LEMMA CommitKeeps ==
  ASSUME AInv, UNCHANGED <<around, typed, provider>>,
         NEW p, PanelOK(p), p.stream # 0, p.finish = NoFinish,
         p.messages = panel.messages, p.queue = panel.queue, p.generation = panel.generation,
         NEW rest, Pumped(rest, panel),
         \A t \in rest : ~(t.for = "chat" /\ t.gen = panel.generation),
         NEW o \in Outcomes, Numbered(o.calls, asked),
         Leaves(finalize_turn(p, p.generation, o), rest), Committed(o)
  PROVE  AInv'
  <1> DEFINE cs == o.calls
             m == panel.messages
  <1>1. /\ PanelOK(panel) /\ Known(panel, asked)
        /\ typed \in Nat /\ asked \in Nat /\ provider \in around.configured
        /\ typed' = typed /\ provider' = provider
        /\ ~around.compacts => Kept(panel, execs, approved)
        /\ Steady => InTurn(panel, typed)
        BY DEF AInv
  <1>2. panel \in PanelType /\ m \in Seq(Message) /\ panel.queue \in Seq(Nat) /\ panel.generation \in Nat
        BY <1>1, Fields DEF PanelOK
  <1>3. cs \in Calls /\ Len(cs) \in Nat
        BY DEF Outcomes, Calls
  <1>4. ASSUME NEW q \in finalize_turn(p, p.generation, o)
        PROVE  /\ PanelOK(q) /\ q.finish = NoFinish /\ Onward(q, rest)
               /\ \E r : Grown(m, r, p.generation, cs) /\ Followed(q, r, panel.queue)
    <2>1. /\ PanelOK(q) /\ q.finish = NoFinish /\ p.generation <= q.generation
          /\ q.generation = p.generation => q.stream = 0
          /\ \E r : Grown(p.messages, r, p.generation, cs) /\ Followed(q, r, p.queue)
          BY Finalizes
    <2> QED BY <2>1 DEF Onward
  <1>5. PICK q \in finalize_turn(p, p.generation, o) : panel' = q /\ Pumped(pumps', q)
        BY <1>1, <1>4, Left
  <1>6. PICK r : Grown(m, r, p.generation, cs) /\ Followed(q, r, panel.queue)
        BY <1>4
  <1>7. Longer(r, q.messages)
        BY <1>6 DEF Followed, Longer
  <1>8. /\ asked' = asked + Len(cs) /\ asked' \in Nat
        /\ approved' = approved \cup AllowedOf(cs) /\ execs' = execs \cup Started(q, cs)
        BY <1>1, <1>3, <1>5 DEF Committed, AllowedOf, Started
  <1>a. Numbered(cs, asked)
        OBVIOUS
  <1> HIDE DEF cs
  <1>9. /\ Known(q, asked')
        /\ ~around.compacts => Kept(q, execs', approved')
    <2>1. /\ Known(q, asked + Len(cs))
          /\ \A xs, allowed : Kept(panel, xs, allowed) =>
               Kept(q, xs \cup Started(q, cs), allowed \cup AllowedOf(cs))
          BY <1>1, <1>2, <1>3, <1>6, <1>7, <1>a, ReplyKept
    <2> QED BY <1>1, <1>8, <2>1
  <1>10. Held(q, asked')
        BY <1>4 DEF Held
  <1>11. ASSUME Steady PROVE InTurn(q, typed) /\ QueueWaits(q)
    <2>a. r \in Seq(Message)
          BY <1>6 DEF Grown
    <2>b. SameUsers(m, r)
          BY <1>6, GrownUsers
    <2>1. SameUsers(m, r) /\ r \in Seq(Message)
          BY <2>a, <2>b
    <2>2. \/ q.messages = r /\ q.queue = panel.queue
          \/ panel.queue # <<>> /\ Sent(r, q.messages, Head(panel.queue)) /\ q.queue = Tail(panel.queue)
          BY <1>6 DEF Followed
    <2>3. InTurn(q, typed)
          BY <1>1, <1>2, <1>11, <2>1, <2>2, TurnsKept
    <2>4. QueueWaits(q)
          BY <1>6, <1>11, SteadyMeans DEF Followed, QueueWaits, is_busy
    <2> QED BY <2>3, <2>4
  <1> QED BY <1>1, <1>4, <1>5, <1>8, <1>9, <1>10, <1>11, Lands

LEMMA ChatEndsKeeps ==
  ASSUME AInv, NEW t, ChatEnds(t), UNCHANGED around
  PROVE  AInv'
  <1>1. /\ PanelOK(panel) /\ Pumped(pumps, panel) /\ Known(panel, asked) /\ Held(panel, asked)
        /\ typed \in Nat /\ asked \in Nat /\ provider \in around.configured
        /\ t \in pumps /\ t.for = "chat" /\ typed' = typed /\ provider' = provider
        /\ ~around.compacts => Kept(panel, execs, approved)
        /\ Steady => InTurn(panel, typed) /\ QueueWaits(panel)
        BY DEF AInv, ChatEnds
  <1>2. panel \in PanelType /\ panel.generation \in Nat
        BY <1>1, Fields DEF PanelOK
  <1>3. Pumped(pumps \ {t}, panel)
        BY <1>1, Rest
  <1>4. CASE Superseded(t)
    <2>1. /\ pumps' = pumps \ {t} /\ panel' = panel /\ execs' = execs /\ asked' = asked
          /\ approved' = approved
          BY <1>4 DEF ChatEnds
    <2> QED BY <1>1, <1>3, <2>1, Lands
  <1>5. CASE ~Superseded(t)
    <2>1. /\ t.gen = panel.generation /\ panel.stream = t.gen /\ panel.finish = NoFinish
          /\ t.gen \in Nat \ {0} /\ panel.stream # 0
      <3>1. t \in [gen : 1..panel.generation, for : {"chat", "summary"}, cancelled : BOOLEAN]
            BY <1>1 DEF Pumped
      <3> QED BY <1>1, <1>2, <1>5, <3>1 DEF Superseded, Pumped
    <2>2. \A u \in pumps \ {t} : ~(u.for = "chat" /\ u.gen = panel.generation)
          BY <1>1, <2>1 DEF Pumped
    <2>3. PICK o \in Replies \cup Broken("err") \cup (IF t.cancelled THEN Broken("cancelled") ELSE {}) :
              \/ Leaves(finalize_turn(panel, t.gen, o), pumps \ {t}) /\ Committed(o)
              \/ /\ o.end # "cancelled" /\ ~o.blank
                 /\ panel' = [panel EXCEPT !.finish = [gen |-> t.gen, outcome |-> o]]
                 /\ pumps' = pumps \ {t} /\ UNCHANGED <<execs, asked, approved>>
          BY <1>5 DEF ChatEnds
    <2>4. o \in Outcomes /\ Numbered(o.calls, asked)
      <3>1. o \in Replies \cup Broken("err") \cup Broken("cancelled")
            BY <2>3
      <3> QED BY <3>1, OutcomeOK
    <2>5. CASE Leaves(finalize_turn(panel, t.gen, o), pumps \ {t}) /\ Committed(o)
          BY <1>1, <1>3, <2>1, <2>2, <2>4, <2>5, CommitKeeps
    <2>6. CASE /\ panel' = [panel EXCEPT !.finish = [gen |-> t.gen, outcome |-> o]]
               /\ pumps' = pumps \ {t} /\ UNCHANGED <<execs, asked, approved>>
      <3> DEFINE f == [gen |-> t.gen, outcome |-> o]
                 q == [panel EXCEPT !.finish = f]
      <3>1. f \in [gen : Nat \ {0}, outcome : Outcomes] /\ f.gen = t.gen /\ f.outcome = o
            BY <2>1, <2>4
      <3>2. panel' = q
            BY <2>6
      <3> HIDE DEF f
      <3>3. /\ q \in PanelType /\ q.messages = panel.messages /\ q.stream = panel.stream
            /\ q.generation = panel.generation /\ q.compaction = panel.compaction
            /\ q.queue = panel.queue /\ q.finish = f
            BY <1>2, <3>1 DEF PanelType
      <3> HIDE DEF q
      <3>4. PanelOK(q)
            BY <1>1, <2>1, <3>1, <3>3 DEF PanelOK
      <3>5. Pumped(pumps \ {t}, q)
            BY <1>3, <2>2, <3>3 DEF Pumped
      <3>6. /\ Known(q, asked) /\ Held(q, asked)
            /\ ~around.compacts => Kept(q, execs, approved)
            BY <1>1, <2>4, <3>1, <3>3, SameCards DEF Held
      <3>7. Steady => InTurn(q, typed) /\ QueueWaits(q)
            BY <1>1, <2>1, <3>3 DEF InTurn, QueueWaits, is_busy
      <3> QED BY <1>1, <2>6, <3>2, <3>4, <3>5, <3>6, <3>7, Lands
    <2> QED BY <2>3, <2>5, <2>6
  <1> QED BY <1>4, <1>5

LEMMA RevealKeeps ==
  ASSUME AInv, RevealDrained, UNCHANGED around
  PROVE  AInv'
  <1> DEFINE f == panel.finish
             p == [panel EXCEPT !.finish = NoFinish]
  <1>1. /\ PanelOK(panel) /\ Pumped(pumps, panel) /\ Held(panel, asked)
        /\ panel.finish # NoFinish /\ typed' = typed /\ provider' = provider
        BY DEF AInv, RevealDrained
  <1>2. panel \in PanelType /\ panel.generation \in Nat
        BY <1>1, Fields DEF PanelOK
  <1>3. f \in [gen : Nat \ {0}, outcome : Outcomes]
        BY <1>1, <1>2 DEF PanelType
  <1>4. f.gen = panel.generation /\ panel.stream # 0 /\ f.outcome \in Outcomes
        BY <1>1, <1>3 DEF PanelOK
  <1>5. Leaves(finalize_turn(p, f.gen, f.outcome), pumps) /\ Committed(f.outcome)
        BY <1>4 DEF RevealDrained
  <1>6. /\ p \in PanelType /\ p.messages = panel.messages /\ p.stream = panel.stream
        /\ p.generation = panel.generation /\ p.compaction = panel.compaction
        /\ p.queue = panel.queue /\ p.finish = NoFinish
        BY <1>2 DEF PanelType
  <1> HIDE DEF p, f
  <1>7. PanelOK(p)
        BY <1>1, <1>6 DEF PanelOK
  <1>8. \A t \in pumps : ~(t.for = "chat" /\ t.gen = panel.generation)
        BY <1>1 DEF Pumped
  <1>9. Numbered(f.outcome.calls, asked)
        BY <1>1 DEF Held, f
  <1> QED BY <1>1, <1>4, <1>5, <1>6, <1>7, <1>8, <1>9, CommitKeeps

-----------------------------------------------------------------------------
(* A compaction ends.                                                      *)

\* The summary, then what was left verbatim.
AfterCut(m, cut) == <<Turn("Summary", 0, 0, <<>>)>> \o SubSeq(m, cut + 1, Len(m))

LEMMA SummaryFirst ==
  ASSUME NEW m \in Seq(Message), NEW cut \in Nat, cut + 1 \in DOMAIN m
  PROVE  /\ AfterCut(m, cut) \in Seq(Message)
         /\ DOMAIN AfterCut(m, cut) = 1..(Len(m) - cut + 1) /\ Len(m) - cut >= 1
         /\ AfterCut(m, cut)[1] = Turn("Summary", 0, 0, <<>>)
         /\ \A i \in DOMAIN AfterCut(m, cut) : i # 1 =>
              i + cut - 1 \in DOMAIN m /\ AfterCut(m, cut)[i] = m[i + cut - 1]
  <1> DEFINE r == AfterCut(m, cut)
             len == Len(m)
             h == cut + 1
             t == Turn("Summary", 0, 0, <<>>)
             b == SubSeq(m, h, len)
             a == <<t>>
  <1>1. /\ len \in Nat /\ DOMAIN m = 1..len /\ h \in 1..len /\ h = cut + 1
        /\ \A k \in 1..len : m[k] \in Message
        OBVIOUS
  <1>2. t \in Message
    <2>1. <<>> \in Calls
          BY PanelAssumption DEF Calls
    <2> QED BY <2>1 DEF Message, Turn
  <1>3. a \in Seq(Message) /\ Len(a) = 1 /\ a[1] = t
    <2> HIDE DEF t
    <2> QED BY <1>2
  <1>4. r = a \o b
        BY DEF AfterCut
  <1> HIDE DEF h, len, t, a, r
  <1>5. h \in 1..(len + 1) /\ len \in (h - 1)..len
        BY <1>1
  <1>6. /\ b \in Seq(Message) /\ Len(b) = len - h + 1
        /\ \A k \in 1..(len - h + 1) : b[k] = m[h + k - 1]
        BY <1>1, <1>5, Part
  <1> HIDE DEF b
  <1>7. /\ r \in Seq(Message) /\ Len(r) = Len(a) + Len(b)
        /\ \A k \in 1..(Len(a) + Len(b)) : r[k] = IF k <= Len(a) THEN a[k] ELSE b[k - Len(a)]
    <2>1. /\ a \o b \in Seq(Message) /\ Len(a \o b) = Len(a) + Len(b)
          /\ \A k \in 1..(Len(a) + Len(b)) : (a \o b)[k] = IF k <= Len(a) THEN a[k] ELSE b[k - Len(a)]
          BY <1>3, <1>6, ConcatProperties
    <2> QED BY <1>4, <2>1
  <1> DEFINE n == len - cut
  <1>8. Len(r) = n + 1 /\ n >= 1 /\ n \in Nat /\ len - h + 1 = n
        BY <1>1, <1>3, <1>6, <1>7
  <1>9. DOMAIN r = 1..(n + 1)
        BY <1>7, <1>8
  <1>10. r[1] = t
    <2>1. 1 \in 1..(Len(a) + Len(b)) /\ 1 <= Len(a)
          BY <1>3, <1>6, <1>8
    <2> QED BY <1>3, <1>7, <2>1
  <1>11. ASSUME NEW i \in 1..(n + 1), i # 1
         PROVE  i + cut - 1 \in DOMAIN m /\ r[i] = m[i + cut - 1]
    <2>1. i + cut - 1 \in 1..len /\ i - 1 \in 1..n /\ h + (i - 1) - 1 = i + cut - 1 /\ ~(i <= 1)
          BY <1>1, <1>8, <1>11
    <2>2. i \in 1..(Len(a) + Len(b)) /\ ~(i <= Len(a)) /\ i - Len(a) = i - 1
          BY <1>3, <1>6, <1>8, <2>1
    <2>3. r[i] = b[i - 1]
          BY <1>7, <2>2
    <2>4. b[i - 1] = m[h + (i - 1) - 1]
          BY <1>6, <1>8, <2>1
    <2> QED BY <1>1, <2>1, <2>3, <2>4
  <1> QED BY <1>7, <1>8, <1>9, <1>10, <1>11 DEF n, len, t, r

LEMMA SummaryKnown ==
  ASSUME NEW p, p.messages \in Seq(Message), NEW cut \in Nat, cut # 0, cut + 1 \in DOMAIN p.messages,
         NEW q, q.messages = AfterCut(p.messages, cut), NEW n, Known(p, n)
  PROVE  Known(q, n)
  <1> DEFINE m == p.messages
             r == q.messages
  <1>1. /\ r \in Seq(Message) /\ r[1] = Turn("Summary", 0, 0, <<>>)
        /\ \A i \in DOMAIN r : i # 1 => i + cut - 1 \in DOMAIN m /\ r[i] = m[i + cut - 1]
        BY SummaryFirst
  <1> SUFFICES ASSUME NEW at \in Cards(q) PROVE Card(q, at).id \in 1..n
      BY DEF Known
  <1>2. PICK i \in DOMAIN r : \E j \in DOMAIN r[i].calls : at = <<i, j>>
        BY <1>1, CardPairs
  <1>3. PICK j \in DOMAIN r[i].calls : at = <<i, j>>
        BY <1>2
  <1>4. i # 1
        BY <1>1, <1>3 DEF Turn
  <1> DEFINE k == i + cut - 1
  <1>5. k \in DOMAIN m /\ j \in DOMAIN m[k].calls /\ Card(q, at) = m[k].calls[j]
        BY <1>1, <1>3, <1>4 DEF Card
  <1> HIDE DEF k
  <1>6. <<k, j>> \in Cards(p) /\ Card(p, <<k, j>>) = m[k].calls[j]
        BY <1>5, CardOf
  <1> QED BY <1>5, <1>6 DEF Known

LEMMA SummaryOK ==
  ASSUME NEW p, PanelOK(p), p.compaction # 0, NEW q, q = [apply_summary(p) EXCEPT !.compaction = 0]
  PROVE  /\ PanelOK(q) /\ Answered(q.messages) /\ q.stream = 0 /\ q.compaction = 0
         /\ q.generation = p.generation /\ q.finish = NoFinish
         /\ \A n : Known(p, n) => Known(q, n)
  <1> DEFINE m == p.messages
             cut == p.compaction
             t == Turn("Summary", 0, 0, <<>>)
             r == AfterCut(m, cut)
             len == Len(m)
  <1>1. /\ p \in PanelType /\ m \in Seq(Message) /\ cut \in Nat /\ cut # 0 /\ cut + 1 \in DOMAIN m
        /\ m[cut + 1].role = "User" /\ Dated(m, p.generation) /\ Summarised(m) /\ Answered(m)
        /\ p.generation \in Nat /\ p.stream = 0 /\ p.finish = NoFinish
        BY Fields DEF PanelOK
  <1>2. /\ q.messages = r /\ q.stream = p.stream /\ q.generation = p.generation
        /\ q.compaction = 0 /\ q.finish = p.finish /\ q.queue = p.queue
    <2>1. q = [[p EXCEPT !.messages = r] EXCEPT !.compaction = 0]
          BY <1>1 DEF apply_summary, AfterCut, PanelType
    <2> HIDE DEF r
    <2> QED BY <1>1, <2>1 DEF PanelType
  <1>3. /\ r \in Seq(Message) /\ DOMAIN r = 1..(len - cut + 1) /\ len - cut >= 1 /\ r[1] = t
        /\ \A i \in DOMAIN r : i # 1 => i + cut - 1 \in DOMAIN m /\ r[i] = m[i + cut - 1]
        BY <1>1, SummaryFirst
  <1> HIDE DEF r
  <1>4. q \in PanelType
    <2>1. q = [[p EXCEPT !.messages = r] EXCEPT !.compaction = 0]
          BY <1>1 DEF apply_summary, AfterCut, PanelType, r
    <2> QED BY <1>1, <1>3, <2>1 DEF PanelType
  <1>5. t.role = "Summary" /\ t.gen = 0 /\ t.calls = <<>>
        BY DEF Turn
  <1> HIDE DEF t
  <1>6. len \in Nat /\ DOMAIN m = 1..len /\ DOMAIN r \subseteq Nat \ {0}
        BY <1>1, <1>3
  <1> HIDE DEF len
  <1>7. Answered(r)
    <2> SUFFICES ASSUME NEW i \in DOMAIN r, NEW j \in DOMAIN r[i].calls
                 PROVE  r[i].calls[j].result # "none"
        BY DEF Answered
    <2>1. i # 1
          BY <1>3, <1>5
    <2> QED BY <1>1, <1>3, <2>1 DEF Answered
  <1>8. \A i \in DOMAIN m : m[i].gen \in Nat
    <2>1. \A i \in DOMAIN m : m[i] \in Message
          BY <1>1
    <2> QED BY <2>1 DEF Message
  <1>9. Dated(r, p.generation)
    <2>1. ASSUME NEW i \in DOMAIN r PROVE r[i].gen <= p.generation
      <3>1. CASE i = 1
            BY <1>1, <1>3, <1>5, <3>1
      <3>2. CASE i # 1
            BY <1>1, <1>3, <3>2 DEF Dated
      <3> QED BY <3>1, <3>2
    <2>2. ASSUME NEW i \in DOMAIN r, NEW j \in DOMAIN r, i < j PROVE r[i].gen <= r[j].gen
      <3>1. j # 1 /\ j + cut - 1 \in DOMAIN m /\ r[j] = m[j + cut - 1]
        <4>1. j # 1
              BY <1>3, <2>2
        <4> QED BY <1>3, <4>1
      <3>2. CASE i = 1
            BY <1>3, <1>5, <1>8, <3>1, <3>2
      <3>3. CASE i # 1
        <4>1. i + cut - 1 \in DOMAIN m /\ r[i] = m[i + cut - 1] /\ i + cut - 1 < j + cut - 1
              BY <1>1, <1>3, <1>6, <2>2, <3>3
        <4> QED BY <1>1, <3>1, <4>1 DEF Dated
      <3> QED BY <3>2, <3>3
    <2> QED BY <2>1, <2>2 DEF Dated
  <1>10. Summarised(r)
    <2> SUFFICES ASSUME NEW i \in DOMAIN r, r[i].role = "Summary"
                 PROVE  i = 1 /\ Len(r) >= 2 /\ r[2].role = "User"
        BY DEF Summarised
    <2>1. i = 1
      <3> SUFFICES ASSUME i # 1 PROVE FALSE
          OBVIOUS
      <3>1. i + cut - 1 \in DOMAIN m /\ m[i + cut - 1].role = "Summary"
            BY <1>3
      <3>2. i + cut - 1 = 1
            BY <1>1, <3>1 DEF Summarised
      <3>3. i \in Nat \ {0} /\ cut \in Nat \ {0}
            BY <1>1, <1>6
      <3> QED BY <3>2, <3>3
    <2>2. 2 \in DOMAIN r /\ Len(r) = len - cut + 1
          BY <1>1, <1>3, <1>6
    <2>a. 2 + cut - 1 = cut + 1
          BY <1>1
    <2>b. r[2] = m[2 + cut - 1]
          BY <1>3, <2>2
    <2>3. r[2] = m[2 + cut - 1] /\ 2 + cut - 1 = cut + 1
          BY <2>a, <2>b
    <2>4. Len(r) >= 2
          BY <1>1, <1>3, <1>6, <2>2
    <2> QED BY <1>1, <2>1, <2>3, <2>4
  <1>11. PanelOK(q)
        BY <1>1, <1>2, <1>4, <1>9, <1>10 DEF PanelOK
  <1>12. \A n : Known(p, n) => Known(q, n)
        BY <1>1, <1>2, SummaryKnown DEF r
  <1> QED BY <1>1, <1>2, <1>7, <1>11, <1>12

LEMMA SummaryEndsKeeps ==
  ASSUME AInv, NEW t, SummaryEnds(t), UNCHANGED around
  PROVE  AInv'
  <1>1. /\ PanelOK(panel) /\ Pumped(pumps, panel) /\ Known(panel, asked) /\ Held(panel, asked)
        /\ typed \in Nat /\ asked \in Nat /\ provider \in around.configured
        /\ t \in pumps /\ typed' = typed /\ provider' = provider /\ execs' = execs
        /\ asked' = asked /\ approved' = approved
        /\ ~around.compacts => Kept(panel, execs, approved)
        /\ Steady => InTurn(panel, typed) /\ QueueWaits(panel)
        BY DEF AInv, SummaryEnds
  <1>2. panel \in PanelType /\ panel.generation \in Nat /\ panel.messages \in Seq(Message)
        BY <1>1, Fields DEF PanelOK
  <1>3. Pumped(pumps \ {t}, panel)
        BY <1>1, Rest
  <1>4. CASE Superseded(t) \/ panel.compaction = 0
    <2>1. pumps' = pumps \ {t} /\ panel' = panel
          BY <1>4 DEF SummaryEnds
    <2> QED BY <1>1, <1>3, <2>1, Lands
  <1>5. CASE ~(Superseded(t) \/ panel.compaction = 0)
    <2> DEFINE idle == [panel EXCEPT !.compaction = 0]
               s == [apply_summary(panel) EXCEPT !.compaction = 0]
    <2>1. PICK o \in {"summary", "failed", "cancelled"} :
            Leaves(finish_compaction(panel, o), pumps \ {t})
          BY <1>5 DEF SummaryEnds
    <2>2. /\ panel.compaction # 0 /\ around.compacts /\ panel.stream = 0 /\ panel.finish = NoFinish
          /\ Answered(panel.messages)
          BY <1>1, <1>5 DEF PanelOK
    <2>3. /\ idle \in PanelType /\ idle.messages = panel.messages /\ idle.stream = 0
          /\ idle.generation = panel.generation /\ idle.compaction = 0 /\ idle.finish = NoFinish
          BY <1>2, <2>2 DEF PanelType
    <2> HIDE DEF idle
    <2>4. PanelOK(idle)
          BY <1>1, <2>3 DEF PanelOK
    <2>5. /\ PanelOK(s) /\ Answered(s.messages) /\ s.stream = 0 /\ s.compaction = 0
          /\ s.generation = panel.generation /\ s.finish = NoFinish /\ Known(s, asked)
          BY <1>1, <2>2, SummaryOK
    <2> HIDE DEF s
    <2>6. ASSUME NEW p, PanelOK(p), Answered(p.messages), p.stream = 0, p.compaction = 0,
                 p.generation = panel.generation, Known(p, asked), p.finish = NoFinish,
                 NEW q, q = p \/ q \in start_turn(p)
          PROVE  Onward(q, pumps \ {t}) /\ PanelOK(q) /\ Known(q, asked) /\ q.finish = NoFinish
      <3>1. CASE q = p
            BY <1>2, <2>2, <2>6, <3>1 DEF Onward
      <3>2. CASE q \in start_turn(p)
        <4>1. p = [p EXCEPT !.compaction = 0]
              BY <2>6 DEF PanelOK, PanelType
        <4>2. q \in start_turn([p EXCEPT !.compaction = 0])
              BY <3>2, <4>1
        <4>3. PanelOK(q) /\ q.messages = p.messages /\ Moves(p, q) /\ q.finish = NoFinish
              BY <2>6, <4>2, Starts
        <4>4. Known(q, asked)
              BY <2>6, <4>3, SameCards
        <4>5. Onward(q, pumps \ {t})
              BY <1>2, <2>2, <2>6, <4>3 DEF Moves, Onward
        <4> QED BY <4>3, <4>4, <4>5
      <3> QED BY <2>6, <3>1, <3>2
    <2>7. Known(idle, asked)
          BY <1>1, <2>3, SameCards
    <2>8. ASSUME NEW q \in finish_compaction(panel, o)
          PROVE  q \in {idle, s} \/ q \in start_turn(idle) \/ q \in start_turn(s)
          BY DEF finish_compaction, idle, s
    <2>9. ASSUME NEW q \in finish_compaction(panel, o)
          PROVE  Onward(q, pumps \ {t}) /\ PanelOK(q) /\ Known(q, asked) /\ q.finish = NoFinish
          BY <2>2, <2>3, <2>4, <2>5, <2>6, <2>7, <2>8
    <2>10. PICK q \in finish_compaction(panel, o) : panel' = q /\ Pumped(pumps', q)
          BY <1>1, <1>3, <2>1, <2>9, Left
    <2>11. ~Steady
          BY <2>2 DEF Steady
    <2> QED BY <1>1, <2>2, <2>9, <2>10, <2>11, Lands DEF Held
  <1> QED BY <1>4, <1>5

-----------------------------------------------------------------------------
(* Tool calls.                                                             *)

Runs(p) == [call : Nat, st : {"live", "stopping", "late"}, at : Cards(p)]

\* One card changes, and with it the runs that are its own.
LEMMA CardKept ==
  ASSUME NEW p \in PanelType, NEW at \in Cards(p), NEW c \in ToolCall, c.id = Card(p, at).id,
         NEW xs, NEW al, Kept(p, xs, al), NEW bl, al \subseteq bl, NEW ys,
         c.decision = "Allowed" => c.id \in bl, c.result # "foreign",
         \A y \in ys :
            \/ y \in xs /\ y.at # at
            \/ /\ y \in Runs(p) /\ y.at = at /\ y.call = c.id /\ y.call \in bl
               /\ c.decision # "Pending" /\ (c.running \/ c.cancelled)
               /\ y.st = "late" => c.cancelled,
         \A x, y \in ys : x.at = y.at => x = y
  PROVE  Kept(Put(p, at, c), ys, bl)
  <1> DEFINE q == Put(p, at, c)
  <1>1. /\ Cards(q) = Cards(p) /\ Card(q, at) = c
        /\ \A bt \in Cards(p) : bt # at => Card(q, bt) = Card(p, bt)
        BY CardSet
  <1> HIDE DEF q
  <1>2. CardsTrue(p, al) /\ \A x \in xs : OwnCard(p, x, al)
        BY DEF Kept
  <1>3. \A bt \in Cards(p) : Card(q, bt).id = Card(p, bt).id
        BY <1>1
  <1>4. CardsTrue(q, bl)
    <2>1. \A bt, ct \in Cards(q) : Card(q, bt).id = Card(q, ct).id => bt = ct
          BY <1>1, <1>2, <1>3 DEF CardsTrue
    <2>2. \A bt \in Cards(q) : /\ Card(q, bt).decision = "Allowed" => Card(q, bt).id \in bl
                               /\ Card(q, bt).result # "foreign"
          BY <1>1, <1>2 DEF CardsTrue
    <2> QED BY <2>1, <2>2 DEF CardsTrue
  <1>5. ASSUME NEW y \in ys PROVE OwnCard(q, y, bl)
    <2>1. CASE y \in xs /\ y.at # at
      <3>1. OwnCard(p, y, al)
            BY <1>2, <2>1
      <3>2. y \in Runs(p) /\ y.at \in Cards(p)
            BY <3>1 DEF OwnCard, Runs
      <3>3. Card(q, y.at) = Card(p, y.at)
            BY <1>1, <2>1, <3>2
      <3> QED BY <1>1, <3>1, <3>2, <3>3 DEF OwnCard, Runs
    <2>2. CASE ~(y \in xs /\ y.at # at)
      <3>1. /\ y \in Runs(p) /\ y.at = at /\ y.call = c.id /\ y.call \in bl
            /\ c.decision # "Pending" /\ (c.running \/ c.cancelled)
            /\ y.st = "late" => c.cancelled
            BY <2>2
      <3> QED BY <1>1, <3>1 DEF OwnCard, Runs
    <2> QED BY <2>1, <2>2
  <1> QED BY <1>4, <1>5 DEF Kept, q

\* A card settles, and the loop goes on when it was the last.
LEMMA Settles ==
  ASSUME AInv, NEW at \in Cards(panel), NEW c \in ToolCall, c.result # "none",
         c.id = Card(panel, at).id, Settle(at, c),
         UNCHANGED <<around, typed, asked, provider>>,
         ~around.compacts => Kept(Put(panel, at, c), execs', approved')
  PROVE  AInv'
  <1> DEFINE p == Put(panel, at, c)
  <1>1. /\ PanelOK(panel) /\ Pumped(pumps, panel) /\ Known(panel, asked) /\ Held(panel, asked)
        /\ typed \in Nat /\ asked \in Nat /\ provider \in around.configured
        /\ typed' = typed /\ provider' = provider /\ asked' = asked
        /\ Steady => InTurn(panel, typed)
        BY DEF AInv
  <1>2. panel \in PanelType /\ panel.generation \in Nat /\ panel.messages \in Seq(Message)
        BY <1>1, Fields DEF PanelOK
  <1>3. /\ p \in PanelType /\ OnlyMessages(panel, p) /\ Recalled(panel.messages, p.messages)
        /\ Cards(p) = Cards(panel) /\ Card(p, at) = c
        /\ \A bt \in Cards(panel) : bt # at => Card(p, bt) = Card(panel, bt)
        BY <1>2, CardSet
  <1>4. PanelOK(p)
        BY <1>1, CardSetOK
  <1>5. Leaves(maybe_continue_after_tools(p), pumps)
        BY DEF Settle, Put
  <1> HIDE DEF p
  <1>6. Known(p, asked)
        BY <1>1, <1>3 DEF Known
  <1>7. ASSUME NEW q \in maybe_continue_after_tools(p)
        PROVE  /\ PanelOK(q) /\ q.messages = p.messages /\ q.queue = p.queue /\ Moves(p, q)
               /\ provider /\ ~around.compacts => q.stream # 0 \/ ~Answered(q.messages)
               /\ Onward(q, pumps)
    <2>1. /\ PanelOK(q) /\ q.messages = p.messages /\ q.queue = p.queue /\ Moves(p, q)
          /\ provider /\ ~around.compacts => q.stream # 0 \/ ~Answered(q.messages)
          BY <1>4, MayContinue
    <2>2. Onward(q, pumps)
          BY <1>3, <2>1 DEF Moves, Onward, OnlyMessages
    <2> QED BY <2>1, <2>2
  <1>8. PICK q \in maybe_continue_after_tools(p) : panel' = q /\ Pumped(pumps', q)
        BY <1>1, <1>5, <1>7, Left
  <1>9. Known(q, asked) /\ (~around.compacts => Kept(q, execs', approved'))
        BY <1>6, <1>7, SameCards DEF p
  <1>10. Held(q, asked)
        BY <1>1, <1>3, <1>7 DEF Held, Moves, OnlyMessages
  <1>11. ASSUME Steady PROVE InTurn(q, typed) /\ QueueWaits(q)
    <2>1. InTurn(q, typed)
      <3>1. q.queue = panel.queue /\ Recalled(panel.messages, q.messages)
            BY <1>3, <1>7 DEF OnlyMessages
      <3>2. InTurn(panel, typed)
            BY <1>1, <1>11
      <3> QED BY <3>1, <3>2 DEF InTurn, Recalled
    <2>2. q.messages \in Seq(Message)
          BY <1>7, Fields DEF PanelOK
    <2>3. q.stream # 0 \/ ~Answered(q.messages)
          BY <1>7, <1>11, SteadyMeans DEF Steadily
    <2>4. is_busy(q)
          BY <2>2, <2>3, IdleMeans
    <2> QED BY <2>1, <2>4 DEF QueueWaits
  <1> QED BY <1>1, <1>7, <1>8, <1>9, <1>10, <1>11, Lands

\* A card that waits for a click has no run.
LEMMA NoRunYet ==
  ASSUME NEW p, NEW xs, NEW al, Kept(p, xs, al), NEW at, Card(p, at).decision = "Pending"
  PROVE  \A x \in xs : x.at # at
  BY DEF Kept, OwnCard

LEMMA DenyKeeps ==
  ASSUME AInv, NEW at \in Cards(panel), Deny(at), UNCHANGED around
  PROVE  AInv'
  <1> DEFINE c0 == Card(panel, at)
             c == [c0 EXCEPT !.decision = "Denied", !.result = "note"]
  <1>1. /\ c0.decision = "Pending" /\ Settle(at, c)
        /\ UNCHANGED <<execs, typed, asked, approved, provider>>
        BY DEF Deny
  <1>2. panel \in PanelType /\ panel.messages \in Seq(Message)
        BY Fields DEF AInv, PanelOK
  <1>3. c0 \in ToolCall
        BY <1>2, CardTyped
  <1>4. c \in ToolCall /\ c.id = c0.id /\ c.result = "note" /\ c.decision = "Denied"
        BY <1>1, <1>3 DEF ToolCall
  <1> HIDE DEF c
  <1>5. ASSUME ~around.compacts PROVE Kept(Put(panel, at, c), execs', approved')
    <2>1. Kept(panel, execs, approved)
          BY <1>5 DEF AInv
    <2>2. \A x \in execs : x.at # at
          BY <1>1, <2>1, NoRunYet
    <2>3. \A x, y \in execs : x.at = y.at => x = y
          BY <2>1 DEF Kept
    <2>4. Kept(Put(panel, at, c), execs, approved)
          BY <1>2, <1>4, <2>1, <2>2, <2>3, CardKept
    <2> QED BY <1>1, <2>4
  <1> QED BY <1>1, <1>4, <1>5, Settles

LEMMA AllowKeeps ==
  ASSUME AInv, NEW at \in Cards(panel), Allow(at), UNCHANGED around
  PROVE  AInv'
  <1> DEFINE c0 == Card(panel, at)
             al == approved \cup {c0.id}
  <1>1. c0.decision = "Pending" /\ approved' = al /\ UNCHANGED <<typed, asked, provider>>
        BY DEF Allow
  <1>2. /\ panel \in PanelType /\ panel.messages \in Seq(Message) /\ PanelOK(panel)
        /\ ~around.compacts => Kept(panel, execs, approved)
        BY Fields DEF AInv, PanelOK
  <1>3. c0 \in ToolCall /\ ~c0.running /\ c0.result = "none"
        BY <1>1, <1>2, CardTyped DEF ToolCall
  <1>4. ~around.compacts => (\A x \in execs : x.at # at) /\ \A x, y \in execs : x.at = y.at => x = y
    <2>1. ~around.compacts => \A x \in execs : x.at # at
          BY <1>1, <1>2, NoRunYet
    <2> QED BY <1>2, <2>1 DEF Kept
  <1>5. ASSUME NEW d \in {"Allowed", "Denied"}, NEW r \in {"own", "note"},
               Settle(at, [c0 EXCEPT !.decision = d, !.result = r]), execs' = execs
        PROVE  AInv'
    <2> DEFINE c == [c0 EXCEPT !.decision = d, !.result = r]
    <2>1. c \in ToolCall /\ c.id = c0.id /\ c.result = r
          BY <1>3, <1>5 DEF ToolCall
    <2>2. Settle(at, c)
          BY <1>5
    <2> HIDE DEF c
    <2>3. ASSUME ~around.compacts PROVE Kept(Put(panel, at, c), execs', approved')
      <3>1. Kept(panel, execs, approved)
            BY <1>2, <2>3
      <3>2. approved \subseteq al /\ c.id \in al
            BY <2>1
      <3> HIDE DEF al
      <3>3. Kept(Put(panel, at, c), execs, al)
            BY <1>2, <1>4, <2>1, <2>3, <3>1, <3>2, CardKept
      <3> QED BY <1>1, <1>5, <3>3
    <2> QED BY <1>1, <2>1, <2>2, <2>3, Settles
  <1>6. ASSUME panel' = Put(panel, at, [c0 EXCEPT !.decision = "Allowed", !.running = TRUE]),
               execs' = execs \cup {[call |-> c0.id, st |-> "live", at |-> at]}, pumps' = pumps
        PROVE  AInv'
    <2> DEFINE c == [c0 EXCEPT !.decision = "Allowed", !.running = TRUE]
               x0 == [call |-> c0.id, st |-> "live", at |-> at]
               q == Put(panel, at, c)
    <2>1. /\ c \in ToolCall /\ c.id = c0.id /\ c.result = "none" /\ c.decision = "Allowed" /\ c.running
          BY <1>3 DEF ToolCall
    <2>2. panel' = q
          BY <1>6
    <2> HIDE DEF c
    <2>3. /\ q \in PanelType /\ OnlyMessages(panel, q) /\ Recalled(panel.messages, q.messages)
          /\ Cards(q) = Cards(panel) /\ Card(q, at) = c
          /\ \A bt \in Cards(panel) : bt # at => Card(q, bt) = Card(panel, bt)
          BY <1>2, <2>1, CardSet
    <2>4. PanelOK(q)
          BY <1>2, <1>3, <2>1, CardSetOK
    <2>5. ASSUME ~around.compacts PROVE Kept(q, execs', approved')
      <3>1. Kept(panel, execs, approved)
            BY <1>2, <2>5
      <3>2. /\ x0 \in Runs(panel) /\ x0.at = at /\ x0.call = c.id /\ x0.st = "live" /\ c.id \in al
            /\ approved \subseteq al
            BY <1>3, <2>1 DEF Runs, ToolCall
      <3> DEFINE ys == execs \cup {x0}
      <3>3. \A y \in ys : (y \in execs /\ y.at # at) \/ y = x0
            BY <1>4, <2>5
      <3>4. \A x, y \in ys : x.at = y.at => x = y
            BY <1>4, <2>5, <3>2, <3>3
      <3> HIDE DEF al, x0, ys, q
      <3>5. \A y \in ys :
              \/ y \in execs /\ y.at # at
              \/ /\ y \in Runs(panel) /\ y.at = at /\ y.call = c.id /\ y.call \in al
                 /\ c.decision # "Pending" /\ (c.running \/ c.cancelled)
                 /\ y.st = "late" => c.cancelled
            BY <2>1, <3>2, <3>3
      <3>6. Kept(Put(panel, at, c), ys, al)
            BY <1>2, <2>1, <3>1, <3>2, <3>4, <3>5, CardKept
      <3> QED BY <1>1, <1>6, <3>6 DEF ys, x0, q
    <2> HIDE DEF q
    <2>6. Known(q, asked) /\ Held(q, asked) /\ Pumped(pumps, q)
          BY <2>1, <2>3 DEF AInv, Known, Held, Pumped, OnlyMessages
    <2>7. ASSUME Steady PROVE InTurn(q, typed) /\ QueueWaits(q)
      <3>1. InTurn(q, typed)
            BY <2>3, <2>7 DEF AInv, InTurn, OnlyMessages, Recalled
      <3>2. at \in pending_tool_calls(q)
            BY <2>1, <2>3 DEF pending_tool_calls
      <3> QED BY <3>1, <3>2 DEF QueueWaits, is_busy
    <2>8. typed \in Nat /\ asked \in Nat /\ provider \in around.configured
          BY DEF AInv
    <2> QED BY <1>1, <1>6, <2>2, <2>4, <2>5, <2>6, <2>7, <2>8, Lands
  <1>7. \/ /\ \/ Settle(at, [c0 EXCEPT !.decision = "Denied", !.result = "note"])
              \/ \E r \in {"own", "note"} :
                    Settle(at, [c0 EXCEPT !.decision = "Allowed", !.result = r])
           /\ execs' = execs
        \/ /\ panel' = Put(panel, at, [c0 EXCEPT !.decision = "Allowed", !.running = TRUE])
           /\ execs' = execs \cup {[call |-> c0.id, st |-> "live", at |-> at]} /\ pumps' = pumps
        BY DEF Allow, Put
  <1> HIDE DEF c0
  <1> QED BY <1>5, <1>6, <1>7

\* An outcome arrives: the loop goes on, the card was given up, or it settles.
LEMMA OutcomeKeeps ==
  ASSUME AInv, NEW x, Outcome(x), UNCHANGED around
  PROVE  AInv'
  <1> DEFINE c0 == Card(panel, x.at)
             ys == execs \ {x}
  <1>1. /\ PanelOK(panel) /\ Pumped(pumps, panel) /\ Known(panel, asked) /\ Held(panel, asked)
        /\ typed \in Nat /\ asked \in Nat /\ provider \in around.configured
        /\ x \in execs /\ execs' = ys
        /\ typed' = typed /\ provider' = provider /\ asked' = asked /\ approved' = approved
        /\ ~around.compacts => Kept(panel, execs, approved)
        /\ Steady => InTurn(panel, typed) /\ QueueWaits(panel)
        BY DEF AInv, Outcome
  <1>2. panel \in PanelType /\ panel.generation \in Nat /\ panel.messages \in Seq(Message)
        BY <1>1, Fields DEF PanelOK
  <1>3. ~around.compacts =>
           /\ Kept(panel, ys, approved) /\ x.at \in Cards(panel) /\ \A y \in ys : y.at # x.at
           /\ \A y, z \in ys : y.at = z.at => y = z
    <2> SUFFICES ASSUME ~around.compacts
                 PROVE  /\ Kept(panel, ys, approved) /\ x.at \in Cards(panel)
                        /\ \A y \in ys : y.at # x.at
                        /\ \A y, z \in ys : y.at = z.at => y = z
        OBVIOUS
    <2>1. Kept(panel, execs, approved)
          BY <1>1
    <2>2. Kept(panel, ys, approved) /\ \A y, z \in ys : y.at = z.at => y = z
          BY <2>1 DEF Kept
    <2>3. \A y \in ys : y.at # x.at
          BY <1>1, <2>1 DEF Kept
    <2>4. x.at \in Cards(panel)
          BY <1>1, <2>1 DEF Kept, OwnCard
    <2> QED BY <2>2, <2>3, <2>4
  <1> HIDE DEF ys
  <1>4. CASE x.at \notin Cards(panel)
    <2>1. Leaves(maybe_continue_after_tools(panel), pumps) /\ around.compacts
          BY <1>3, <1>4 DEF Outcome
    <2>2. ASSUME NEW q \in maybe_continue_after_tools(panel)
          PROVE  PanelOK(q) /\ q.messages = panel.messages /\ Moves(panel, q) /\ Onward(q, pumps)
          BY <1>1, MayContinue, MovesOn
    <2>3. PICK q \in maybe_continue_after_tools(panel) : panel' = q /\ Pumped(pumps', q)
          BY <1>1, <2>1, <2>2, Left
    <2>4. Known(q, asked) /\ Held(q, asked) /\ ~Steady
          BY <1>1, <2>1, <2>2, SameCards DEF Held, Moves, Steady
    <2> QED BY <1>1, <2>1, <2>2, <2>3, <2>4, Lands
  <1>5. CASE x.at \in Cards(panel) /\ GivenUp(c0)
    <2>1. panel' = panel /\ pumps' = pumps
          BY <1>5 DEF Outcome
    <2> QED BY <1>1, <1>3, <2>1, Lands
  <1>6. CASE x.at \in Cards(panel) /\ ~GivenUp(c0)
    <2>1. PICK stopped \in {FALSE, x.st = "stopping"} :
            Settle(x.at, [c0 EXCEPT !.result = IF c0.id = x.call THEN "own" ELSE "foreign",
                                    !.cancelled = stopped, !.running = FALSE,
                                    !.decision = IF @ = "Pending" THEN "Allowed" ELSE @])
          BY <1>6 DEF Outcome
    <2> DEFINE r == IF c0.id = x.call THEN "own" ELSE "foreign"
               d == IF c0.decision = "Pending" THEN "Allowed" ELSE c0.decision
               c == [c0 EXCEPT !.result = r, !.cancelled = stopped, !.running = FALSE, !.decision = d]
    <2>2. c0 \in ToolCall
          BY <1>2, <1>6, CardTyped
    <2>3. stopped \in BOOLEAN /\ r \in {"own", "foreign"} /\ (c0.id = x.call => r = "own")
          BY <2>1
    <2>4. /\ d \in {"Allowed", "Denied", "Unavailable"}
          /\ c0.decision # "Pending" => d = c0.decision
          BY <2>2 DEF ToolCall
    <2>5. Settle(x.at, c)
      <3>1. c = [c0 EXCEPT !.result = IF c0.id = x.call THEN "own" ELSE "foreign",
                           !.cancelled = stopped, !.running = FALSE,
                           !.decision = IF @ = "Pending" THEN "Allowed" ELSE @]
            BY <2>2 DEF ToolCall
      <3> HIDE DEF c
      <3> QED BY <2>1, <3>1
    <2> HIDE DEF r, d
    <2>6. c \in ToolCall /\ c.id = c0.id /\ c.result = r /\ c.decision = d /\ c.result # "none"
          BY <2>2, <2>3, <2>4 DEF ToolCall
    <2> HIDE DEF c
    <2>7. ASSUME ~around.compacts PROVE Kept(Put(panel, x.at, c), execs', approved')
      <3>1. Kept(panel, execs, approved)
            BY <1>1, <2>7
      <3>2. OwnCard(panel, x, approved)
            BY <1>1, <3>1 DEF Kept
      <3>3. c.result # "foreign" /\ (c.decision = "Allowed" => c.id \in approved)
            BY <2>3, <2>4, <2>6, <3>2 DEF OwnCard
      <3>4. Kept(Put(panel, x.at, c), ys, approved)
            BY <1>2, <1>3, <1>6, <2>6, <2>7, <3>3, CardKept
      <3> QED BY <1>1, <3>4
    <2> QED BY <1>1, <1>6, <2>5, <2>6, <2>7, Settles
  <1> QED BY <1>4, <1>5, <1>6

\* The stop button of a card: its run is told to stop, or is given up.
LEMMA StopToolCallKeeps ==
  ASSUME AInv, NEW at \in Cards(panel), StopToolCall(at), UNCHANGED around
  PROVE  AInv'
  <1> DEFINE c0 == Card(panel, at)
             Given(st) == {Giving(x, at, st) : x \in execs}
  <1>1. /\ PanelOK(panel) /\ c0.running /\ UNCHANGED <<typed, asked, approved, provider>>
        /\ ~around.compacts => Kept(panel, execs, approved)
        BY DEF AInv, StopToolCall
  <1>2. panel \in PanelType /\ panel.messages \in Seq(Message)
        BY <1>1, Fields DEF PanelOK
  <1>3. c0 \in ToolCall /\ c0.decision = "Allowed"
        BY <1>1, <1>2, CardTyped DEF ToolCall
  <1>4. ASSUME ~around.compacts, NEW st \in {"stopping", "late"}
        PROVE  /\ \A y \in Given(st) :
                    \/ y \in execs /\ y.at # at
                    \/ /\ y \in Runs(panel) /\ y.at = at /\ y.call = c0.id /\ y.call \in approved
                       /\ y.st = st
               /\ \A y, z \in Given(st) : y.at = z.at => y = z
    <2>1. Kept(panel, execs, approved)
          BY <1>1, <1>4
    <2>2. ASSUME NEW x \in execs
          PROVE  /\ Giving(x, at, st).at = x.at
                 /\ x.at # at => Giving(x, at, st) = x
                 /\ x.at = at => /\ Giving(x, at, st) \in Runs(panel)
                                 /\ Giving(x, at, st).call = c0.id /\ c0.id \in approved
                                 /\ Giving(x, at, st).st = st
      <3>1. OwnCard(panel, x, approved)
            BY <2>1 DEF Kept
      <3>2. x \in Runs(panel)
            BY <3>1 DEF OwnCard, Runs
      <3>3. CASE x.at = at
        <4>1. Giving(x, at, st) = [x EXCEPT !.st = st] /\ x.call = c0.id /\ x.call \in approved
              BY <3>1, <3>3 DEF OwnCard, Giving
        <4> QED BY <1>4, <3>2, <3>3, <4>1 DEF Runs
      <3>4. CASE x.at # at
            BY <3>4 DEF Giving
      <3> QED BY <3>3, <3>4
    <2>3. ASSUME NEW y \in Given(st)
          PROVE  \E x \in execs : y = Giving(x, at, st)
          OBVIOUS
    <2> HIDE DEF Given
    <2>4. ASSUME NEW y \in Given(st), NEW z \in Given(st), y.at = z.at PROVE y = z
      <3>1. PICK u \in execs : y = Giving(u, at, st)
            BY <2>3
      <3>2. PICK v \in execs : z = Giving(v, at, st)
            BY <2>3
      <3>3. u.at = v.at
            BY <2>2, <2>4, <3>1, <3>2
      <3>4. u = v
            BY <2>1, <3>3 DEF Kept
      <3> QED BY <3>1, <3>2, <3>4
    <2>5. ASSUME NEW y \in Given(st)
          PROVE  \/ y \in execs /\ y.at # at
                 \/ /\ y \in Runs(panel) /\ y.at = at /\ y.call = c0.id /\ y.call \in approved
                    /\ y.st = st
      <3>1. PICK u \in execs : y = Giving(u, at, st)
            BY <2>3
      <3> QED BY <2>2, <3>1
    <2> QED BY <2>4, <2>5
  <1>5. CASE execs' = Given("stopping") /\ UNCHANGED <<panel, pumps>>
    <2>1. ASSUME ~around.compacts PROVE Kept(panel, execs', approved)
      <3>1. Kept(panel, execs, approved)
            BY <1>1, <2>1
      <3>2. /\ \A y \in execs' :
                    \/ y \in execs /\ y.at # at
                    \/ /\ y \in Runs(panel) /\ y.at = at /\ y.call = c0.id /\ y.call \in approved
                       /\ y.st = "stopping"
            /\ \A y, z \in execs' : y.at = z.at => y = z
            BY <1>4, <1>5, <2>1
      <3>3. ASSUME NEW y \in execs' PROVE OwnCard(panel, y, approved)
        <4>1. CASE y \in execs
              BY <3>1, <4>1 DEF Kept
        <4>2. CASE /\ y \in Runs(panel) /\ y.at = at /\ y.call = c0.id /\ y.call \in approved
                   /\ y.st = "stopping"
              BY <1>1, <1>3, <4>2 DEF OwnCard, Runs
        <4> QED BY <3>2, <4>1, <4>2
      <3> QED BY <3>1, <3>2, <3>3 DEF Kept
    <2> HIDE DEF Given
    <2> QED BY <1>1, <1>5, <2>1, Lands DEF AInv
  <1>6. CASE /\ execs' = Given("late")
             /\ Settle(at, [c0 EXCEPT !.cancelled = TRUE, !.result = "note", !.running = FALSE])
    <2> DEFINE c == [c0 EXCEPT !.cancelled = TRUE, !.result = "note", !.running = FALSE]
    <2>1. /\ c \in ToolCall /\ c.id = c0.id /\ c.result = "note" /\ c.decision = "Allowed"
          /\ c.cancelled
          BY <1>3 DEF ToolCall
    <2>2. Settle(at, c)
          BY <1>6
    <2> HIDE DEF c
    <2>3. ASSUME ~around.compacts PROVE Kept(Put(panel, at, c), execs', approved')
      <3>1. Kept(panel, execs, approved)
            BY <1>1, <2>3
      <3>2. /\ \A y \in execs' :
                    \/ y \in execs /\ y.at # at
                    \/ /\ y \in Runs(panel) /\ y.at = at /\ y.call = c0.id /\ y.call \in approved
                       /\ y.st = "late"
            /\ \A y, z \in execs' : y.at = z.at => y = z
            BY <1>4, <1>6, <2>3
      <3>3. c.id \in approved
            BY <1>3, <2>1, <3>1 DEF Kept, CardsTrue
      <3>4. \A y \in execs' :
              \/ y \in execs /\ y.at # at
              \/ /\ y \in Runs(panel) /\ y.at = at /\ y.call = c.id /\ y.call \in approved
                 /\ c.decision # "Pending" /\ (c.running \/ c.cancelled)
                 /\ y.st = "late" => c.cancelled
            BY <2>1, <3>2
      <3> HIDE DEF Given
      <3> DEFINE ys == execs'
      <3> HIDE DEF ys
      <3>5. Kept(Put(panel, at, c), ys, approved)
            BY <1>2, <2>1, <3>1, <3>2, <3>3, <3>4, CardKept DEF ys
      <3> QED BY <1>1, <3>5 DEF ys
    <2> HIDE DEF Given
    <2> QED BY <1>1, <2>1, <2>2, <2>3, Settles
  <1>7. \/ execs' = Given("stopping") /\ UNCHANGED <<panel, pumps>>
        \/ /\ execs' = Given("late")
           /\ Settle(at, [c0 EXCEPT !.cancelled = TRUE, !.result = "note", !.running = FALSE])
        BY DEF StopToolCall
  <1> HIDE DEF Given, c0
  <1> QED BY <1>5, <1>6, <1>7

-----------------------------------------------------------------------------
(* The invariant holds.                                                    *)

LEMMA AInvStarts ==
  ASSUME Init
  PROVE  AInv
  <1> DEFINE p == [messages |-> <<>>, stream |-> 0, generation |-> 0,
                   compaction |-> 0, finish |-> NoFinish, queue |-> <<>>]
  <1>1. panel = p /\ p \in PanelType
        BY DEF Init, PanelType
  <1>2. /\ p.messages = <<>> /\ p.queue = <<>> /\ p.finish = NoFinish /\ p.stream = 0
        /\ p.compaction = 0 /\ p.generation = 0
        OBVIOUS
  <1> HIDE DEF p
  <1>3. PanelOK(p)
        BY <1>1, <1>2 DEF PanelOK, Dated, Summarised
  <1>4. Cards(p) = {}
    <2>1. p.messages \in Seq(Message)
          BY <1>2
    <2>2. DOMAIN p.messages = {}
          BY <1>2
    <2>3. ASSUME NEW at \in Cards(p) PROVE FALSE
          BY <2>1, <2>2, CardPairs
    <2> QED BY <2>3
  <1> QED BY <1>1, <1>2, <1>3, <1>4
          DEF Init, AInv, Pumped, Known, Held, Kept, CardsTrue, InTurn, QueueWaits

LEMMA AInvKept ==
  ASSUME AInv, Next
  PROVE  AInv'
  <1>1. UNCHANGED around
        BY DEF Next
  <1>2. CASE User
        BY <1>1, <1>2, ReconfigureKeeps, SubmitKeeps, RemoveQueuedKeeps, SendQueuedKeeps, StopKeeps,
           DenyKeeps, AllowKeeps, StopToolCallKeeps DEF User
  <1>3. CASE ModelStep
        BY <1>1, <1>3, ChatEndsKeeps, SummaryEndsKeeps, RevealKeeps DEF ModelStep
  <1>4. CASE ToolStep
        BY <1>1, <1>4, OutcomeKeeps DEF ToolStep
  <1> QED BY <1>2, <1>3, <1>4 DEF Next

LEMMA AInvStill ==
  ASSUME AInv, UNCHANGED vars
  PROVE  AInv'
  <1>1. PanelOK(panel)' /\ (Steady' <=> Steady)
        BY DEF AInv, PanelOK, Steady, vars
  <1> QED BY <1>1 DEF AInv, vars

-----------------------------------------------------------------------------
(* What it means for the conversation.                                     *)

LEMMA HistorySaid ==
  ASSUME AInv
  PROVE  /\ RequestsAnswered /\ TurnsInOrder /\ SummaryOpens
         /\ Steady => SentInOrder /\ IdleQueueEmpty
         /\ ~around.compacts => AllowedByUser /\ OwnResults
  <1>1. /\ PanelOK(panel) /\ Pumped(pumps, panel)
        /\ ~around.compacts => Kept(panel, execs, approved)
        /\ Steady => InTurn(panel, typed) /\ QueueWaits(panel)
        BY DEF AInv
  <1>2. panel.messages \in Seq(Message)
        BY <1>1, Fields DEF PanelOK
  <1>3. RequestsAnswered
    <2> SUFFICES ASSUME panel.stream # 0 \/ panel.compaction # 0
                 PROVE  /\ Unanswered(panel) = {} /\ pending_tool_calls(panel) = {}
                        /\ panel.stream = 0 \/ panel.compaction = 0
                        /\ Cardinality({t \in pumps : t.gen = panel.generation}) <= 1
        BY DEF RequestsAnswered
    <2>1. Answered(panel.messages) /\ (panel.stream = 0 \/ panel.compaction = 0)
          BY <1>1 DEF PanelOK
    <2>2. Unanswered(panel) = {} /\ pending_tool_calls(panel) = {}
          BY <1>2, <2>1, NoneWaits
    <2> DEFINE current == {t \in pumps : t.gen = panel.generation}
    <2>3. \A t, u \in current : t = u
          BY <1>1 DEF Pumped
    <2> HIDE DEF current
    <2>4. current = {} => Cardinality(current) = 0
          BY FS_EmptySet
    <2>5. current # {} => Cardinality(current) = 1
      <3> SUFFICES ASSUME NEW t \in current PROVE Cardinality(current) = 1
          OBVIOUS
      <3>1. current = {t}
            BY <2>3
      <3>2. Cardinality({t}) = 1
            BY FS_Singleton
      <3> QED BY <3>1, <3>2
    <2>6. Cardinality(current) <= 1
      <3>1. Cardinality(current) \in {0, 1}
            BY <2>4, <2>5
      <3> QED BY <3>1
    <2> QED BY <2>1, <2>2, <2>6 DEF current
  <1>4. TurnsInOrder
        BY <1>1 DEF PanelOK, Dated, TurnsInOrder
  <1>5. SummaryOpens
        BY <1>1 DEF PanelOK, Summarised, SummaryOpens
  <1>6. Steady => SentInOrder /\ IdleQueueEmpty
        BY <1>1 DEF InTurn, QueueWaits, SentInOrder, IdleQueueEmpty
  <1>7. ~around.compacts => AllowedByUser /\ OwnResults
        BY <1>1 DEF Kept, CardsTrue, AllowedByUser, OwnResults
  <1> QED BY <1>3, <1>4, <1>5, <1>6, <1>7

\* The late outcome finds a card that was given up.
LEMMA LateChangesNothing ==
  ASSUME AInv, NEW x \in execs, ~around.compacts
  PROVE  LateIgnored(x)
  <1>1. Kept(panel, execs, approved)
        BY DEF AInv
  <1>2. OwnCard(panel, x, approved)
        BY <1>1 DEF Kept
  <1>3. x.at \in Cards(panel) /\ (x.st = "late" => GivenUp(Card(panel, x.at)))
        BY <1>2 DEF OwnCard, GivenUp
  <1> QED BY <1>3 DEF LateIgnored, Outcome

LEMMA AInvAlways == MCSpec => []AInv
  <1>1. MCInit => AInv
        BY AInvStarts DEF MCInit
  <1>2. AInv /\ [MCNext]_<<vars, panesVars, part>> => AInv'
    <2> SUFFICES ASSUME AInv, [MCNext]_<<vars, panesVars, part>> PROVE AInv'
        OBVIOUS
    <2>1. CASE Next
          BY <2>1, AInvKept
    <2>2. CASE UNCHANGED vars
          BY <2>2, AInvStill
    <2> QED BY <2>1, <2>2 DEF MCNext, OfPanes
  <1> QED BY <1>1, <1>2, PTL DEF MCSpec

\* The agent's history (ai.rs): a request goes out only with every call answered and
\* never two at a time, turns are committed in the order they were started, a summary
\* stands first before a message of the user, what was typed leaves the queue in order
\* and all of it, and until a compaction renumbers the cards none is allowed by anything
\* but a click or the settings, or shows what another call came to.
THEOREM HistoryKept == MCSpec => []HistorySound
  <1>1. AInv => HistorySound
        BY HistorySaid DEF HistorySound
  <1> QED BY <1>1, AInvAlways, PTL

\* The outcome of a call that the user stopped waiting for changes no card and starts no
\* turn (finish_tool, ai.rs), as long as no compaction renumbers the cards.
THEOREM LateOutcomeChangesNothing == MCSpec => LateOutcomeIgnored
  <1>1. AInv => \A x \in execs : ~around.compacts => LateIgnored(x)
        BY LateChangesNothing
  <1> QED BY <1>1, AInvAlways, PTL DEF LateOutcomeIgnored
=============================================================================
