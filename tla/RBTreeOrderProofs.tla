------------------------- MODULE RBTreeOrderProofs -------------------------
(***************************************************************************)
(* The order of the keys in the red-black tree, and its walks, for any     *)
(* nodes and keys.                                                         *)
(*                                                                         *)
(* The invariant gives every member a set of keys it may have under it,    *)
(* which the keys of its parent narrow.  Such sets are all that a search,  *)
(* a rotation or an erasure depends on, and no step changes more than a    *)
(* few of them.  They also tell what is under a node, and with it what the *)
(* walks visit.                                                            *)
(***************************************************************************)
EXTENDS RBTreeProofs, FiniteSetTheorems, WellFoundedInduction

\* k is to the side s of j.
Beside(s, k, j) == IF s = "left" THEN k < j ELSE j < k

\* B bounds the keys under the nodes M of the tree m.
Bounds(m, M, B) ==
  /\ B \in [Nodes -> SUBSET Nat]
  /\ \A n \in M : Key[n] \in B[n]
  /\ \A n \in M, s \in Sides :
       m.child[s][n] # NULL =>
         \A k \in B[m.child[s][n]] : k \in B[n] /\ Beside(s, k, Key[n])

Sorted(m, M) == \E B : Bounds(m, M, B)

LEMMA BesideOther ==
  /\ \A s \in Sides, i \in Nat, j \in Nat :
       /\ Beside(Other(s), i, j) <=> Beside(s, j, i)
       /\ ~(Beside(s, i, j) /\ Beside(Other(s), i, j))
       /\ ~Beside(s, i, i)
  /\ \A s \in Sides, i \in Nat, j \in Nat, k \in Nat :
       Beside(s, i, j) /\ Beside(s, j, k) => Beside(s, i, k)
  BY DEF Beside, Sides, Other

LEMMA SamePointersSorted ==
  ASSUME NEW m, NEW r, NEW M, Sorted(m, M), SamePointers(m, r)
  PROVE  Sorted(r, M)
  BY DEF Sorted, Bounds, SamePointers

\* A rotation: the child takes the bounds of n, and n those between.
LEMMA RotateSorted ==
  ASSUME NEW m, NEW M, Good(m, M), NEW s \in Sides, NEW n \in M,
         m.child[Other(s)][n] # NULL, Sorted(m, M)
  PROVE  Sorted(Rotate(m, s, n), M)
<1> DEFINE r == Rotate(m, s, n)
           o == Other(s)
           c == m.child[o][n]
           b == m.child[s][c]
           p == m.parent[n]
<1>1. /\ o \in Sides /\ o # s /\ \A d \in Sides : d = s \/ d = o
      /\ m \in Tree /\ n \in Nodes /\ M \subseteq Nodes /\ NULL \notin M
      /\ c \in M /\ c # NULL /\ c # n /\ c # p /\ c # b /\ b # n /\ p # n
      /\ p # NULL => p # b
      /\ Key \in [Nodes -> Nat]
  BY OtherSide, RotateWrites, Around, ConstantsAssumption
<1>2. \A d \in Sides, x \in Nodes :
        r.child[d][x] = IF x = n /\ d = o THEN b
                        ELSE IF x = c /\ d = s THEN n
                        ELSE IF x = p /\ m.child[d][x] = n THEN c
                        ELSE m.child[d][x]
  BY RotateWrites
<1>3. \A x \in M, d \in Sides :
        m.child[d][x] # NULL => m.child[d][x] \in M /\ m.parent[m.child[d][x]] = x
  BY Around
<1>4. m.parent[n] = p /\ m.parent[c] = n /\ m.child[s][c] = b /\ m.child[o][n] = c
  BY <1>1, <1>3
<1>5. m.child[s][n] # c
  <2>1. Hangs(m, c) BY <1>1, Around
  <2>2. n # NULL /\ m.child[o][n] = c BY <1>1
  <2>3. PICK d \in Sides : m.child[d][n] = c /\ m.child[Other(d)][n] # c
    BY <1>4, <2>1, <2>2 DEF Hangs
  <2> QED BY <1>1, <2>2, <2>3, OtherSide
<1>6. PICK B : Bounds(m, M, B) BY DEF Sorted
<1>7. /\ B \in [Nodes -> SUBSET Nat]
      /\ \A x \in M : Key[x] \in B[x]
      /\ \A x \in M, d \in Sides :
           m.child[d][x] # NULL =>
             \A k \in B[m.child[d][x]] : k \in B[x] /\ Beside(d, k, Key[x])
  BY <1>6 DEF Bounds
<1> HIDE DEF r, o, c, b, p
<1> DEFINE D == [x \in Nodes |-> IF x = c THEN B[n]
                                 ELSE IF x = n THEN {k \in B[n] : Beside(s, k, Key[c])}
                                 ELSE B[x]]
<1>8. D \in [Nodes -> SUBSET Nat] BY <1>1, <1>7
<1>9. /\ D[c] = B[n] /\ D[n] = {k \in B[n] : Beside(s, k, Key[c])}
      /\ \A x \in Nodes : x # c /\ x # n => D[x] = B[x]
  BY <1>1
<1> HIDE DEF D
<1>10. /\ Key[n] \in Nat /\ Key[c] \in Nat /\ Key[c] \in B[c] /\ Key[n] \in B[n]
      /\ B[n] \subseteq Nat /\ B[c] \subseteq Nat
  BY <1>1, <1>7
<1>11. \A k \in B[c] : k \in B[n] /\ Beside(o, k, Key[n])
  BY <1>1, <1>4, <1>7
<1>12. Beside(o, Key[c], Key[n]) /\ Beside(s, Key[n], Key[c])
  BY <1>10, <1>11, BesideOther DEF o
<1>13. \A x \in M : Key[x] \in D[x]
  BY <1>1, <1>7, <1>9, <1>10, <1>11, <1>12
<1>14. ASSUME NEW x \in M, NEW d \in Sides, r.child[d][x] # NULL,
              NEW k \in D[r.child[d][x]]
       PROVE  k \in D[x] /\ Beside(d, k, Key[x])
  <2>1. CASE x = n /\ d = o
    <3>1. r.child[d][x] = b /\ b # NULL /\ b \in M BY <1>1, <1>2, <1>3, <1>4, <1>14, <2>1
    <3>2. k \in B[b] BY <1>1, <1>9, <1>14, <3>1
    <3>3. k \in B[c] /\ Beside(s, k, Key[c]) BY <1>1, <1>4, <1>7, <3>1, <3>2
    <3> QED BY <1>9, <1>11, <2>1, <3>3
  <2>2. CASE x = c /\ d = s
    <3>1. r.child[d][x] = n BY <1>1, <1>2, <2>2
    <3> QED BY <1>9, <1>14, <2>2, <3>1
  <2>3. CASE x = p /\ m.child[d][x] = n
    <3>1. r.child[d][x] = c BY <1>1, <1>2, <2>3
    <3>2. k \in B[n] BY <1>9, <1>14, <3>1
    <3> QED BY <1>1, <1>7, <1>9, <2>3, <3>2
  <2>4. CASE ~(x = n /\ d = o) /\ ~(x = c /\ d = s) /\ ~(x = p /\ m.child[d][x] = n)
    <3> DEFINE z == m.child[d][x]
    <3>1. r.child[d][x] = z /\ z # NULL /\ z \in M /\ m.parent[z] = x
      BY <1>1, <1>2, <1>3, <1>14, <2>4
    <3>2. z # n /\ z # c BY <1>1, <1>4, <1>5, <2>4, <3>1
    <3>3. k \in B[z] BY <1>1, <1>9, <1>14, <3>1, <3>2
    <3>4. k \in B[x] /\ Beside(d, k, Key[x]) BY <1>7, <3>1, <3>3
    <3> HIDE DEF z
    <3>5. CASE x = n
      <4>1. d = s BY <1>1, <2>4, <3>5
      <4>2. k \in Nat BY <1>10, <3>4, <3>5
      <4>3. Beside(s, k, Key[c]) BY <1>10, <1>12, <3>4, <3>5, <4>1, <4>2, BesideOther
      <4> QED BY <1>9, <3>4, <3>5, <4>3
    <3>6. CASE x = c BY <1>9, <1>11, <3>4, <3>6
    <3>7. CASE x # n /\ x # c BY <1>1, <1>9, <3>4, <3>7
    <3> QED BY <3>5, <3>6, <3>7
  <2> QED BY <2>1, <2>2, <2>3, <2>4
<1>15. Bounds(r, M, D) BY <1>8, <1>13, <1>14 DEF Bounds
<1> QED BY <1>15 DEF Sorted, r

\* The members v leaves behind keep their bounds.
LEMMA CutSorted ==
  ASSUME NEW m, NEW M, Good(m, M), NEW v \in M, NEW s \in Sides,
         m.child[Other(s)][v] = NULL, Sorted(m, M)
  PROVE  Sorted(Cut(m, v, m.child[s][v]), M \ {v})
<1> DEFINE c == m.child[s][v]
           p == m.parent[v]
           r == Cut(m, v, c)
<1>1. \A d \in Sides, x \in Nodes \ {v} :
        r.child[d][x] = IF x = p /\ m.child[d][x] = v THEN c ELSE m.child[d][x]
  BY CutWrites
<1>2. M \subseteq Nodes /\ NULL \notin M /\ v # NULL
  BY Around
<1>3. PICK B : Bounds(m, M, B) BY DEF Sorted
<1>4. /\ B \in [Nodes -> SUBSET Nat]
      /\ \A x \in M : Key[x] \in B[x]
      /\ \A x \in M, d \in Sides :
           m.child[d][x] # NULL =>
             \A k \in B[m.child[d][x]] : k \in B[x] /\ Beside(d, k, Key[x])
  BY <1>3 DEF Bounds
<1>5. c # NULL => \A k \in B[c] : k \in B[v] BY <1>4
<1> HIDE DEF r, c, p
<1>6. ASSUME NEW x \in M \ {v}, NEW d \in Sides, r.child[d][x] # NULL,
             NEW k \in B[r.child[d][x]]
      PROVE  k \in B[x] /\ Beside(d, k, Key[x])
  <2>1. CASE x = p /\ m.child[d][x] = v
    <3>1. r.child[d][x] = c BY <1>1, <1>2, <2>1
    <3>2. k \in B[m.child[d][x]] BY <1>5, <1>6, <2>1, <3>1
    <3> QED BY <1>2, <1>4, <2>1, <3>2
  <2>2. CASE ~(x = p /\ m.child[d][x] = v)
    <3>1. r.child[d][x] = m.child[d][x] BY <1>1, <1>2, <2>2
    <3> QED BY <1>4, <1>6, <3>1
  <2> QED BY <2>1, <2>2
<1>7. Bounds(r, M \ {v}, B) BY <1>4, <1>6 DEF Bounds
<1> QED BY <1>7 DEF Sorted, r, c

\* A node with the same key takes v's place, and its bounds.
LEMMA RenameSorted ==
  ASSUME NEW m, NEW r, NEW M, Good(m, M), NEW v \in M, NEW n \in Nodes \ M,
         Renames(m, r, M, v, n), Key[n] = Key[v], Sorted(m, M)
  PROVE  Sorted(r, (M \ {v}) \cup {n})
<1> DEFINE N == (M \ {v}) \cup {n}
<1>1. /\ M \subseteq Nodes /\ NULL \notin M /\ n \notin M /\ v # NULL /\ n # NULL
      /\ \A x \in M, d \in Sides :
           m.child[d][x] # NULL => m.child[d][x] \in M /\ m.parent[m.child[d][x]] = x
      /\ m.parent[v] # v
  BY Around, NoLoop, ConstantsAssumption DEF Good
<1>2. /\ \A d \in Sides, x \in M \ {v} :
           r.child[d][x] = IF m.child[d][x] = v THEN n ELSE m.child[d][x]
      /\ \A d \in Sides : r.child[d][n] = m.child[d][v]
  BY DEF Renames
<1>3. PICK B : Bounds(m, M, B) BY DEF Sorted
<1>4. /\ B \in [Nodes -> SUBSET Nat]
      /\ \A x \in M : Key[x] \in B[x]
      /\ \A x \in M, d \in Sides :
           m.child[d][x] # NULL =>
             \A k \in B[m.child[d][x]] : k \in B[x] /\ Beside(d, k, Key[x])
  BY <1>3 DEF Bounds
<1> DEFINE D == [B EXCEPT ![n] = B[v]]
<1>5. /\ D \in [Nodes -> SUBSET Nat] /\ D[n] = B[v]
      /\ \A x \in Nodes : x # n => D[x] = B[x]
  BY <1>1, <1>4
<1> HIDE DEF D
<1>6. ASSUME NEW x \in N, NEW d \in Sides, r.child[d][x] # NULL, NEW k \in D[r.child[d][x]]
      PROVE  k \in D[x] /\ Beside(d, k, Key[x])
  <2> DEFINE y == IF x = n THEN v ELSE x
  <2>1. y \in M /\ D[x] = B[y] /\ Key[x] = Key[y] BY <1>1, <1>5
  <2>2. r.child[d][x] = IF m.child[d][y] = v THEN n ELSE m.child[d][y]
    BY <1>1, <1>2
  <2>3. m.child[d][y] # NULL /\ k \in B[m.child[d][y]]
    BY <1>1, <1>5, <1>6, <2>1, <2>2
  <2> HIDE DEF y
  <2> QED BY <1>4, <2>1, <2>3
<1>7. \A x \in N : Key[x] \in D[x] BY <1>1, <1>4, <1>5
<1>8. Bounds(r, N, D) BY <1>5, <1>6, <1>7 DEF Bounds
<1> QED BY <1>8 DEF Sorted

-----------------------------------------------------------------------------
(* The descent to a key *)

\* The nodes the descent has passed: from the root to parent, none with the
\* key, and each on the side of the one above where the key belongs.
Passed(P) ==
  /\ P \subseteq members
  /\ IF parent = NULL THEN P = {} ELSE parent \in P
  /\ \A x \in P :
       /\ Key[x] # Key[arg]
       /\ t.parent[x] # NULL => /\ t.parent[x] \in P
                               /\ x = t.child[SideOf(t.parent[x])][t.parent[x]]
  /\ \A x \in P \ {parent} : t.child[SideOf(x)][x] \in P

LEMMA SideOfBeside ==
  ASSUME NEW x \in Nodes, arg \in Nodes, Key[x] # Key[arg]
  PROVE  /\ SideOf(x) \in Sides
         /\ \A s \in Sides : Beside(s, Key[arg], Key[x]) <=> s = SideOf(x)
  BY ConstantsAssumption DEF SideOf, Sides, Beside

\* Where the descent ends without a node, no member has the key.
LEMMA NotThere ==
  ASSUME LinkInv, Sorted(t, members), pc \in {"insert", "search"}, node = NULL,
         NEW P, Passed(P)
  PROVE  \A n \in members : Key[n] # Key[arg]
<1> SUFFICES ASSUME NEW n \in members, Key[n] = Key[arg] PROVE FALSE
  OBVIOUS
<1>1. /\ Good(t, members) /\ arg \in Nodes /\ parent \in members \cup {NULL}
      /\ node = IF parent = NULL THEN t.root ELSE t.child[SideOf(parent)][parent]
  BY DEF LinkInv, Control
<1>2. /\ members \subseteq Nodes /\ NULL \notin members
      /\ \A x \in members : t.parent[x] \in members \cup {NULL} /\ Hangs(t, x)
  BY <1>1, Around
<1>3. PICK B : Bounds(t, members, B) BY DEF Sorted
<1>4. /\ \A x \in members : Key[x] \in B[x]
      /\ \A x \in members, d \in Sides :
           t.child[d][x] # NULL =>
             \A k \in B[t.child[d][x]] : k \in B[x] /\ Beside(d, k, Key[x])
  BY <1>3 DEF Bounds
<1>5. t.root # NULL /\ parent # NULL BY <1>1, <1>2, NoRoot
<1>6. parent \in P /\ P \subseteq members BY <1>5 DEF Passed
<1>7. t.root \in P
  <2>1. PICK x \in P : t.parent[x] \notin P BY <1>1, <1>6 DEF Good, Rooted
  <2>2. t.parent[x] = NULL BY <2>1 DEF Passed
  <2> QED BY <1>2, <1>6, <2>1, <2>2 DEF Hangs
<1> DEFINE S == {z \in members \ P : Key[arg] \in B[z]}
<1>8. n \in S BY <1>4 DEF Passed
<1>9. PICK y \in S : t.parent[y] \notin S BY <1>1, <1>8 DEF Good, Rooted
<1> DEFINE w == t.parent[y]
<1>10. w # NULL BY <1>2, <1>7, <1>9 DEF Hangs
<1>11. w \in members /\ \E s \in Sides : t.child[s][w] = y BY <1>2, <1>9, <1>10 DEF Hangs
<1>12. PICK s \in Sides : t.child[s][w] = y BY <1>11
<1>13. Key[arg] \in B[w] /\ Beside(s, Key[arg], Key[w])
  BY <1>2, <1>4, <1>9, <1>11, <1>12
<1>14. w \in P BY <1>9, <1>11, <1>13
<1> HIDE DEF w
<1>15. s = SideOf(w) BY <1>1, <1>2, <1>11, <1>13, <1>14, SideOfBeside DEF Passed
<1>16. CASE w = parent BY <1>1, <1>2, <1>5, <1>9, <1>12, <1>15, <1>16
<1>17. CASE w # parent BY <1>9, <1>12, <1>14, <1>15, <1>17 DEF Passed
<1> QED BY <1>16, <1>17

\* A new leaf: its key joins the bounds of the nodes that were passed.
LEMMA InsertLinkSorted ==
  ASSUME LinkInv, Sorted(t, members), InsertLink, NEW P, Passed(P)
  PROVE  Sorted(t, members)'
<1> SUFFICES Sorted(t', members')
  OBVIOUS
<1>1. /\ pc = "insert" /\ node = NULL /\ members' = members \cup {arg}
  BY DEF InsertLink
<1>2. /\ Good(t, members) /\ arg \in Nodes \ members /\ parent \in members \cup {NULL}
  BY <1>1 DEF LinkInv, Control
<1>3. /\ \A d \in Sides, x \in members :
           t'.child[d][x] = IF x = parent /\ d = SideOf(parent) THEN arg ELSE t.child[d][x]
      /\ \A d \in Sides : t'.child[d][arg] = NULL
  BY InsertLinks DEF Links
<1>4. /\ members \subseteq Nodes /\ NULL \notin members
      /\ \A x \in members, d \in Sides :
           t.child[d][x] # NULL => t.child[d][x] \in members /\ t.parent[t.child[d][x]] = x
      /\ \A x \in members : Hangs(t, x)
  BY <1>2, Around
<1>5. PICK B : Bounds(t, members, B) BY DEF Sorted
<1>6. /\ B \in [Nodes -> SUBSET Nat]
      /\ \A x \in members : Key[x] \in B[x]
      /\ \A x \in members, d \in Sides :
           t.child[d][x] # NULL =>
             \A k \in B[t.child[d][x]] : k \in B[x] /\ Beside(d, k, Key[x])
  BY <1>5 DEF Bounds
<1> DEFINE D == [x \in Nodes |-> IF x = arg THEN {Key[arg]}
                                 ELSE IF x \in P THEN B[x] \cup {Key[arg]} ELSE B[x]]
<1>7. /\ D \in [Nodes -> SUBSET Nat] /\ D[arg] = {Key[arg]}
      /\ \A x \in members : D[x] = IF x \in P THEN B[x] \cup {Key[arg]} ELSE B[x]
  <2>1. Key[arg] \in Nat /\ \A x \in Nodes : B[x] \in SUBSET Nat
    BY <1>2, <1>6, ConstantsAssumption
  <2>2. D \in [Nodes -> SUBSET Nat] BY <2>1
  <2>3. \A x \in members : x \in Nodes /\ x # arg BY <1>2, <1>4
  <2> QED BY <1>2, <2>2, <2>3
<1> HIDE DEF D
<1>8. \A x \in members' : Key[x] \in D[x] BY <1>1, <1>6, <1>7
<1>9. ASSUME NEW x \in P, NEW s \in Sides, s = SideOf(x)
      PROVE  Key[arg] \in D[x] /\ Beside(s, Key[arg], Key[x])
  <2>1. x \in members /\ x \in Nodes /\ arg \in Nodes /\ Key[x] # Key[arg]
    BY <1>2, <1>4 DEF Passed
  <2> QED BY <1>7, <1>9, <2>1, SideOfBeside
<1>10. ASSUME NEW x \in members', NEW d \in Sides, t'.child[d][x] # NULL,
              NEW k \in D[t'.child[d][x]]
       PROVE  k \in D[x] /\ Beside(d, k, Key[x])
  <2>1. x \in members BY <1>1, <1>3, <1>10
  <2>2. CASE x = parent /\ d = SideOf(parent)
    <3>1. k = Key[arg] BY <1>3, <1>7, <1>10, <2>1, <2>2
    <3>2. x \in P BY <1>4, <2>1, <2>2 DEF Passed
    <3> QED BY <1>9, <2>2, <3>1, <3>2
  <2>3. CASE ~(x = parent /\ d = SideOf(parent))
    <3> DEFINE z == t.child[d][x]
    <3>1. z # NULL /\ z \in members /\ t.parent[z] = x /\ k \in D[z]
      BY <1>3, <1>4, <1>10, <2>1, <2>3
    <3>2. CASE k \in B[z] BY <1>6, <1>7, <2>1, <3>1, <3>2
    <3>3. CASE k \notin B[z]
      <4>1. z \in P /\ k = Key[arg] BY <1>7, <3>1, <3>3
      <4>2. x \in P /\ z = t.child[SideOf(x)][x] BY <1>4, <2>1, <3>1, <4>1 DEF Passed
      <4>3. Hangs(t, z) /\ x # NULL BY <1>4, <2>1, <3>1
      <4>4. d = SideOf(x)
        BY <3>1, <4>2, <4>3, OtherSide DEF Hangs, SideOf, Sides
      <4> QED BY <1>9, <4>1, <4>2, <4>4
    <3> QED BY <3>2, <3>3
  <2> QED BY <2>2, <2>3
<1>11. Bounds(t', members', D) BY <1>7, <1>8, <1>10 DEF Bounds
<1> QED BY <1>11 DEF Sorted

-----------------------------------------------------------------------------
(* The successor *)

\* Of the nodes on the way to the successor it has the least key.
Least(P) == LeftPath(P) /\ \A x \in P \ {node} : Key[node] < Key[x]

\* The way lies under arg, and its bounds are to the right of arg's key.
LEMMA LeftPathBounds ==
  ASSUME LinkInv, pc = "successor", NEW P \in SUBSET Nodes, LeftPath(P),
         NEW B, Bounds(t, members, B)
  PROVE  /\ t.child["right"][arg] \in P
         /\ t.parent[arg] \notin P
         /\ \A x \in P : \A k \in B[x] : k \in B[arg] /\ Key[arg] < k
<1>1. /\ Good(t, members) /\ arg \in members /\ P \subseteq members /\ node \in P
      /\ \A x \in P : \/ x = t.child["right"][arg] /\ t.parent[x] = arg
                      \/ t.parent[x] \in P /\ x = t.child["left"][t.parent[x]]
  BY DEF LinkInv, Control, LeftPath
<1>2. "left" \in Sides /\ "right" \in Sides /\ NULL \notin members
  BY <1>1, Around DEF Sides
<1>3. t.child["right"][arg] \in P
  <2>1. PICK x \in P : t.parent[x] \notin P BY <1>1 DEF Good, Rooted
  <2> QED BY <1>1, <2>1
<1>4. t.parent[arg] \notin P
  <2> SUFFICES ASSUME t.parent[arg] \in P PROVE FALSE
    OBVIOUS
  <2>1. P \cup {arg} \in SUBSET members /\ \A x \in P \cup {arg} : t.parent[x] \in P \cup {arg}
    BY <1>1
  <2> QED BY <1>1, <2>1 DEF Good, Rooted
<1>5. ASSUME NEW x \in members, NEW s \in Sides, t.child[s][x] # NULL
      PROVE  \A k \in B[t.child[s][x]] : k \in B[x] /\ Beside(s, k, Key[x])
  BY <1>5 DEF Bounds
<1> DEFINE S == {x \in P : \E k \in B[x] : ~(k \in B[arg] /\ Key[arg] < k)}
<1>6. S = {}
  <2> SUFFICES ASSUME S # {} PROVE FALSE
    OBVIOUS
  <2>1. PICK x \in S : t.parent[x] \notin S BY <1>1 DEF Good, Rooted
  <2>2. PICK k \in B[x] : ~(k \in B[arg] /\ Key[arg] < k) BY <2>1
  <2>3. CASE x = t.child["right"][arg]
    <3>1. x # NULL BY <1>1, <1>2
    <3>2. k \in B[arg] /\ Beside("right", k, Key[arg]) BY <1>1, <1>2, <1>5, <2>2, <2>3, <3>1
    <3> QED BY <2>2, <3>2 DEF Beside
  <2>4. CASE t.parent[x] \in P /\ x = t.child["left"][t.parent[x]]
    <3>1. x # NULL /\ t.parent[x] \in members BY <1>1, <1>2, <2>4
    <3>2. k \in B[t.parent[x]] BY <1>2, <1>5, <2>2, <2>4, <3>1
    <3> QED BY <2>1, <2>2, <2>4, <3>2
  <2> QED BY <1>1, <2>1, <2>3, <2>4
<1> QED BY <1>3, <1>4, <1>6

\* The successor takes arg's bounds, and those on the way are cut at its key.
LEMMA SpliceSorted ==
  ASSUME LinkInv, Sorted(t, members), EraseSplice, NEW P \in SUBSET Nodes, Least(P)
  PROVE  Sorted(t, members)'
<1> SUFFICES Sorted(t', members')
  OBVIOUS
<1> DEFINE c == t.child["right"][node]
           p == t.parent[node]
           q == t.parent[arg]
           l == t.child["left"][arg]
           r == t.child["right"][arg]
<1>1. /\ pc = "successor" /\ t.child["left"][node] = NULL /\ members' = members \ {arg}
  BY DEF EraseSplice
<1>2. /\ "left" \in Sides /\ "right" \in Sides
      /\ \A d \in Sides : d = "left" \/ d = "right"
      /\ Other("right") = "left" /\ Other("left") = "right"
  BY DEF Sides, Other
<1>3. /\ node \in members /\ arg \in members /\ node # arg /\ p \in members
      /\ l \in members /\ r \in members /\ l # node /\ l # r
      /\ p = arg <=> r = node
      /\ q # node /\ q # p
  BY <1>1, <1>2, SuccessorAround
<1>4. /\ members \subseteq Nodes /\ NULL \notin members
      /\ \A x \in members, d \in Sides :
           t.child[d][x] # NULL => t.child[d][x] \in members /\ t.parent[t.child[d][x]] = x
      /\ \A x \in members : Hangs(t, x)
      /\ Key \in [Nodes -> Nat]
  BY Around, ConstantsAssumption DEF LinkInv
<1>5. /\ P \subseteq members /\ node \in P /\ arg \notin P
      /\ \A x \in P : \/ x = r /\ t.parent[x] = arg
                      \/ t.parent[x] \in P /\ x = t.child["left"][t.parent[x]]
      /\ \A x \in P \ {node} : t.child["left"][x] \in P /\ Key[node] < Key[x]
  BY DEF Least, LeftPath
<1>6. PICK B : Bounds(t, members, B) BY DEF Sorted
<1>7. /\ B \in [Nodes -> SUBSET Nat]
      /\ \A x \in members : Key[x] \in B[x]
      /\ \A x \in members, d \in Sides :
           t.child[d][x] # NULL =>
             \A k \in B[t.child[d][x]] : k \in B[x] /\ Beside(d, k, Key[x])
  BY <1>6 DEF Bounds
<1>8. /\ r \in P /\ q \notin P
      /\ \A x \in P : \A k \in B[x] : k \in B[arg] /\ Key[arg] < k
  BY <1>1, <1>6, LeftPathBounds DEF Least
<1>9. \A d \in Sides, x \in Nodes \ {arg} :
        t'.child[d][x] =
          IF x = node THEN (IF d = "left" THEN l ELSE IF p = arg THEN c ELSE r)
          ELSE IF p # arg /\ d = "left" /\ x = p THEN c
          ELSE IF x = q /\ t.child[d][x] = arg THEN node ELSE t.child[d][x]
  BY SpliceWrites
<1>10. t.parent[l] = arg /\ t.parent[node] = p /\ (c # NULL => c \in members /\ t.parent[c] = node)
  BY <1>2, <1>3, <1>4
<1>11. l \notin P /\ (c # NULL => c \notin P)
  BY <1>1, <1>3, <1>4, <1>5, <1>10
<1>12. p # arg => p \in P /\ p # node /\ t.child["right"][p] # node /\ t.child["left"][p] = node
  <2>1. p # arg => p \in P /\ t.child["left"][p] = node BY <1>3, <1>5
  <2>2. p # node BY <1>3, NoLoop DEF LinkInv, Good
  <2>3. Hangs(t, node) /\ p # NULL BY <1>3, <1>4
  <2> QED BY <1>2, <2>1, <2>2, <2>3 DEF Hangs
<1>13. t.child["left"][arg] = l /\ t.child["right"][arg] = r /\ t.child["right"][node] = c
  OBVIOUS
<1>14. \A x \in members, d \in Sides :
         /\ t.child[d][x] = arg => x = q
         /\ t.child[d][x] = node => x = p
  BY <1>3, <1>4
<1> HIDE DEF c, p, q, l, r
<1> DEFINE D == [x \in Nodes |-> IF x = node THEN B[arg]
                                 ELSE IF x \in P THEN {k \in B[x] : Key[node] < k}
                                 ELSE B[x]]
<1>15. D \in [Nodes -> SUBSET Nat]
  <2>1. \A x \in Nodes : B[x] \in SUBSET Nat BY <1>7
  <2>2. arg \in Nodes BY <1>3, <1>4
  <2> QED BY <2>1, <2>2
<1>16. /\ D[node] = B[arg]
       /\ \A x \in P \ {node} : D[x] = {k \in B[x] : Key[node] < k}
       /\ \A x \in members \ P : D[x] = B[x]
       /\ \A x \in members \ {node} : D[x] \subseteq B[x]
  BY <1>3, <1>4, <1>5
<1> HIDE DEF D
<1>17. Key[node] \in B[node] /\ Key[node] \in B[arg] /\ Key[arg] < Key[node]
       /\ Key[node] \in Nat /\ Key[arg] \in Nat
  BY <1>3, <1>4, <1>5, <1>7, <1>8
<1>18. ASSUME NEW x \in members' PROVE Key[x] \in D[x]
  BY <1>1, <1>5, <1>7, <1>16, <1>17
<1>19. ASSUME NEW x \in members', NEW d \in Sides, t'.child[d][x] # NULL,
              NEW k \in D[t'.child[d][x]]
       PROVE  k \in D[x] /\ Beside(d, k, Key[x])
  <2>1. x \in members /\ x # arg /\ x \in Nodes BY <1>1, <1>4
  <2>2. CASE x = node /\ d = "left"
    <3>1. k \in B[l] BY <1>3, <1>9, <1>11, <1>16, <1>19, <2>1, <2>2
    <3>2. k \in B[arg] /\ k < Key[arg]
      <4>1. l # NULL BY <1>3, <1>4
      <4> QED BY <1>2, <1>3, <1>7, <1>13, <3>1, <4>1 DEF Beside
    <3>3. k \in Nat BY <1>3, <1>4, <1>7, <3>2
    <3>4. k < Key[node] BY <1>17, <3>2, <3>3
    <3> QED BY <1>16, <2>2, <3>2, <3>4 DEF Beside
  <2>3. CASE x = node /\ d = "right" /\ p = arg
    <3>1. t'.child[d][x] = c BY <1>9, <2>1, <2>3
    <3>2. k \in B[c] BY <1>10, <1>11, <1>16, <1>19, <3>1
    <3>3. k \in B[node] /\ Beside("right", k, Key[node])
      BY <1>2, <1>3, <1>7, <1>13, <1>19, <3>1, <3>2
    <3> QED BY <1>5, <1>8, <1>16, <2>3, <3>3
  <2>4. CASE x = node /\ d = "right" /\ p # arg
    <3>1. t'.child[d][x] = r /\ r # node BY <1>3, <1>9, <2>1, <2>4
    <3>2. k \in B[r] /\ Key[node] < k BY <1>8, <1>16, <1>19, <3>1
    <3> QED BY <1>8, <1>16, <2>4, <3>2 DEF Beside
  <2>5. CASE p # arg /\ d = "left" /\ x = p
    <3>1. t'.child[d][x] = c BY <1>9, <1>12, <2>1, <2>5
    <3>2. k \in B[c] BY <1>10, <1>11, <1>16, <1>19, <3>1
    <3>3. k \in B[node] /\ Key[node] < k
      BY <1>2, <1>3, <1>7, <1>13, <1>19, <3>1, <3>2 DEF Beside
    <3>4. k \in B[p] /\ Beside("left", k, Key[p])
      <4>1. node # NULL BY <1>3, <1>4
      <4> QED BY <1>2, <1>3, <1>7, <1>12, <2>5, <3>3, <4>1
    <3> QED BY <1>12, <1>16, <2>5, <3>3, <3>4
  <2>6. CASE x = q /\ t.child[d][x] = arg
    <3>1. t'.child[d][x] = node BY <1>3, <1>9, <2>1, <2>6
    <3>2. k \in B[arg] BY <1>16, <1>19, <3>1
    <3>3. k \in B[x] /\ Beside(d, k, Key[x])
      <4>1. arg # NULL BY <1>3, <1>4
      <4> QED BY <1>7, <2>1, <2>6, <3>2, <4>1
    <3> QED BY <1>8, <1>16, <2>1, <2>6, <3>3
  <2>7. CASE x # node /\ ~(p # arg /\ d = "left" /\ x = p) /\ ~(x = q /\ t.child[d][x] = arg)
    <3> DEFINE z == t.child[d][x]
    <3>1. t'.child[d][x] = z BY <1>9, <2>1, <2>7
    <3>2. z # NULL /\ z \in members /\ k \in D[z] BY <1>4, <1>19, <2>1, <3>1
    <3>3. z # node BY <1>2, <1>12, <1>14, <2>1, <2>7
    <3>4. k \in B[z] BY <1>16, <3>2, <3>3
    <3>5. k \in B[x] /\ Beside(d, k, Key[x]) BY <1>7, <2>1, <3>2, <3>4
    <3>6. CASE x \notin P BY <1>16, <2>1, <3>5, <3>6
    <3>7. CASE x \in P /\ z \in P BY <1>16, <2>7, <3>2, <3>3, <3>5, <3>7
    <3>8. CASE x \in P /\ z \notin P
      <4>1. d = "right" /\ Key[node] < Key[x] BY <1>2, <1>5, <2>7, <3>8
      <4>2. k \in Nat /\ Key[x] \in Nat BY <1>4, <1>7, <2>1, <3>5
      <4>3. Key[x] < k BY <3>5, <4>1 DEF Beside
      <4>4. Key[node] < k BY <1>17, <4>1, <4>2, <4>3
      <4> QED BY <1>16, <2>7, <3>5, <3>8, <4>4
    <3> QED BY <3>6, <3>7, <3>8
  <2> QED BY <1>2, <2>2, <2>3, <2>4, <2>5, <2>6, <2>7
<1>20. Bounds(t', members', D) BY <1>15, <1>18, <1>19 DEF Bounds
<1> QED BY <1>20 DEF Sorted

-----------------------------------------------------------------------------
(* The invariant *)

OrderInv ==
  /\ LinkInv /\ Sorted(t, members)
  /\ pc \in {"insert", "search"} => \E P \in SUBSET Nodes : Passed(P)
  /\ Found
  /\ pc = "successor" => \E P \in SUBSET Nodes : Least(P)

LEMMA OrderInit == Init => OrderInv
<1> SUFFICES ASSUME Init PROVE OrderInv
  OBVIOUS
<1>1. t \in Tree /\ members = {} /\ pc = "idle" BY LinkInit DEF Init, LinkInv, Good
<1>2. Bounds(t, members, [n \in Nodes |-> {}]) BY <1>1 DEF Bounds
<1> QED BY <1>1, <1>2, LinkInit DEF OrderInv, Sorted, Found

\* Where no call is left that looks for a key, the order is all there is.
LEMMA OrderKept ==
  ASSUME OrderInv, LinkInv', Sorted(t, members)', pc' \notin {"insert", "search", "found", "successor"}
  PROVE  OrderInv'
  BY DEF OrderInv, Found

LEMMA TurnedSorted ==
  ASSUME LinkInv, Sorted(t, members), NEW r, Turned(r)
  PROVE  Sorted(r, members)
<1>1. PICK k \in Tree, s \in Sides, n \in members :
        SamePointers(t, k) /\ k.child[Other(s)][n] # NULL /\ SamePointers(Rotate(k, s, n), r)
  BY DEF Turned
<1>2. Good(k, members) /\ Sorted(k, members)
  BY <1>1, SamePointersGood, SamePointersSorted DEF LinkInv
<1>3. Sorted(Rotate(k, s, n), members) BY <1>1, <1>2, RotateSorted
<1> QED BY <1>1, <1>3, SamePointersSorted

LEMMA PaintedSorted ==
  ASSUME LinkInv, Sorted(t, members), NEW blacks, NEW reds
  PROVE  Sorted(Paint(t, blacks, reds), members)
  BY Painted, SamePointersSorted DEF LinkInv

\* The steps of a call that has changed the members already.
LEMMA OrderColors ==
  ASSUME OrderInv,
         \/ InsertDone \/ InsertRecolor \/ InsertRotateInner \/ InsertRotate
         \/ EraseDone \/ EraseRedSibling \/ EraseUp \/ EraseRedNear \/ EraseRotate
  PROVE  OrderInv' /\ UNCHANGED members
<1> USE DEF OrderInv
<1>1. UNCHANGED members
  BY DEF InsertDone, InsertRecolor, InsertRotateInner, InsertRotate,
         EraseDone, EraseRedSibling, EraseUp, EraseRedNear, EraseRotate
<1>2. pc' \in {"idle", "insert_color", "erase_color"}
  BY DEF InsertDone, InsertRecolor, InsertRotateInner, InsertRotate, RedRed, Return,
         EraseDone, EraseRedSibling, EraseUp, EraseRedNear, EraseRotate, Short
<1>3. LinkInv' BY LinkPaints, LinkInsertRotates, LinkEraseRotates
<1>4. Sorted(t', members)
  <2>1. CASE InsertRotateInner \/ InsertRotate \/ EraseRedSibling \/ EraseRedNear \/ EraseRotate
    BY <2>1, TurnedSorted, InsertRotateInnerTurns, InsertRotateTurns,
       EraseRedSiblingTurns, EraseRedNearTurns, EraseRotateTurns
  <2>2. CASE InsertDone BY <2>2, PaintedSorted DEF InsertDone
  <2>3. CASE EraseDone BY <2>3, PaintedSorted DEF EraseDone
  <2>4. CASE InsertRecolor BY <2>4, PaintedSorted DEF InsertRecolor
  <2>5. CASE EraseUp BY <2>5, PaintedSorted DEF EraseUp
  <2> QED BY <2>1, <2>2, <2>3, <2>4, <2>5
<1>5. Sorted(t, members)' BY <1>1, <1>4
<1> QED BY <1>1, <1>2, <1>3, <1>5, OrderKept

LEMMA OrderCalls ==
  ASSUME OrderInv, NEW n \in Nodes, InsertCall(n) \/ SearchCall(n)
  PROVE  OrderInv' /\ UNCHANGED members
<1>1. UNCHANGED <<t, members>> /\ parent' = NULL /\ pc' \in {"insert", "search"}
  BY DEF InsertCall, SearchCall, Call, Locals
<1>2. Passed({})' BY <1>1 DEF Passed
<1>3. LinkInv' BY LinkCalls DEF OrderInv
<1> QED BY <1>1, <1>2, <1>3 DEF OrderInv, Found

LEMMA OrderDescend ==
  ASSUME OrderInv, Descend
  PROVE  OrderInv' /\ UNCHANGED members
<1>1. /\ UNCHANGED <<t, members, pc, arg>> /\ pc \in {"insert", "search"}
      /\ node # NULL /\ Key[node] # Key[arg]
      /\ node' = t.child[SideOf(node)][node] /\ parent' = node
  BY DEF Descend, Locals
<1>2. LinkInv' BY LinkDescend DEF OrderInv
<1>3. PICK P \in SUBSET Nodes : Passed(P) BY <1>1 DEF OrderInv
<1>4. /\ Good(t, members) /\ parent \in members \cup {NULL}
      /\ node = IF parent = NULL THEN t.root ELSE t.child[SideOf(parent)][parent]
  BY <1>1 DEF OrderInv, LinkInv, Control
<1>5. /\ members \subseteq Nodes /\ node \in members
      /\ t.parent[node] = parent
  BY <1>1, <1>4, Around DEF SideOf, Sides
<1> PICK Q : Q = P \cup {node}
  OBVIOUS
<1>6. \A x \in Nodes : SideOf(x)' = SideOf(x) BY <1>1 DEF SideOf
<1>7. \A x \in P : t.parent[x] # NULL => t.parent[x] \in Nodes
  BY <1>3 DEF Passed
<1>8. Passed(Q)'
  <2>1. \A x \in Q : /\ Key[x] # Key[arg]
                     /\ t.parent[x] # NULL => /\ t.parent[x] \in Q
                                             /\ x = t.child[SideOf(t.parent[x])][t.parent[x]]
    BY <1>1, <1>3, <1>4, <1>5 DEF Passed
  <2>2. \A x \in Q \ {node} : t.child[SideOf(x)][x] \in Q
    BY <1>3, <1>4 DEF Passed
  <2>3. Q \subseteq members /\ node \in Q /\ node # NULL BY <1>1, <1>3, <1>5 DEF Passed
  <2>4. \A x \in Q : x \in Nodes /\ (t.parent[x] # NULL => t.parent[x] \in Nodes)
    BY <1>5, <2>1, <2>3
  <2> QED BY <1>1, <1>6, <2>1, <2>2, <2>3, <2>4 DEF Passed
<1>9. Q \in SUBSET Nodes BY <1>5
<1> QED BY <1>1, <1>2, <1>8, <1>9 DEF OrderInv, Found

LEMMA OrderSearchEnd ==
  ASSUME OrderInv, SearchEnd
  PROVE  OrderInv' /\ UNCHANGED members
<1>1. /\ UNCHANGED <<t, members, node, parent, arg>> /\ pc = "search" /\ pc' = "found"
      /\ node # NULL => Key[node] = Key[arg]
  BY DEF SearchEnd
<1>2. LinkInv' BY LinkSearchEnd DEF OrderInv
<1>3. node = NULL => \A n \in members : Key[n] # Key[arg]
  BY <1>1, NotThere DEF OrderInv
<1>4. node \in members \cup {NULL} BY <1>1, <1>2 DEF LinkInv, Control
<1>5. Found' BY <1>1, <1>3, <1>4 DEF Found
<1> QED BY <1>1, <1>2, <1>5 DEF OrderInv

LEMMA OrderReturns ==
  ASSUME OrderInv, InsertRefused \/ Leave
  PROVE  OrderInv' /\ UNCHANGED members
<1>1. Return /\ UNCHANGED <<t, members>> BY DEF InsertRefused, Leave
<1>2. Sorted(t, members)' BY <1>1 DEF OrderInv
<1>3. pc' = "idle" /\ LinkInv' BY <1>1, LinkReturns DEF OrderInv, Return
<1> QED BY <1>1, <1>2, <1>3, OrderKept

LEMMA OrderSuccessor ==
  ASSUME OrderInv, EraseInner \/ Successor
  PROVE  OrderInv' /\ UNCHANGED members
<1>1. LinkInv' BY LinkEraseInner, LinkSuccessor DEF OrderInv
<1>2. CASE EraseInner
  <2>1. UNCHANGED <<t, members>> /\ pc' = "successor" /\ node' = t.child["right"][node]
    BY <1>2 DEF EraseInner, Locals
  <2> PICK P : P = {t.child["right"][node]}
    OBVIOUS
  <2>2. LeftPath(P)' BY <1>2, EraseInnerPath DEF OrderInv
  <2>3. Least(P)' BY <2>1, <2>2 DEF Least
  <2>4. P \in SUBSET Nodes BY <1>1, <2>1, <2>2 DEF LeftPath, LinkInv, Good
  <2> QED BY <1>1, <2>1, <2>3, <2>4 DEF OrderInv, Found
<1>3. CASE Successor
  <2>1. /\ UNCHANGED <<t, members, pc, arg>> /\ pc = "successor"
        /\ t.child["left"][node] # NULL /\ node' = t.child["left"][node]
    BY <1>3 DEF Successor, Locals
  <2>2. PICK P \in SUBSET Nodes : Least(P) BY <2>1 DEF OrderInv
  <2> PICK Q : Q = P \cup {t.child["left"][node]}
    OBVIOUS
  <2>3. LeftPath(Q)' /\ Q \subseteq members
    BY <1>3, <2>2, SuccessorPath DEF OrderInv, Least
  <2>4. /\ members \subseteq Nodes /\ node \in members /\ node' \in members
        /\ "left" \in Sides /\ Key \in [Nodes -> Nat]
    BY <2>1, <2>2, <2>3, ConstantsAssumption
       DEF OrderInv, LinkInv, Good, Least, LeftPath, Sides
  <2>5. Key[node'] < Key[node]
    <3>1. PICK B : Bounds(t, members, B) BY DEF OrderInv, Sorted
    <3>2. Key[node'] \in B[node'] BY <2>4, <3>1 DEF Bounds
    <3> QED BY <2>1, <2>4, <3>1, <3>2 DEF Bounds, Beside
  <2>6. \A x \in Q \ {node'} : Key[node'] < Key[x]
    <3> SUFFICES ASSUME NEW x \in Q, x # node' PROVE Key[node'] < Key[x]
      OBVIOUS
    <3>1. x = node \/ Key[node] < Key[x] BY <2>1, <2>2 DEF Least
    <3>2. Key[x] \in Nat /\ Key[node] \in Nat /\ Key[node'] \in Nat BY <2>3, <2>4
    <3> QED BY <2>5, <3>1, <3>2
  <2>7. Least(Q)' BY <2>1, <2>3, <2>6 DEF Least
  <2>8. Q \in SUBSET Nodes BY <2>3, <2>4
  <2> QED BY <1>1, <2>1, <2>7, <2>8 DEF OrderInv, Found
<1> QED BY <1>2, <1>3

-----------------------------------------------------------------------------
(* The steps that change the members, which are steps of OrderedSet *)

Members == INSTANCE OrderedSet WITH set <- members

LEMMA OrderInsertLink ==
  ASSUME OrderInv, InsertLink
  PROVE  OrderInv' /\ Members!Insert(arg) /\ arg \in Nodes
<1>1. /\ pc = "insert" /\ node = NULL /\ members' = members \cup {arg}
      /\ pc' = "insert_color"
  BY DEF InsertLink, Locals
<1>2. arg \in Nodes BY <1>1 DEF OrderInv, LinkInv, Control
<1>3. PICK P \in SUBSET Nodes : Passed(P) BY <1>1 DEF OrderInv
<1>4. \A n \in members : Key[n] # Key[arg] BY <1>1, <1>3, NotThere DEF OrderInv
<1>5. Sorted(t, members)' BY <1>3, InsertLinkSorted DEF OrderInv
<1>6. LinkInv' BY LinkInsertLink DEF OrderInv
<1>7. OrderInv' BY <1>1, <1>5, <1>6, OrderKept
<1> QED BY <1>1, <1>2, <1>4, <1>7 DEF Members!Insert, Members!Keys

LEMMA OrderReplace ==
  ASSUME OrderInv, NEW n \in Nodes, Replace(n)
  PROVE  OrderInv' /\ node \in members /\ n \notin members /\ Members!Replace(node, n)
<1>1. /\ pc = "found" /\ node # NULL /\ n \notin members /\ Key[n] = Key[node]
      /\ members' = (members \ {node}) \cup {n} /\ pc' = "idle"
  BY DEF Replace, Return
<1>2. Good(t, members) /\ node \in members BY <1>1 DEF OrderInv, LinkInv, Control
<1>3. Sorted(t', members')
  BY <1>1, <1>2, ReplaceRenames, RenameSorted DEF OrderInv
<1>4. Sorted(t, members)' BY <1>3
<1>5. LinkInv' BY LinkReplace DEF OrderInv
<1>6. OrderInv' BY <1>1, <1>4, <1>5, OrderKept
<1> QED BY <1>1, <1>2, <1>6 DEF Members!Replace

LEMMA OrderErase ==
  ASSUME OrderInv, Erase
  PROVE  OrderInv' /\ node \in members /\ Members!Remove(node)
<1> DEFINE s == IF t.child["left"][node] = NULL THEN "right" ELSE "left"
           c == t.child[s][node]
<1>1. /\ pc = "found" /\ node # NULL /\ t.child[Other(s)][node] = NULL
      /\ t' = Cut(t, node, c) /\ members' = members \ {node}
      /\ Recolor(t.black[node], c, t.parent[node])
  BY DEF Erase, Cut
<1>2. Good(t, members) /\ node \in members /\ s \in Sides
  BY <1>1 DEF OrderInv, LinkInv, Control, Sides
<1>3. Sorted(t', members') BY <1>1, <1>2, CutSorted DEF OrderInv
<1>4. Sorted(t, members)' BY <1>3
<1>5. pc' \in {"idle", "erase_color"} BY <1>1 DEF Recolor, Return
<1>6. LinkInv' BY LinkErase DEF OrderInv
<1>7. OrderInv' BY <1>4, <1>5, <1>6, OrderKept
<1> QED BY <1>1, <1>2, <1>7 DEF Members!Remove

LEMMA OrderEraseSplice ==
  ASSUME OrderInv, EraseSplice
  PROVE  OrderInv' /\ arg \in members /\ Members!Remove(arg)
<1>1. /\ pc = "successor" /\ members' = members \ {arg}
      /\ pc' \in {"idle", "erase_color"}
  BY DEF EraseSplice, Recolor, Return
<1>2. PICK P \in SUBSET Nodes : Least(P) BY <1>1 DEF OrderInv
<1>3. Sorted(t, members)' BY <1>2, SpliceSorted DEF OrderInv
<1>4. LinkInv' BY LinkEraseSplice DEF OrderInv
<1>5. OrderInv' BY <1>1, <1>3, <1>4, OrderKept
<1>6. arg \in members BY <1>1 DEF OrderInv, LinkInv, Control
<1> QED BY <1>1, <1>5, <1>6 DEF Members!Remove

LEMMA OrderStutter == OrderInv /\ UNCHANGED vars => OrderInv' /\ UNCHANGED members
<1> SUFFICES ASSUME OrderInv, UNCHANGED vars PROVE OrderInv' /\ UNCHANGED members
  OBVIOUS
<1>1. UNCHANGED <<t, members, pc, node, parent, arg>> BY DEF vars
<1>2. LinkInv' BY LinkStutter DEF OrderInv
<1>3. ASSUME NEW P \in SUBSET Nodes, Passed(P) PROVE Passed(P)'
  <2>1. \A x \in Nodes : SideOf(x)' = SideOf(x) BY <1>1 DEF SideOf
  <2>2. P \subseteq members /\ members \subseteq Nodes BY <1>3 DEF Passed, OrderInv, LinkInv, Good
  <2>3. \A x \in P : t.parent[x] # NULL => t.parent[x] \in Nodes
    BY <1>3 DEF Passed
  <2> QED BY <1>1, <1>3, <2>1, <2>2, <2>3 DEF Passed
<1>4. ASSUME NEW P \in SUBSET Nodes, Least(P) PROVE Least(P)'
  BY <1>1, <1>4 DEF Least, LeftPath
<1>5. Found' BY <1>1 DEF OrderInv, Found
<1> QED BY <1>1, <1>2, <1>3, <1>4, <1>5 DEF OrderInv

LEMMA OrderStep == OrderInv /\ [Next]_vars => OrderInv' /\ [Members!Next]_members
<1> SUFFICES ASSUME OrderInv, [Next]_vars PROVE OrderInv' /\ [Members!Next]_members
  OBVIOUS
<1>1. CASE Turn
  <2>1. CASE InsertLink BY <2>1, OrderInsertLink DEF Members!Next
  <2>2. CASE EraseSplice BY <2>2, OrderEraseSplice DEF Members!Next
  <2>3. CASE ~InsertLink /\ ~EraseSplice
    BY <1>1, <2>3, OrderDescend, OrderReturns, OrderColors, OrderSearchEnd, OrderSuccessor
       DEF Turn
  <2> QED BY <2>1, <2>2, <2>3
<1>2. CASE Caller
  <2>1. CASE Erase BY <2>1, OrderErase DEF Members!Next
  <2>2. CASE \E n \in Nodes : Replace(n) BY <2>2, OrderReplace DEF Members!Next
  <2>3. CASE ~Erase /\ ~\E n \in Nodes : Replace(n)
    BY <1>2, <2>3, OrderReturns, OrderSuccessor, OrderCalls DEF Caller
  <2> QED BY <2>1, <2>2, <2>3
<1>3. CASE UNCHANGED vars BY <1>3, OrderStutter
<1> QED BY <1>1, <1>2, <1>3 DEF Next

LEMMA OrderAlways == Spec => []OrderInv
<1>1. OrderInv /\ [Next]_vars => OrderInv' BY OrderStep
<1> QED BY <1>1, OrderInit, PTL DEF Spec

\* A search finds a node with the key exactly when the tree has one.
THEOREM FoundHolds == Spec => []Found
<1>1. OrderInv => Found BY DEF OrderInv
<1> QED BY <1>1, OrderAlways, PTL

\* The members are an ordered set: a node is inserted only where none has its
\* key, one is erased, or one takes the place of another with its key.
THEOREM MembersOrderedSet == Spec => Members!Spec
<1>1. Init => Members!Init BY DEF Init, Members!Init
<1>2. OrderInv /\ [Next]_vars => [Members!Next]_members BY OrderStep
<1> QED BY <1>1, <1>2, OrderAlways, PTL DEF Spec, Members!Spec

-----------------------------------------------------------------------------
(* What a recursion over levels computes *)

LEMMA NatSet ==
  ASSUME NEW S, 0 \in S, \A n \in Nat : n \in S => n+1 \in S
  PROVE  Nat \subseteq S
<1> DEFINE Less == {x \in Nat \X Nat : x[1] < x[2]}
<1> SUFFICES ASSUME Nat \ S # {} PROVE FALSE
  OBVIOUS
<1>1. IsWellFoundedOn(Less, Nat) BY NatLessThanWellFounded DEF OpToRel
<1>2. PICK x \in Nat \ S : \A y \in Nat \ S : ~(<<y, x>> \in Less) BY <1>1, WFMin
<1>3. \A y \in Nat \ S : ~(y < x) BY <1>2
<1>4. x # 0 OBVIOUS
<1>5. x-1 \in S BY <1>3, <1>4
<1>6. (x-1)+1 \in S BY <1>4, <1>5
<1> QED BY <1>6

\* A value, and what each step makes of it, level by level.
Climbs(f, V, e, step, top) ==
  f \in [0..top -> V] /\ f[0] = e /\ \A d \in 1..top : f[d] = step[f[d-1]]

LEMMA Levels ==
  ASSUME NEW V, NEW e \in V, NEW step \in [V -> V], NEW top \in Nat
  PROVE  \E f : Climbs(f, V, e, step, top)
<1> DEFINE Fits(f, n) == f[0] = e /\ \A d \in 1..n : f[d] = step[f[d-1]]
           S == {n \in Nat : \E f \in [0..n -> V] : Fits(f, n)}
<1>1. 0 \in S
  <2> DEFINE f == [x \in 0..0 |-> e]
  <2>1. f \in [0..0 -> V] /\ Fits(f, 0) OBVIOUS
  <2> QED BY <2>1
<1>2. ASSUME NEW n \in Nat, n \in S PROVE n+1 \in S
  <2>1. PICK f \in [0..n -> V] : Fits(f, n) BY <1>2
  <2> DEFINE g == [x \in 0..n+1 |-> IF x = n+1 THEN step[f[n]] ELSE f[x]]
  <2>2. g \in [0..n+1 -> V]
    <3>1. f[n] \in V BY <2>1
    <3> QED BY <3>1
  <2>3. Fits(g, n+1) BY <2>1
  <2> HIDE DEF g, Fits
  <2> QED BY <2>2, <2>3
<1> HIDE DEF S
<1>3. top \in S BY <1>1, <1>2, NatSet
<1> QED BY <1>3 DEF S, Climbs

LEMMA NodesCounted == Cardinality(Nodes) \in Nat
BY ConstantsAssumption, FS_CardinalityType

-----------------------------------------------------------------------------
(* The nodes from left to right *)

Walks(walk) ==
  walk = [d \in 0..Cardinality(Nodes) |-> [p \in Pointer |->
            IF d = 0 \/ p = NULL THEN <<>>
            ELSE walk[d-1][t.child["left"][p]] \o <<p>> \o walk[d-1][t.child["right"][p]]]]

LEMMA WalkExists ==
  ASSUME t \in Tree
  PROVE  \E w : Walks(w)
<1> DEFINE V == [Pointer -> Seq(Nodes)]
           Around1(e) == [p \in Pointer |->
                            IF p = NULL THEN <<>>
                            ELSE e[t.child["left"][p]] \o <<p>> \o e[t.child["right"][p]]]
           step == [e \in V |-> Around1(e)]
           none == [p \in Pointer |-> <<>>]
           C == Cardinality(Nodes)
<1>1. \A p \in Pointer : p # NULL =>
        /\ t.child["left"][p] \in Pointer /\ t.child["right"][p] \in Pointer /\ p \in Nodes
  BY DEF Tree, Sides, Pointer
<1>2. step \in [V -> V] BY <1>1
<1>3. none \in V OBVIOUS
<1> HIDE DEF V, step, none
<1>4. PICK f : Climbs(f, V, none, step, C) BY <1>2, <1>3, NodesCounted, Levels
<1>5. ASSUME NEW d \in 0..C
      PROVE  f[d] = [p \in Pointer |->
                       IF d = 0 \/ p = NULL THEN <<>>
                       ELSE f[d-1][t.child["left"][p]] \o <<p>> \o f[d-1][t.child["right"][p]]]
  <2>1. CASE d = 0 BY <1>4, <2>1 DEF none, Climbs
  <2>2. CASE d # 0
    <3>1. d \in 1..C /\ d-1 \in 0..C BY <2>2, NodesCounted
    <3>2. f[d] = Around1(f[d-1]) BY <1>4, <3>1 DEF step, Climbs
    <3> QED BY <2>2, <3>2
  <2> QED BY <2>1, <2>2
<1>6. f = [d \in 0..C |-> f[d]] BY <1>4 DEF Climbs
<1>7. Walks(f) BY <1>5, <1>6 DEF Walks
<1> QED BY <1>7

LEMMA WalkSteps ==
  ASSUME NEW w, Walks(w), NEW d \in 0..Cardinality(Nodes)
  PROVE  /\ \A p \in Pointer : d = 0 => w[d][p] = <<>>
         /\ w[d][NULL] = <<>>
         /\ d # 0 => /\ d-1 \in 0..Cardinality(Nodes)
                     /\ \A p \in Nodes :
                          w[d][p] = w[d-1][t.child["left"][p]] \o <<p>>
                                                     \o w[d-1][t.child["right"][p]]
<1>1. w[d] = [p \in Pointer |->
                IF d = 0 \/ p = NULL THEN <<>>
                ELSE w[d-1][t.child["left"][p]] \o <<p>> \o w[d-1][t.child["right"][p]]]
  BY DEF Walks
<1>2. NULL \notin Nodes /\ NULL \in Pointer /\ Nodes \subseteq Pointer
  BY ConstantsAssumption DEF Pointer
<1>3. d # 0 => d-1 \in 0..Cardinality(Nodes) BY NodesCounted
<1> QED BY <1>1, <1>2, <1>3

LEMMA InOrderWalk ==
  ASSUME t \in Tree
  PROVE  \E w : Walks(w) /\ InOrder = w[Cardinality(Nodes)][t.root]
<1>1. InOrder = (CHOOSE w : Walks(w))[Cardinality(Nodes)][t.root] BY DEF InOrder, Walks
<1>2. Walks(CHOOSE w : Walks(w)) BY WalkExists
<1> QED BY <1>1, <1>2

\* What is in three sequences one after the other.
LEMMA Concat ==
  ASSUME NEW S, NEW a \in Seq(S), NEW p \in S, NEW b \in Seq(S)
  PROVE  LET q == a \o <<p>> \o b
         IN  /\ q \in Seq(S) /\ Len(q) = Len(a) + 1 + Len(b)
             /\ \A i \in 1..Len(q) :
                  q[i] = IF i <= Len(a) THEN a[i]
                         ELSE IF i = Len(a) + 1 THEN p ELSE b[i - Len(a) - 1]
  OBVIOUS

\* A walk of members whose keys rise and are within K.
Rises(q, K) ==
  /\ q \in Seq(members)
  /\ \A i \in 1..Len(q) : Key[q[i]] \in K
  /\ \A i, j \in 1..Len(q) : i < j => Key[q[i]] < Key[q[j]]

LEMMA WalkRises ==
  ASSUME LinkInv, NEW B, Bounds(t, members, B), NEW w, Walks(w),
         NEW d \in 0..Cardinality(Nodes)
  PROVE  \A p \in members : Rises(w[d][p], B[p])
<1> DEFINE C == Cardinality(Nodes)
           S == {n \in Nat : n \in 0..C => \A p \in members : Rises(w[n][p], B[p])}
<1>1. /\ members \subseteq Nodes /\ NULL \notin members
      /\ \A n \in members, s \in Sides : t.child[s][n] \in members \cup {NULL}
      /\ "left" \in Sides /\ "right" \in Sides
      /\ Nodes \subseteq Pointer /\ Key \in [Nodes -> Nat]
  BY Around, ConstantsAssumption DEF LinkInv, Sides, Pointer
<1>2. /\ \A n \in members : Key[n] \in B[n] /\ B[n] \subseteq Nat
      /\ \A n \in members, s \in Sides :
           t.child[s][n] # NULL =>
             \A k \in B[t.child[s][n]] : k \in B[n] /\ Beside(s, k, Key[n])
  BY <1>1 DEF Bounds
<1>3. 0 \in S
  <2>1. 0 \in 0..Cardinality(Nodes) BY NodesCounted
  <2>2. \A p \in members : w[0][p] = <<>>
    <3>1. \A p \in Pointer : 0 = 0 => w[0][p] = <<>> BY <2>1, WalkSteps
    <3> QED BY <1>1, <3>1
  <2>3. \A K : Rises(<<>>, K) BY DEF Rises
  <2> QED BY <2>2, <2>3
<1>4. ASSUME NEW n \in Nat, n \in S PROVE n+1 \in S
  <2> SUFFICES ASSUME n+1 \in 0..C, NEW p \in members PROVE Rises(w[n+1][p], B[p])
    OBVIOUS
  <2> DEFINE l == t.child["left"][p]
             r == t.child["right"][p]
             a == w[n][l]
             b == w[n][r]
             q == w[n+1][p]
  <2>1. n \in 0..C BY NodesCounted
  <2>2. q = a \o <<p>> \o b
    <3>1. n+1 \in 0..Cardinality(Nodes) /\ n+1 # 0 /\ p \in Nodes BY <1>1
    <3>2. q = w[(n+1)-1][l] \o <<p>> \o w[(n+1)-1][r] BY <3>1, WalkSteps
    <3>3. (n+1)-1 = n OBVIOUS
    <3> QED BY <3>2, <3>3
  <2>3. /\ a \in Seq(members)
        /\ \A i \in 1..Len(a) : Key[a[i]] \in B[p] /\ Key[a[i]] < Key[p]
        /\ \A i, j \in 1..Len(a) : i < j => Key[a[i]] < Key[a[j]]
    <3>1. CASE l = NULL
      <4>1. a = <<>> BY <2>1, <3>1, WalkSteps
      <4> QED BY <4>1
    <3>2. CASE l # NULL
      <4>1. l \in members BY <1>1, <3>2
      <4>2. Rises(a, B[l]) BY <1>4, <2>1, <4>1
      <4>3. \A k \in B[l] : k \in B[p] /\ k < Key[p] BY <1>1, <1>2, <3>2 DEF Beside
      <4> QED BY <4>2, <4>3 DEF Rises
    <3> QED BY <3>1, <3>2
  <2>4. /\ b \in Seq(members)
        /\ \A i \in 1..Len(b) : Key[b[i]] \in B[p] /\ Key[p] < Key[b[i]]
        /\ \A i, j \in 1..Len(b) : i < j => Key[b[i]] < Key[b[j]]
    <3>1. CASE r = NULL
      <4>1. b = <<>> BY <2>1, <3>1, WalkSteps
      <4> QED BY <4>1
    <3>2. CASE r # NULL
      <4>1. r \in members BY <1>1, <3>2
      <4>2. Rises(b, B[r]) BY <1>4, <2>1, <4>1
      <4>3. \A k \in B[r] : k \in B[p] /\ Key[p] < k BY <1>1, <1>2, <3>2 DEF Beside
      <4> QED BY <4>2, <4>3 DEF Rises
    <3> QED BY <3>1, <3>2
  <2> HIDE DEF a, b, q, l, r
  <2>5. /\ q \in Seq(members) /\ Len(q) = Len(a) + 1 + Len(b)
        /\ \A i \in 1..Len(q) :
             q[i] = IF i <= Len(a) THEN a[i]
                    ELSE IF i = Len(a) + 1 THEN p ELSE b[i - Len(a) - 1]
    BY <2>2, <2>3, <2>4, Concat
  <2>6. Len(a) \in Nat /\ Len(b) \in Nat BY <2>3, <2>4
  <2>7. ASSUME NEW i \in 1..Len(q) PROVE Key[q[i]] \in B[p]
    <3>1. CASE i <= Len(a) BY <2>3, <2>5, <2>6, <3>1
    <3>2. CASE i = Len(a) + 1 BY <1>2, <2>5, <2>6, <3>2
    <3>3. CASE i > Len(a) + 1
      <4>1. q[i] = b[i - Len(a) - 1] /\ i - Len(a) - 1 \in 1..Len(b) BY <2>5, <2>6, <3>3
      <4> QED BY <2>4, <4>1
    <3> QED BY <2>6, <3>1, <3>2, <3>3
  <2>8. ASSUME NEW i \in 1..Len(q), NEW j \in 1..Len(q), i < j PROVE Key[q[i]] < Key[q[j]]
    <3>1. /\ \A x \in 1..Len(a) : Key[a[x]] \in Nat
          /\ \A x \in 1..Len(b) : Key[b[x]] \in Nat
          /\ Key[p] \in Nat
      BY <1>1, <2>3, <2>4
    <3>2. CASE j <= Len(a)
      <4>1. /\ q[i] = a[i] /\ q[j] = a[j] /\ i \in 1..Len(a) /\ j \in 1..Len(a)
        BY <2>5, <2>6, <2>8, <3>2
      <4> QED BY <2>3, <2>8, <4>1
    <3>3. CASE j = Len(a) + 1 BY <2>3, <2>5, <2>6, <2>8, <3>3
    <3>4. CASE j > Len(a) + 1
      <4>1. q[j] = b[j - Len(a) - 1] /\ j - Len(a) - 1 \in 1..Len(b) BY <2>5, <2>6, <3>4
      <4>2. CASE i <= Len(a)
        <5>1. q[i] = a[i] /\ i \in 1..Len(a) BY <2>5, <2>6, <4>2
        <5>2. Key[a[i]] < Key[p] /\ Key[p] < Key[q[j]] BY <2>3, <2>4, <4>1, <5>1
        <5>3. Key[a[i]] \in Nat /\ Key[q[j]] \in Nat BY <3>1, <4>1, <5>1
        <5> QED BY <3>1, <5>1, <5>2, <5>3
      <4>3. CASE i = Len(a) + 1 BY <2>4, <2>5, <2>6, <4>1, <4>3
      <4>4. CASE i > Len(a) + 1
        <5>1. q[i] = b[i - Len(a) - 1] /\ i - Len(a) - 1 \in 1..Len(b) BY <2>5, <2>6, <4>4
        <5>2. i - Len(a) - 1 < j - Len(a) - 1 BY <2>6, <2>8
        <5> QED BY <2>4, <4>1, <5>1, <5>2
      <4> QED BY <2>6, <4>2, <4>3, <4>4
    <3> QED BY <2>6, <3>2, <3>3, <3>4
  <2> QED BY <2>5, <2>7, <2>8 DEF Rises, q
<1> HIDE DEF S
<1>5. d \in S BY <1>3, <1>4, NatSet, NodesCounted
<1> QED BY <1>5 DEF S

\* q passes x.
Holds(q, x) == \E i \in 1..Len(q) : q[i] = x

LEMMA WalkHolds ==
  ASSUME LinkInv, Sorted(t, members), NEW w, Walks(w), NEW d \in 0..Cardinality(Nodes)
  PROVE  /\ \A p \in members \cup {NULL} : w[d][p] \in Seq(members)
         /\ d # 0 =>
              /\ d-1 \in 0..Cardinality(Nodes)
              /\ \A p \in members : \A x :
                   Holds(w[d][p], x) <=> \/ x = p
                                         \/ \E s \in Sides : Holds(w[d-1][t.child[s][p]], x)
<1>1. /\ members \subseteq Nodes
      /\ \A n \in members, s \in Sides : t.child[s][n] \in members \cup {NULL}
      /\ "left" \in Sides /\ "right" \in Sides
      /\ \A s \in Sides : s = "left" \/ s = "right"
  BY Around DEF LinkInv, Sides
<1>2. ASSUME NEW n \in 0..Cardinality(Nodes), NEW p \in members \cup {NULL}
      PROVE  w[n][p] \in Seq(members)
  <2>1. CASE p = NULL
    <3>1. w[n][NULL] = <<>> BY WalkSteps
    <3> QED BY <2>1, <3>1
  <2>2. CASE p \in members
    <3>1. PICK B : Bounds(t, members, B) BY DEF Sorted
    <3>2. Rises(w[n][p], B[p]) BY <2>2, <3>1, WalkRises
    <3> QED BY <3>2 DEF Rises
  <2> QED BY <2>1, <2>2
<1>3. ASSUME d # 0, NEW p \in members, NEW x
      PROVE  /\ d-1 \in 0..Cardinality(Nodes)
             /\ Holds(w[d][p], x) <=> \/ x = p
                                      \/ \E s \in Sides : Holds(w[d-1][t.child[s][p]], x)
  <2> DEFINE a == w[d-1][t.child["left"][p]]
             b == w[d-1][t.child["right"][p]]
             q == w[d][p]
  <2>1. d-1 \in 0..Cardinality(Nodes) /\ q = a \o <<p>> \o b BY <1>1, <1>3, WalkSteps
  <2>2. a \in Seq(members) /\ b \in Seq(members) BY <1>1, <1>2, <2>1
  <2>3. (\E s \in Sides : Holds(w[d-1][t.child[s][p]], x)) <=> Holds(a, x) \/ Holds(b, x)
    BY <1>1
  <2> HIDE DEF a, b, q
  <2>4. /\ q \in Seq(members) /\ Len(q) = Len(a) + 1 + Len(b)
        /\ \A i \in 1..Len(q) :
             q[i] = IF i <= Len(a) THEN a[i]
                    ELSE IF i = Len(a) + 1 THEN p ELSE b[i - Len(a) - 1]
    BY <2>1, <2>2, Concat
  <2>5. Len(a) \in Nat /\ Len(b) \in Nat BY <2>2
  <2>6. Holds(q, x) => x = p \/ Holds(a, x) \/ Holds(b, x)
    <3> SUFFICES ASSUME NEW i \in 1..Len(q), q[i] = x PROVE x = p \/ Holds(a, x) \/ Holds(b, x)
      BY DEF Holds
    <3>1. CASE i <= Len(a) BY <2>4, <2>5, <3>1 DEF Holds
    <3>2. CASE i = Len(a) + 1 BY <2>4, <2>5, <3>2
    <3>3. CASE i > Len(a) + 1
      <4>1. i - Len(a) - 1 \in 1..Len(b) /\ b[i - Len(a) - 1] = x BY <2>4, <2>5, <3>3
      <4> QED BY <4>1 DEF Holds
    <3> QED BY <2>5, <3>1, <3>2, <3>3
  <2>7. x = p => Holds(q, x)
    <3>1. Len(a) + 1 \in 1..Len(q) /\ q[Len(a) + 1] = p BY <2>4, <2>5
    <3> QED BY <3>1 DEF Holds
  <2>8. Holds(a, x) => Holds(q, x)
    <3> SUFFICES ASSUME NEW i \in 1..Len(a), a[i] = x PROVE Holds(q, x) BY DEF Holds
    <3>1. i \in 1..Len(q) /\ q[i] = x BY <2>4, <2>5
    <3> QED BY <3>1 DEF Holds
  <2>9. Holds(b, x) => Holds(q, x)
    <3> SUFFICES ASSUME NEW i \in 1..Len(b), b[i] = x PROVE Holds(q, x) BY DEF Holds
    <3>1. Len(a) + 1 + i \in 1..Len(q) /\ (Len(a) + 1 + i) - Len(a) - 1 = i
      BY <2>4, <2>5
    <3>2. q[Len(a) + 1 + i] = x BY <2>4, <2>5, <3>1
    <3> QED BY <3>1, <3>2 DEF Holds
  <2> QED BY <2>1, <2>3, <2>6, <2>7, <2>8, <2>9 DEF q
<1>4. \A p \in members \cup {NULL} : w[d][p] \in Seq(members) BY <1>2
<1>5. d # 0 => d-1 \in 0..Cardinality(Nodes) BY NodesCounted
<1> QED BY <1>3, <1>4, <1>5

\* A deeper walk passes no fewer nodes.
LEMMA WalkGrows ==
  ASSUME LinkInv, Sorted(t, members), NEW w, Walks(w), NEW d \in Nat,
         d+1 \in 0..Cardinality(Nodes), NEW p \in members \cup {NULL}, NEW x,
         Holds(w[d][p], x)
  PROVE  Holds(w[d+1][p], x)
<1> DEFINE C == Cardinality(Nodes)
           S == {n \in Nat : n+1 \in 0..C =>
                   \A y \in members \cup {NULL} : Holds(w[n][y], x) => Holds(w[n+1][y], x)}
<1>1. \A n \in members, s \in Sides : t.child[s][n] \in members \cup {NULL}
  BY Around DEF LinkInv
<1>2. \A n \in 0..C : w[n][NULL] = <<>> BY WalkSteps
<1>3. ~Holds(<<>>, x) BY DEF Holds
<1>4. 0 \in S
  <2>1. members \cup {NULL} \subseteq Pointer BY DEF LinkInv, Good, Pointer
  <2>2. 0 \in 0..C BY NodesCounted
  <2>3. \A y \in Pointer : 0 = 0 => w[0][y] = <<>> BY <2>2, WalkSteps
  <2> QED BY <1>3, <2>1, <2>3
<1>5. ASSUME NEW n \in Nat, n \in S PROVE n+1 \in S
  <2> SUFFICES ASSUME (n+1)+1 \in 0..C, NEW y \in members \cup {NULL}, Holds(w[n+1][y], x)
               PROVE  Holds(w[(n+1)+1][y], x)
    OBVIOUS
  <2>1. n+1 \in 0..C /\ n+1 # 0 /\ (n+1)-1 = n /\ (n+1)+1 # 0 /\ ((n+1)+1)-1 = n+1
    BY NodesCounted
  <2>2. y # NULL BY <1>2, <1>3, <2>1
  <2>3. y \in members BY <2>2
  <2>4. x = y \/ \E s \in Sides : Holds(w[(n+1)-1][t.child[s][y]], x)
    BY <2>1, <2>3, WalkHolds
  <2>5. x = y \/ \E s \in Sides : Holds(w[((n+1)+1)-1][t.child[s][y]], x)
    BY <1>1, <1>5, <2>1, <2>3, <2>4
  <2>6. (n+1)+1 \in 0..Cardinality(Nodes) OBVIOUS
  <2> QED BY <2>1, <2>3, <2>5, <2>6, WalkHolds
<1> HIDE DEF S
<1>6. d \in S BY <1>4, <1>5, NatSet
<1> QED BY <1>6 DEF S

\* The nodes of Y lead up to y, the top of them, and a walk from y that is as
\* deep as they are many passes x.
Leads(w, x, Y, y) ==
  /\ Y \subseteq members /\ y \in Y
  /\ \A u \in Y \ {y} : t.parent[u] \in Y
  /\ Holds(w[Cardinality(Y)][y], x)

LEMMA WalkFinds ==
  ASSUME LinkInv, Sorted(t, members), NEW w, Walks(w), NEW x \in members
  PROVE  Holds(w[Cardinality(Nodes)][t.root], x)
<1> DEFINE C == Cardinality(Nodes)
           Reach == \E d \in 0..C : Holds(w[d][t.root], x)
           Chain(n) == \E Y \in SUBSET members, y \in members : Cardinality(Y) = n /\ Leads(w, x, Y, y)
           S == {n \in Nat : n+1 \in 0..C => Reach \/ Chain(n+1)}
<1>1. /\ members \subseteq Nodes /\ NULL \notin members /\ IsFiniteSet(Nodes)
      /\ t.root \in members \cup {NULL}
      /\ \A n \in members : t.parent[n] \in members \cup {NULL} /\ Hangs(t, n)
      /\ Rooted(t, members)
  BY Around, ConstantsAssumption DEF LinkInv, Good
<1>2. /\ C \in Nat /\ \A Y \in SUBSET members : IsFiniteSet(Y) /\ Cardinality(Y) \in Nat
                                                /\ Cardinality(Y) <= C
      /\ \A Y \in SUBSET members : Cardinality(Y) = C => Y = Nodes
  BY <1>1, FS_Subset, FS_CardinalityType
<1>3. C > 0
  <2>1. Cardinality({x}) = 1 /\ {x} \in SUBSET members BY FS_Singleton
  <2> QED BY <1>2, <2>1
<1>4. 0 \in S
  <2>1. Cardinality({x}) = 1 BY FS_Singleton
  <2>2. 1 \in 0..Cardinality(Nodes) /\ 1 # 0 BY <1>2, <1>3
  <2>3. Holds(w[1][x], x) BY <2>2, WalkHolds
  <2>4. Leads(w, x, {x}, x) BY <2>1, <2>3 DEF Leads
  <2>5. Chain(0+1) BY <2>1, <2>4
  <2> QED BY <2>5
<1>5. \A n \in 1..C : Chain(n) => Reach \/ (n+1 \in 0..C /\ Chain(n+1))
  <2> SUFFICES ASSUME NEW n \in 1..C, NEW Y \in SUBSET members, NEW y \in members,
                      Cardinality(Y) = n, Leads(w, x, Y, y)
               PROVE  Reach \/ (n+1 \in 0..C /\ Chain(n+1))
    OBVIOUS
  <2>1. /\ y \in Y /\ \A u \in Y \ {y} : t.parent[u] \in Y
        /\ Holds(w[n][y], x)
    BY DEF Leads
  <2>2. t.parent[y] \notin Y BY <1>1, <2>1 DEF Rooted
  <2>3. CASE t.parent[y] = NULL
    <3>1. t.root = y BY <1>1, <2>3 DEF Hangs
    <3> QED BY <2>1, <3>1
  <2>4. CASE t.parent[y] # NULL
    <3> DEFINE z == t.parent[y]
               Z == Y \cup {z}
    <3>1. z \in members /\ z \notin Y BY <1>1, <2>2, <2>4
    <3>2. PICK s \in Sides : t.child[s][z] = y BY <1>1, <2>4 DEF Hangs
    <3>3. IsFiniteSet(Y) BY <1>2
    <3>4. Cardinality(Z) = n+1 BY <3>1, <3>3, FS_AddElement
    <3>5. Z \in SUBSET members BY <3>1
    <3>6. n+1 \in 0..Cardinality(Nodes) /\ n+1 # 0 /\ (n+1)-1 = n BY <1>2, <3>4, <3>5
    <3>7. Holds(w[(n+1)-1][t.child[s][z]], x) BY <2>1, <3>2, <3>6
    <3>8. Holds(w[n+1][z], x) BY <3>1, <3>6, <3>7, WalkHolds
    <3> HIDE DEF z
    <3>9. Leads(w, x, Z, z) BY <2>1, <3>1, <3>4, <3>5, <3>8 DEF Leads, z
    <3>10. Chain(n+1) BY <3>1, <3>4, <3>5, <3>9
    <3> QED BY <3>6, <3>10
  <2> QED BY <2>3, <2>4
<1> HIDE DEF Reach, Chain
<1>6. ASSUME NEW n \in Nat, n \in S PROVE n+1 \in S
  <2> SUFFICES ASSUME (n+1)+1 \in 0..C PROVE Reach \/ Chain((n+1)+1)
    OBVIOUS
  <2>1. n+1 \in 0..C /\ n+1 \in 1..C BY <1>2
  <2> QED BY <1>5, <1>6, <2>1
<1>7. Reach
  <2> HIDE DEF S
  <2>1. C-1 \in S BY <1>2, <1>3, <1>4, <1>6, NatSet
  <2>2. Reach \/ Chain((C-1)+1) BY <1>2, <1>3, <2>1 DEF S
  <2>3. (C-1)+1 = C /\ C \in 1..C /\ ~(C+1 \in 0..C) BY <1>2, <1>3
  <2> QED BY <1>5, <2>2, <2>3
<1>8. PICK d \in 0..C : Holds(w[d][t.root], x) BY <1>7 DEF Reach
<1> DEFINE U == {n \in Nat : d+n <= C => Holds(w[d+n][t.root], x)}
<1>9. 0 \in U BY <1>8
<1>10. ASSUME NEW n \in Nat, n \in U PROVE n+1 \in U
  <2> SUFFICES ASSUME d+(n+1) <= C PROVE Holds(w[d+(n+1)][t.root], x)
    OBVIOUS
  <2>1. d+n \in Nat /\ (d+n)+1 \in 0..Cardinality(Nodes) /\ d+(n+1) = (d+n)+1
    BY <1>2
  <2>2. Holds(w[d+n][t.root], x) BY <1>2, <1>10
  <2>3. Holds(w[(d+n)+1][t.root], x) BY <1>1, <2>1, <2>2, WalkGrows
  <2> QED BY <2>1, <2>3
<1> HIDE DEF U
<1>11. C-d \in U BY <1>2, <1>9, <1>10, NatSet
<1> QED BY <1>2, <1>11 DEF U

\* The walk from the root passes all the members, as their keys rise.
LEMMA InOrderRises ==
  ASSUME OrderInv
  PROVE  /\ InOrder \in Seq(members) /\ Range(InOrder) = members
         /\ \A i, j \in 1..Len(InOrder) : i < j => Key[InOrder[i]] < Key[InOrder[j]]
<1> SUFFICES ASSUME LinkInv, Sorted(t, members)
             PROVE  /\ InOrder \in Seq(members) /\ Range(InOrder) = members
                    /\ \A i, j \in 1..Len(InOrder) :
                         i < j => Key[InOrder[i]] < Key[InOrder[j]]
  BY DEF OrderInv
<1>1. t \in Tree /\ t.root \in members \cup {NULL} BY Around DEF LinkInv, Good
<1>2. PICK w : Walks(w) /\ InOrder = w[Cardinality(Nodes)][t.root] BY <1>1, InOrderWalk
<1>3. PICK B : Bounds(t, members, B) BY DEF Sorted
<1>4. Cardinality(Nodes) \in 0..Cardinality(Nodes) BY NodesCounted
<1>5. InOrder \in Seq(members)
  <2>1. w[Cardinality(Nodes)][t.root] \in Seq(members) BY <1>1, <1>2, <1>4, WalkHolds
  <2> QED BY <1>2, <2>1
<1>6. \A i, j \in 1..Len(InOrder) : i < j => Key[InOrder[i]] < Key[InOrder[j]]
  <2>1. CASE t.root = NULL
    <3>1. w[Cardinality(Nodes)][NULL] = <<>> BY <1>2, <1>4, WalkSteps
    <3> QED BY <1>2, <2>1, <3>1
  <2>2. CASE t.root \in members
    <3>1. Rises(w[Cardinality(Nodes)][t.root], B[t.root])
      BY <1>2, <1>3, <1>4, <2>2, WalkRises
    <3> QED BY <1>2, <3>1 DEF Rises
  <2> QED BY <1>1, <2>1, <2>2
<1>7. \A x \in members : Holds(InOrder, x) BY <1>2, WalkFinds
<1>8. Range(InOrder) = members
  <2>1. DOMAIN InOrder = 1..Len(InOrder) BY <1>5
  <2> QED BY <1>5, <1>7, <2>1 DEF Range, Holds
<1> QED BY <1>5, <1>6, <1>8

LEMMA OrderedTree == OrderInv => Ordered /\ Reached = members
<1> SUFFICES ASSUME OrderInv PROVE Ordered /\ Reached = members
  OBVIOUS
<1>1. Len(InOrder) \in Nat BY InOrderRises
<1>2. \A i \in 1..Len(InOrder)-1 : Key[InOrder[i]] < Key[InOrder[i+1]]
  BY <1>1, InOrderRises
<1> QED BY <1>2, InOrderRises DEF Ordered, Reached

\* In every state, also between two turns, the tree leads to the members, and
\* to each once, in the order of the keys: rotations and the move of a
\* successor lose nothing, double nothing and keep the order.
THEOREM OrderedHolds == Spec => []Ordered
<1>1. OrderInv => Ordered BY OrderedTree
<1> QED BY <1>1, OrderAlways, PTL

\* A step of the code is one of the ordered set, or none, also for what the
\* tree leads to.
LEMMA SetStep == OrderInv /\ OrderInv' /\ [Members!Next]_members => [Set!Next]_Reached
<1>1. OrderInv => Reached = members BY OrderedTree
<1>2. OrderInv' => (Reached = members)' BY <1>1, PTL
<1> QED BY <1>1, <1>2
     DEF Members!Next, Members!Insert, Members!Remove, Members!Replace, Members!Keys,
         Set!Next, Set!Insert, Set!Remove, Set!Replace, Set!Keys

\* The tree implements OrderedSet, for what it leads to from its root: every
\* call of the code changes that set by one insertion, removal or replacement,
\* at one of its steps, and by nothing at the others.
THEOREM SetImplemented == Spec => SetSpec
<1>1. OrderInv /\ Init => Set!Init
  <2>1. OrderInv => Reached = members BY OrderedTree
  <2> QED BY <2>1 DEF Init, Set!Init
<1>2. OrderInv /\ OrderInv' /\ [Next]_vars => [Set!Next]_Reached BY OrderStep, SetStep
<1> QED BY <1>1, <1>2, OrderAlways, OrderInit, PTL DEF Spec, SetSpec, Set!Spec

-----------------------------------------------------------------------------
(* The nodes under a node, by their keys *)

\* What bounds say of the members.
Bounded(B) ==
  /\ LinkInv /\ Bounds(t, members, B)

LEMMA BoundedFacts ==
  ASSUME NEW B, Bounded(B)
  PROVE  /\ members \subseteq Nodes /\ NULL \notin members
         /\ t.root \in members \cup {NULL}
         /\ \A n \in members, s \in Sides :
              /\ t.child[s][n] \in members \cup {NULL}
              /\ t.child[s][n] # NULL => t.parent[t.child[s][n]] = n
         /\ \A n \in members : t.parent[n] \in members \cup {NULL}
         /\ \A n \in members : t.parent[n] = NULL => t.root = n
         /\ \A n \in members :
              t.parent[n] # NULL => \E s \in Sides : t.child[s][t.parent[n]] = n
         /\ \A S \in SUBSET members : S # {} => \E n \in S : t.parent[n] \notin S
         /\ \A n \in members : Key[n] \in Nat /\ Key[n] \in B[n] /\ B[n] \subseteq Nat
         /\ \A n \in members, s \in Sides :
              t.child[s][n] # NULL =>
                \A k \in B[t.child[s][n]] : k \in B[n] /\ Beside(s, k, Key[n])
<1>1. Good(t, members) BY DEF Bounded, LinkInv
<1> QED BY <1>1, Around, ConstantsAssumption DEF Bounded, Bounds, Good, Rooted, Hangs

\* S has x and, of all it has, the parents.
ClosedUp(S, x) == x \in S /\ \A z \in S : t.parent[z] # NULL => t.parent[z] \in S

\* The members under which x is.
Above(x) == {z \in members : \A S \in SUBSET members : ClosedUp(S, x) => z \in S}

LEMMA AboveUp ==
  ASSUME NEW B, Bounded(B), NEW x \in members
  PROVE  /\ ClosedUp(Above(x), x) /\ t.root \in Above(x)
         /\ \A q \in Above(x) : q # x => \E y \in Above(x) : t.parent[y] = q
<1> DEFINE A == Above(x)
<1>1. A = {z \in members : \A S \in SUBSET members : ClosedUp(S, x) => z \in S}
  BY DEF Above
<1> HIDE DEF A
<1>2. A \in SUBSET members BY <1>1
<1>3. ClosedUp(A, x)
  <2>1. x \in A BY <1>1 DEF ClosedUp
  <2>2. ASSUME NEW z \in A, t.parent[z] # NULL PROVE t.parent[z] \in A
    <3>1. t.parent[z] \in members BY <1>2, <2>2, BoundedFacts
    <3>2. ASSUME NEW S \in SUBSET members, ClosedUp(S, x) PROVE t.parent[z] \in S
      <4>1. z \in S BY <1>1, <3>2
      <4> QED BY <2>2, <3>2, <4>1 DEF ClosedUp
    <3> QED BY <1>1, <3>1, <3>2
  <2> QED BY <2>1, <2>2 DEF ClosedUp
<1>4. ASSUME NEW q \in A, q # x PROVE \E y \in A : t.parent[y] = q
  <2>1. SUFFICES ASSUME \A y \in A : t.parent[y] # q PROVE FALSE OBVIOUS
  <2>2. ClosedUp(A \ {q}, x) BY <1>3, <1>4, <2>1 DEF ClosedUp
  <2>3. (A \ {q}) \in SUBSET members BY <1>2
  <2>4. q \in A \ {q} BY <1>1, <1>4, <2>2, <2>3
  <2> QED BY <2>4
<1>5. t.root \in A
  <2>1. A # {} BY <1>3 DEF ClosedUp
  <2>2. PICK n \in A : t.parent[n] \notin A BY <1>2, <2>1, BoundedFacts
  <2>3. t.parent[n] = NULL BY <1>3, <2>2 DEF ClosedUp
  <2> QED BY <1>2, <2>2, <2>3, BoundedFacts
<1> QED BY <1>3, <1>4, <1>5 DEF A

\* They are those among whose keys its own may be.
LEMMA AboveIs ==
  ASSUME NEW B, Bounded(B), NEW x \in members
  PROVE  Above(x) = {z \in members : Key[x] \in B[z]}
<1> DEFINE A == Above(x)
           U == {z \in members : Key[x] \in B[z]}
<1>1. ClosedUp(U, x)
  <2>1. x \in U BY BoundedFacts
  <2>2. ASSUME NEW z \in U, t.parent[z] # NULL PROVE t.parent[z] \in U
    <3>1. PICK s \in Sides : t.child[s][t.parent[z]] = z BY <2>2, BoundedFacts
    <3>2. t.parent[z] \in members /\ z # NULL BY <2>2, BoundedFacts
    <3> QED BY <2>2, <3>1, <3>2, BoundedFacts
  <2> QED BY <2>1, <2>2 DEF ClosedUp
<1>2. A \subseteq U
  <2>1. U \in SUBSET members OBVIOUS
  <2> QED BY <1>1, <2>1 DEF Above
<1>3. /\ ClosedUp(A, x) /\ t.root \in A
      /\ \A q \in A : q # x => \E y \in A : t.parent[y] = q
  BY AboveUp
<1> HIDE DEF A
<1>4. U \subseteq A
  <2>1. SUFFICES ASSUME U \ A # {} PROVE FALSE OBVIOUS
  <2>2. PICK n \in U \ A : t.parent[n] \notin U \ A
    <3>1. (U \ A) \in SUBSET members OBVIOUS
    <3> HIDE DEF U
    <3> QED BY <2>1, <3>1, BoundedFacts
  <2> DEFINE q == t.parent[n]
  <2>3. n \in members /\ Key[x] \in B[n] BY <2>2
  <2>4. q # NULL BY <1>3, <2>2, <2>3, BoundedFacts
  <2>5. q \in A BY <1>1, <2>2, <2>4 DEF ClosedUp
  <2>6. q \in members BY <1>2, <2>5
  <2>7. PICK s \in Sides : t.child[s][q] = n BY <2>3, <2>4, BoundedFacts
  <2>8. n # NULL BY <2>3, BoundedFacts
  <2>9. Beside(s, Key[x], Key[q]) BY <2>3, <2>6, <2>7, <2>8, BoundedFacts
  <2>10. Key[x] \in Nat /\ Key[q] \in Nat BY <2>6, BoundedFacts
  <2>11. q # x BY <2>9, <2>10, BesideOther
  <2>12. PICK y \in A : t.parent[y] = q BY <1>3, <2>5, <2>11
  <2>13. y \in members /\ Key[x] \in B[y] /\ y # NULL BY <1>2, BoundedFacts
  <2>14. PICK d \in Sides : t.child[d][q] = y BY <2>4, <2>12, <2>13, BoundedFacts
  <2>15. Beside(d, Key[x], Key[q]) BY <2>6, <2>13, <2>14, BoundedFacts
  <2>16. d # s BY <2>2, <2>7, <2>12, <2>14
  <2>17. d = Other(s) BY <2>16 DEF Sides, Other
  <2> HIDE DEF q, U
  <2> QED BY <2>9, <2>10, <2>15, <2>17, BesideOther
<1> QED BY <1>2, <1>4 DEF A

\* From a node above x the way leads on by the side where the key belongs.
LEMMA Down ==
  ASSUME NEW B, Bounded(B), NEW x \in members
  PROVE  /\ t.root \in members /\ Key[x] \in B[t.root]
         /\ \A q \in members : Key[x] \in B[q] /\ q # x =>
              \E s \in Sides : /\ t.child[s][q] \in members
                               /\ Key[x] \in B[t.child[s][q]]
<1>1. \A z : z \in Above(x) <=> z \in members /\ Key[x] \in B[z] BY AboveIs
<1>2. ASSUME NEW q \in members, Key[x] \in B[q], q # x
      PROVE  \E s \in Sides : t.child[s][q] \in members /\ Key[x] \in B[t.child[s][q]]
  <2>1. PICK y \in Above(x) : t.parent[y] = q BY <1>1, <1>2, AboveUp
  <2>2. y \in members /\ Key[x] \in B[y] BY <1>1
  <2>3. q # NULL BY BoundedFacts
  <2>4. PICK s \in Sides : t.child[s][q] = y BY <2>1, <2>2, <2>3, BoundedFacts
  <2> QED BY <2>2, <2>4
<1> QED BY <1>1, <1>2, AboveUp

\* And what is above x, but not x, is above its parent; which is not under x.
LEMMA ParentUnder ==
  ASSUME NEW B, Bounded(B), NEW x \in members, NEW q \in members
  PROVE  /\ Key[x] \in B[q] /\ q # x =>
              t.parent[x] \in members /\ Key[t.parent[x]] \in B[q]
         /\ t.parent[x] # NULL => Key[t.parent[x]] \notin B[x]
<1> DEFINE y == t.parent[x]
<1>1. y # NULL => y \in members BY BoundedFacts
<1>2. ASSUME Key[x] \in B[q], q # x PROVE y \in members /\ Key[y] \in B[q]
  <2>1. \A z : z \in Above(x) <=> z \in members /\ Key[x] \in B[z] BY AboveIs
  <2>2. q \in Above(x) BY <1>2, <2>1
  <2>3. \A S \in SUBSET members : ClosedUp(S, x) => q \in S BY <2>2 DEF Above
  <2>4. CASE y = NULL
    <3>1. ClosedUp({x}, x) BY <2>4 DEF ClosedUp
    <3>2. {x} \in SUBSET members OBVIOUS
    <3> QED BY <1>2, <2>3, <3>1, <3>2
  <2>5. CASE y # NULL
    <3>1. y \in members BY <1>1, <2>5
    <3> HIDE DEF y
    <3>2. Above(y) \in SUBSET members /\ ClosedUp(Above(y), y)
      <4>1. Above(y) \in SUBSET members BY DEF Above
      <4> QED BY <3>1, <4>1, AboveUp
    <3>3. ClosedUp(Above(y) \cup {x}, x) BY <3>2 DEF ClosedUp, y
    <3>4. (Above(y) \cup {x}) \in SUBSET members BY <3>2
    <3>5. q \in Above(y) BY <1>2, <2>3, <3>3, <3>4
    <3> QED BY <3>1, <3>5, AboveIs
  <2> QED BY <2>4, <2>5
<1>3. ASSUME y # NULL, Key[y] \in B[x] PROVE FALSE
  <2>1. y \in members /\ x # NULL BY <1>1, <1>3, BoundedFacts
  <2>2. PICK s \in Sides : t.child[s][y] = x BY <1>3, BoundedFacts
  <2>3. Beside(s, Key[y], Key[y]) BY <1>3, <2>1, <2>2, BoundedFacts
  <2>4. Key[y] \in Nat BY <2>1, BoundedFacts
  <2> QED BY <2>3, <2>4, BesideOther
<1> QED BY <1>2, <1>3

\* The same for a given side, and what the keys tell of it.
LEMMA DownSide ==
  ASSUME NEW B, Bounded(B), NEW x \in members, NEW q \in members, Key[x] \in B[q],
         q # x, NEW s \in Sides
  PROVE  \/ /\ t.child[s][q] \in members /\ Key[x] \in B[t.child[s][q]]
            /\ Beside(s, Key[x], Key[q])
         \/ /\ t.child[Other(s)][q] \in members /\ Key[x] \in B[t.child[Other(s)][q]]
            /\ Beside(Other(s), Key[x], Key[q])
<1>1. PICK d \in Sides : t.child[d][q] \in members /\ Key[x] \in B[t.child[d][q]]
  BY Down
<1>2. t.child[d][q] # NULL BY <1>1, BoundedFacts
<1>3. Beside(d, Key[x], Key[q]) BY <1>1, <1>2, BoundedFacts
<1>4. d = s \/ d = Other(s) BY DEF Sides, Other
<1> QED BY <1>1, <1>3, <1>4

\* A member whose key is not among those that may be under p is on one side of
\* them all.
LEMMA Apart ==
  ASSUME NEW B, Bounded(B), NEW x \in members, NEW p \in members, Key[x] \notin B[p]
  PROVE  \E s \in Sides : \A k \in B[p] : Beside(s, Key[x], k)
<1> DEFINE Clear(z) == \E s \in Sides : \A k \in B[z] : Beside(s, Key[x], k)
           S == {z \in members : Key[x] \notin B[z] /\ ~Clear(z)}
<1>1. SUFFICES ASSUME S # {} PROVE FALSE BY Clear(p)
<1>2. PICK z \in S : t.parent[z] \notin S
  <2>1. S \in SUBSET members OBVIOUS
  <2> HIDE DEF S
  <2> QED BY <1>1, <2>1, BoundedFacts
<1> DEFINE q == t.parent[z]
<1>3. z \in members /\ Key[x] \notin B[z] /\ ~Clear(z) BY <1>2
<1>4. q # NULL BY <1>3, Down, BoundedFacts
<1>5. q \in members /\ z # NULL BY <1>3, <1>4, BoundedFacts
<1>6. PICK d \in Sides : t.child[d][q] = z BY <1>3, <1>4, BoundedFacts
<1>7. \A k \in B[z] : k \in B[q] /\ Beside(d, k, Key[q]) BY <1>5, <1>6, BoundedFacts
<1>8. Key[x] \in B[q] \/ Clear(q) BY <1>2, <1>5
<1>9. /\ Key[x] \in Nat /\ Key[q] \in Nat /\ B[z] \subseteq Nat
      /\ Other(d) \in Sides /\ Other(Other(d)) = d
  BY <1>3, <1>5, BoundedFacts DEF Sides, Other
<1> HIDE DEF q
<1>10. CASE Clear(q)
  <2>1. Clear(z) BY <1>7, <1>10
  <2> QED BY <1>3, <2>1
<1>11. CASE Key[x] \in B[q] /\ q = x
  <2>1. \A k \in B[z] : Beside(Other(d), Key[x], k) BY <1>7, <1>9, <1>11, BesideOther
  <2>2. Clear(z) BY <1>9, <2>1
  <2> QED BY <1>3, <2>2
<1>12. CASE Key[x] \in B[q] /\ q # x
  <2>1. Beside(Other(d), Key[x], Key[q]) BY <1>3, <1>5, <1>6, <1>12, DownSide
  <2>2. \A k \in B[z] : Beside(Other(d), Key[q], k) BY <1>7, <1>9, BesideOther
  <2>3. \A k \in B[z] : Beside(Other(d), Key[x], k) BY <1>9, <2>1, <2>2, BesideOther
  <2>4. Clear(z) BY <1>9, <2>3
  <2> QED BY <1>3, <2>4
<1> QED BY <1>8, <1>10, <1>11, <1>12

-----------------------------------------------------------------------------
(* The walk to a neighbour *)

Furthests(go, s) ==
  go = [d \in 0..Cardinality(Nodes) |-> [q \in Pointer |->
          IF d = 0 \/ q = NULL \/ t.child[s][q] = NULL THEN q
          ELSE go[d-1][t.child[s][q]]]]

Ascends(go, s) ==
  go = [d \in 0..Cardinality(Nodes) |-> [q \in Nodes |->
          LET p == t.parent[q]
          IN  IF d = 0 \/ p = NULL \/ t.child[s][p] # q THEN p ELSE go[d-1][p]]]

LEMMA FurthestExists ==
  ASSUME t \in Tree, NEW s \in Sides
  PROVE  \E go : Furthests(go, s)
<1> DEFINE V == [Pointer -> Pointer]
           On(e) == [q \in Pointer |->
                       IF q = NULL \/ t.child[s][q] = NULL THEN q ELSE e[t.child[s][q]]]
           step == [e \in V |-> On(e)]
           none == [q \in Pointer |-> q]
           C == Cardinality(Nodes)
<1>1. \A q \in Pointer : q # NULL => t.child[s][q] \in Pointer
  BY DEF Tree, Sides, Pointer
<1>2. step \in [V -> V]
  <2> SUFFICES ASSUME NEW e \in V PROVE On(e) \in V
    OBVIOUS
  <2> QED BY <1>1
<1>3. none \in V OBVIOUS
<1> HIDE DEF V, step, none
<1>4. PICK f : Climbs(f, V, none, step, C) BY <1>2, <1>3, NodesCounted, Levels
<1>5. ASSUME NEW d \in 0..C
      PROVE  f[d] = [q \in Pointer |->
                       IF d = 0 \/ q = NULL \/ t.child[s][q] = NULL THEN q
                       ELSE f[d-1][t.child[s][q]]]
  <2>1. CASE d = 0 BY <1>4, <2>1 DEF none, Climbs
  <2>2. CASE d # 0
    <3>1. d \in 1..C /\ d-1 \in 0..C BY <2>2, NodesCounted
    <3>2. f[d-1] \in V BY <1>4, <3>1 DEF Climbs
    <3>3. f[d] = On(f[d-1]) BY <1>4, <3>1, <3>2 DEF step, Climbs
    <3> QED BY <2>2, <3>3
  <2> QED BY <2>1, <2>2
<1>6. f = [d \in 0..C |-> f[d]] BY <1>4 DEF Climbs
<1>7. Furthests(f, s) BY <1>5, <1>6 DEF Furthests
<1> QED BY <1>7

LEMMA AscendExists ==
  ASSUME t \in Tree, NEW s \in Sides
  PROVE  \E go : Ascends(go, s)
<1> DEFINE V == [Nodes -> Pointer]
           On(e) == [q \in Nodes |->
                       LET p == t.parent[q]
                       IN  IF p = NULL \/ t.child[s][p] # q THEN p ELSE e[p]]
           step == [e \in V |-> On(e)]
           none == [q \in Nodes |-> t.parent[q]]
           C == Cardinality(Nodes)
<1>1. \A q \in Nodes : t.parent[q] \in Pointer /\ (t.parent[q] # NULL => t.parent[q] \in Nodes)
  BY DEF Tree, Pointer
<1>2. step \in [V -> V]
  <2> SUFFICES ASSUME NEW e \in V PROVE On(e) \in V
    OBVIOUS
  <2> QED BY <1>1
<1>3. none \in V BY <1>1
<1> HIDE DEF V, step, none
<1>4. PICK f : Climbs(f, V, none, step, C) BY <1>2, <1>3, NodesCounted, Levels
<1>5. ASSUME NEW d \in 0..C
      PROVE  f[d] = [q \in Nodes |->
                       LET p == t.parent[q]
                       IN  IF d = 0 \/ p = NULL \/ t.child[s][p] # q THEN p
                           ELSE f[d-1][p]]
  <2>1. CASE d = 0 BY <1>4, <2>1 DEF none, Climbs
  <2>2. CASE d # 0
    <3>1. d \in 1..C /\ d-1 \in 0..C BY <2>2, NodesCounted
    <3>2. f[d-1] \in V BY <1>4, <3>1 DEF Climbs
    <3>3. f[d] = On(f[d-1]) BY <1>4, <3>1, <3>2 DEF step, Climbs
    <3> QED BY <2>2, <3>3
  <2> QED BY <2>1, <2>2
<1>6. f = [d \in 0..C |-> f[d]] BY <1>4 DEF Climbs
<1>7. Ascends(f, s) BY <1>5, <1>6 DEF Ascends
<1> QED BY <1>7

\* f is the furthest to the side s of the members with a key in K.
Outermost(s, f, K) ==
  /\ f \in members /\ Key[f] \in K
  /\ \A x \in members : Key[x] \in K => ~Beside(s, Key[x], Key[f])

\* r is the nearest to n of the members on the side s of it.
Nearest(s, n, r) ==
  /\ r \in members \cup {NULL}
  /\ r # NULL => Beside(s, Key[r], Key[n])
  /\ \A x \in members : Beside(s, Key[x], Key[n]) => r # NULL /\ ~Beside(s, Key[r], Key[x])

\* With the nodes Y above it, each of which has all that is under q on its side
\* s, what go[d] makes of q is the outermost under q, if C levels are enough.
LEMMA FurthestStep ==
  ASSUME NEW B, Bounded(B), NEW s \in Sides, NEW go, Furthests(go, s), NEW d \in Nat
  PROVE  d \in 0..Cardinality(Nodes) =>
           \A q \in members, Y \in SUBSET members :
             /\ Cardinality(Y) + d >= Cardinality(Nodes)
             /\ \A y \in Y : \A k \in B[q] : Beside(s, k, Key[y])
             => Outermost(s, go[d][q], B[q])
<1> DEFINE C == Cardinality(Nodes)
           After(q, Y) == \A y \in Y : \A k \in B[q] : Beside(s, k, Key[y])
           S == {e \in Nat : e \in 0..C =>
                   \A q \in members, Y \in SUBSET members :
                     Cardinality(Y) + e >= C /\ After(q, Y) => Outermost(s, go[e][q], B[q])}
<1>1. /\ members \subseteq Nodes /\ NULL \notin members /\ IsFiniteSet(Nodes)
      /\ \A n \in members : Key[n] \in Nat /\ Key[n] \in B[n] /\ B[n] \subseteq Nat
      /\ \A n \in members : t.child[s][n] \in members \cup {NULL}
      /\ \A n \in members :
           t.child[s][n] # NULL => \A k \in B[t.child[s][n]] : k \in B[n] /\ Beside(s, k, Key[n])
  BY BoundedFacts, ConstantsAssumption
<1>2. /\ C \in Nat /\ \A Y \in SUBSET members : IsFiniteSet(Y) /\ Cardinality(Y) \in Nat
                                                /\ Cardinality(Y) <= C
      /\ \A Y \in SUBSET members : Cardinality(Y) = C => Y = Nodes
  BY <1>1, FS_Subset, FS_CardinalityType
<1>3. ASSUME NEW q \in members, NEW Y \in SUBSET members, After(q, Y) PROVE q \notin Y
  BY <1>1, <1>3, BesideOther
<1>4. ASSUME NEW e \in 0..C, NEW q \in Pointer
      PROVE  go[e][q] = IF e = 0 \/ q = NULL \/ t.child[s][q] = NULL THEN q
                        ELSE go[e-1][t.child[s][q]]
  <2>1. go[e] = [z \in Pointer |->
                   IF e = 0 \/ z = NULL \/ t.child[s][z] = NULL THEN z
                   ELSE go[e-1][t.child[s][z]]]
    BY DEF Furthests
  <2> QED BY <2>1
<1>5. members \subseteq Pointer BY <1>1 DEF Pointer
<1> HIDE DEF C
<1>6. 0 \in S
  <2> SUFFICES ASSUME NEW q \in members, NEW Y \in SUBSET members,
                      Cardinality(Y) + 0 >= C, After(q, Y)
               PROVE  FALSE
    OBVIOUS
  <2>1. Cardinality(Y) = C BY <1>2
  <2>2. Y = Nodes BY <1>2, <2>1
  <2>3. q \notin Y BY <1>3
  <2> QED BY <1>1, <2>2, <2>3
<1>7. ASSUME NEW n \in Nat, n \in S PROVE n+1 \in S
  <2> SUFFICES ASSUME n+1 \in 0..C, NEW q \in members, NEW Y \in SUBSET members,
                      Cardinality(Y) + (n+1) >= C, After(q, Y)
               PROVE  Outermost(s, go[n+1][q], B[q])
    OBVIOUS
  <2>1. n \in 0..C /\ n+1 # 0 /\ (n+1)-1 = n BY <1>2
  <2>2. go[n+1][q] = IF t.child[s][q] = NULL THEN q ELSE go[n][t.child[s][q]]
    BY <1>1, <1>4, <1>5, <2>1
  <2>3. CASE t.child[s][q] = NULL
    <3>1. ASSUME NEW x \in members, Key[x] \in B[q] PROVE ~Beside(s, Key[x], Key[q])
      <4>1. CASE x = q BY <1>1, <4>1, BesideOther
      <4>2. CASE x # q
        <5>1. Beside(Other(s), Key[x], Key[q]) BY <1>1, <2>3, <3>1, <4>2, DownSide
        <5> QED BY <1>1, <5>1, BesideOther
      <4> QED BY <4>1, <4>2
    <3> QED BY <1>1, <2>2, <2>3, <3>1 DEF Outermost
  <2>4. CASE t.child[s][q] # NULL
    <3> DEFINE c == t.child[s][q]
               Z == Y \cup {q}
               f == go[n][c]
    <3>1. c \in members /\ \A k \in B[c] : k \in B[q] /\ Beside(s, k, Key[q])
      BY <1>1, <2>4
    <3>2. Z \in SUBSET members /\ Cardinality(Z) = Cardinality(Y) + 1
      BY <1>2, <1>3, FS_AddElement
    <3>3. After(c, Z) BY <3>1
    <3>4. Cardinality(Z) + n >= C BY <1>2, <3>2
    <3>5. Outermost(s, f, B[c]) BY <1>7, <2>1, <3>1, <3>2, <3>3, <3>4
    <3> HIDE DEF f
    <3>6. f \in members /\ Key[f] \in B[q] /\ Beside(s, Key[f], Key[q])
      BY <3>1, <3>5 DEF Outermost
    <3>7. ASSUME NEW x \in members, Key[x] \in B[q], Beside(s, Key[x], Key[f]) PROVE FALSE
      <4>1. Beside(s, Key[x], Key[q]) BY <1>1, <3>6, <3>7, BesideOther
      <4>2. x # q /\ ~Beside(Other(s), Key[x], Key[q]) BY <1>1, <4>1, BesideOther
      <4>3. Key[x] \in B[c] BY <3>7, <4>2, DownSide
      <4> QED BY <3>5, <3>7, <4>3 DEF Outermost
    <3>8. go[n+1][q] = f BY <2>2, <2>4 DEF f
    <3> QED BY <3>6, <3>7, <3>8 DEF Outermost
  <2> QED BY <2>3, <2>4
<1> HIDE DEF S
<1>8. d \in S BY <1>6, <1>7, NatSet
<1> QED BY <1>8 DEF S, C

LEMMA FurthestIs ==
  ASSUME NEW B, Bounded(B), NEW s \in Sides, NEW p \in members
  PROVE  Outermost(s, Furthest(s, p), B[p])
<1> DEFINE go == CHOOSE go : Furthests(go, s)
           C == Cardinality(Nodes)
<1>1. Furthest(s, p) = go[C][p] BY DEF Furthest, Furthests
<1>2. t \in Tree BY Around DEF Bounded, LinkInv
<1>3. Furthests(go, s) BY <1>2, FurthestExists
<1> HIDE DEF go
<1>4. C \in Nat /\ C \in 0..C BY NodesCounted
<1>5. Cardinality({}) + C >= C BY <1>4, FS_EmptySet
<1>6. {} \in SUBSET members OBVIOUS
<1>7. Outermost(s, go[C][p], B[p]) BY <1>3, <1>4, <1>5, <1>6, FurthestStep
<1> QED BY <1>1, <1>7

\* The climb from n has come by Y to q, and nothing under q is on the side s
\* of n.
Climbed(B, s, n, Y, q) ==
  /\ q \notin Y /\ \A y \in Y : t.parent[y] \in Y \cup {q}
  /\ Key[n] \in B[q]
  /\ \A x \in members : Key[x] \in B[q] => ~Beside(s, Key[x], Key[n])

\* The turn of the climb that ends it.
LEMMA AscendEnd ==
  ASSUME NEW B, Bounded(B), NEW s \in Sides, NEW n \in members, NEW q \in members,
         NEW Y, Climbed(B, s, n, Y, q),
         t.parent[q] = NULL \/ t.child[s][t.parent[q]] # q
  PROVE  Nearest(s, n, t.parent[q])
<1> DEFINE p == t.parent[q]
           o == Other(s)
<1>1. /\ p \in members \cup {NULL} /\ q # NULL /\ o \in Sides
      /\ \A x \in members : Key[x] \in Nat /\ Key[x] \in B[x] /\ B[x] \subseteq Nat
  BY BoundedFacts DEF Sides, Other
<1>2. CASE p = NULL
  <2>1. t.root = q BY <1>2, BoundedFacts
  <2>2. \A x \in members : Key[x] \in B[q] BY <2>1, Down
  <2> QED BY <1>2, <2>2 DEF Nearest, Climbed
<1>3. CASE p # NULL
  <2>1. p \in members /\ t.child[s][p] # q BY <1>1, <1>3
  <2>2. PICK d \in Sides : t.child[d][p] = q BY <1>3, BoundedFacts
  <2>3. t.child[o][p] = q BY <2>1, <2>2 DEF Sides, Other
  <2> HIDE DEF p
  <2>4. \A k \in B[q] : k \in B[p] /\ Beside(o, k, Key[p])
    BY <1>1, <2>1, <2>3, BoundedFacts
  <2>5. Key[n] \in B[p] /\ Beside(o, Key[n], Key[p]) /\ Beside(s, Key[p], Key[n])
    BY <1>1, <2>1, <2>4, BesideOther DEF Climbed
  <2>6. ASSUME NEW x \in members, Beside(s, Key[x], Key[n]), Beside(s, Key[p], Key[x])
        PROVE  FALSE
    <3>1. CASE Key[x] \in B[p]
      <4>1. x # p BY <1>1, <2>1, <2>6, BesideOther
      <4>2. ~Beside(s, Key[x], Key[p]) BY <1>1, <2>1, <2>6, BesideOther
      <4>3. Key[x] \in B[q] BY <2>1, <2>3, <3>1, <4>1, <4>2, DownSide
      <4> QED BY <2>6, <4>3 DEF Climbed
    <3>2. CASE Key[x] \notin B[p]
      <4>1. PICK e \in Sides : \A k \in B[p] : Beside(e, Key[x], k) BY <2>1, <3>2, Apart
      <4>2. Beside(e, Key[x], Key[n]) /\ Beside(e, Key[x], Key[p])
        BY <1>1, <2>1, <2>5, <4>1
      <4>3. e = s \/ e = o BY DEF Sides, Other
      <4> QED BY <1>1, <2>1, <2>6, <4>2, <4>3, BesideOther
    <3> QED BY <3>1, <3>2
  <2>7. Nearest(s, n, p) BY <1>3, <2>1, <2>5, <2>6 DEF Nearest
  <2> QED BY <2>7 DEF p
<1> QED BY <1>2, <1>3

\* And one that goes on, from p.
LEMMA AscendOn ==
  ASSUME NEW B, Bounded(B), NEW s \in Sides, NEW n \in members, NEW q \in members,
         NEW Y \in SUBSET members, Climbed(B, s, n, Y, q), NEW p \in members,
         t.parent[q] = p, t.child[s][p] = q
  PROVE  Climbed(B, s, n, Y \cup {q}, p)
<1>1. /\ q # NULL /\ Other(s) \in Sides /\ Other(Other(s)) = s
      /\ \A x \in members : Key[x] \in Nat /\ Key[x] \in B[x] /\ B[x] \subseteq Nat
  BY BoundedFacts DEF Sides, Other
<1>2. \A k \in B[q] : k \in B[p] /\ Beside(s, k, Key[p]) BY <1>1, BoundedFacts
<1>3. Key[n] \in B[p] /\ Beside(s, Key[n], Key[p]) BY <1>2 DEF Climbed
<1>4. p \notin Y \cup {q}
  <2>1. SUFFICES ASSUME p \in Y \cup {q} PROVE FALSE OBVIOUS
  <2>2. \A y \in Y \cup {q} : t.parent[y] \in Y \cup {q} BY <2>1 DEF Climbed
  <2>3. (Y \cup {q}) \in SUBSET members /\ Y \cup {q} # {} OBVIOUS
  <2> QED BY <2>2, <2>3, BoundedFacts
<1>5. ASSUME NEW x \in members, Key[x] \in B[p], Beside(s, Key[x], Key[n]) PROVE FALSE
  <2>1. Beside(s, Key[x], Key[p]) BY <1>1, <1>3, <1>5, BesideOther
  <2>2. x # p /\ ~Beside(Other(s), Key[x], Key[p]) BY <1>1, <2>1, BesideOther
  <2>3. Key[x] \in B[q] BY <1>5, <2>2, DownSide
  <2> QED BY <1>5, <2>3 DEF Climbed
<1>6. \A y \in Y \cup {q} : t.parent[y] \in (Y \cup {q}) \cup {p} BY DEF Climbed
<1> QED BY <1>3, <1>4, <1>5, <1>6 DEF Climbed

LEMMA AscendStep ==
  ASSUME NEW B, Bounded(B), NEW s \in Sides, NEW n \in members, NEW go, Ascends(go, s),
         NEW d \in Nat
  PROVE  d \in 0..Cardinality(Nodes) =>
           \A q \in members, Y \in SUBSET members :
             Cardinality(Y) + d >= Cardinality(Nodes) /\ Climbed(B, s, n, Y, q)
             => Nearest(s, n, go[d][q])
<1> DEFINE C == Cardinality(Nodes)
           S == {e \in Nat : e \in 0..C =>
                   \A q \in members, Y \in SUBSET members :
                     Cardinality(Y) + e >= C /\ Climbed(B, s, n, Y, q)
                     => Nearest(s, n, go[e][q])}
<1>1. /\ members \subseteq Nodes /\ NULL \notin members /\ IsFiniteSet(Nodes)
      /\ \A x \in members : t.parent[x] \in members \cup {NULL}
  BY BoundedFacts, ConstantsAssumption
<1>2. /\ C \in Nat /\ \A Y \in SUBSET members : IsFiniteSet(Y) /\ Cardinality(Y) \in Nat
                                                /\ Cardinality(Y) <= C
      /\ \A Y \in SUBSET members : Cardinality(Y) = C => Y = Nodes
  BY <1>1, FS_Subset, FS_CardinalityType
<1>3. ASSUME NEW e \in 0..C, NEW q \in Nodes
      PROVE  go[e][q] = IF e = 0 \/ t.parent[q] = NULL \/ t.child[s][t.parent[q]] # q
                        THEN t.parent[q] ELSE go[e-1][t.parent[q]]
  <2>1. go[e] = [z \in Nodes |->
                   LET p == t.parent[z]
                   IN  IF e = 0 \/ p = NULL \/ t.child[s][p] # z THEN p ELSE go[e-1][p]]
    BY DEF Ascends
  <2> QED BY <2>1
<1> HIDE DEF C
<1>4. 0 \in S
  <2> SUFFICES ASSUME NEW q \in members, NEW Y \in SUBSET members,
                      Cardinality(Y) + 0 >= C, Climbed(B, s, n, Y, q)
               PROVE  FALSE
    OBVIOUS
  <2>1. Cardinality(Y) = C BY <1>2
  <2>2. Y = Nodes BY <1>2, <2>1
  <2> QED BY <1>1, <2>2 DEF Climbed
<1>5. ASSUME NEW e \in Nat, e \in S PROVE e+1 \in S
  <2> SUFFICES ASSUME e+1 \in 0..C, NEW q \in members, NEW Y \in SUBSET members,
                      Cardinality(Y) + (e+1) >= C, Climbed(B, s, n, Y, q)
               PROVE  Nearest(s, n, go[e+1][q])
    OBVIOUS
  <2> DEFINE p == t.parent[q]
  <2>1. e \in 0..C /\ e+1 # 0 /\ (e+1)-1 = e BY <1>2
  <2>2. go[e+1][q] = IF p = NULL \/ t.child[s][p] # q THEN p ELSE go[e][p]
    BY <1>1, <1>3, <2>1
  <2>3. CASE p = NULL \/ t.child[s][p] # q
    <3>1. Nearest(s, n, p) BY <2>3, AscendEnd
    <3> QED BY <2>2, <2>3, <3>1
  <2>4. CASE p # NULL /\ t.child[s][p] = q
    <3>1. p \in members BY <1>1, <2>4
    <3>2. Climbed(B, s, n, Y \cup {q}, p) BY <2>4, <3>1, AscendOn
    <3>3. (Y \cup {q}) \in SUBSET members /\ Cardinality(Y \cup {q}) = Cardinality(Y) + 1
      BY <1>2, FS_AddElement DEF Climbed
    <3>4. Cardinality(Y \cup {q}) + e >= C BY <1>2, <3>3
    <3> HIDE DEF p
    <3>5. Nearest(s, n, go[e][p]) BY <1>5, <2>1, <3>1, <3>2, <3>3, <3>4
    <3> QED BY <2>2, <2>4, <3>5
  <2> QED BY <2>3, <2>4
<1> HIDE DEF S
<1>6. d \in S BY <1>4, <1>5, NatSet
<1> QED BY <1>6 DEF S, C

LEMMA AscendIs ==
  ASSUME NEW B, Bounded(B), NEW s \in Sides, NEW n \in members, t.child[s][n] = NULL
  PROVE  Nearest(s, n, Ascend(s, n))
<1> DEFINE go == CHOOSE go : Ascends(go, s)
           C == Cardinality(Nodes)
<1>1. Ascend(s, n) = go[C][n] BY DEF Ascend, Ascends
<1>2. t \in Tree BY Around DEF Bounded, LinkInv
<1>3. Ascends(go, s) BY <1>2, AscendExists
<1> HIDE DEF go
<1>4. C \in Nat /\ C \in 0..C BY NodesCounted
<1>5. Cardinality({}) + C >= C BY <1>4, FS_EmptySet
<1>6. {} \in SUBSET members OBVIOUS
<1>7. /\ NULL \notin members
      /\ \A x \in members : Key[x] \in Nat /\ Key[x] \in B[x] /\ B[x] \subseteq Nat
  BY BoundedFacts
<1>8. ASSUME NEW x \in members, Key[x] \in B[n] PROVE ~Beside(s, Key[x], Key[n])
  <2>1. CASE x = n BY <1>7, <2>1, BesideOther
  <2>2. CASE x # n
    <3>1. Beside(Other(s), Key[x], Key[n]) BY <1>7, <1>8, <2>2, DownSide
    <3> QED BY <1>7, <3>1, BesideOther
  <2> QED BY <2>1, <2>2
<1>9. Climbed(B, s, n, {}, n) BY <1>7, <1>8 DEF Climbed
<1>10. Nearest(s, n, go[C][n]) BY <1>3, <1>4, <1>5, <1>6, <1>9, AscendStep
<1> QED BY <1>1, <1>10

\* rb_next and rb_prev find the nearest member.
LEMMA NeighbourIs ==
  ASSUME NEW B, Bounded(B), NEW s \in Sides, NEW n \in members
  PROVE  Nearest(s, n, Neighbour(s, n))
<1> DEFINE c == t.child[s][n]
           o == Other(s)
           f == Furthest(o, c)
<1>1. /\ c \in members \cup {NULL} /\ NULL \notin members /\ o \in Sides /\ Other(o) = s
      /\ \A x \in members : Key[x] \in Nat /\ Key[x] \in B[x] /\ B[x] \subseteq Nat
      /\ c # NULL => \A k \in B[c] : k \in B[n] /\ Beside(s, k, Key[n])
  <2>1. o \in Sides /\ Other(o) = s BY DEF Sides, Other
  <2> QED BY <2>1, BoundedFacts
<1>2. CASE c = NULL BY <1>2, AscendIs DEF Neighbour
<1>3. CASE c # NULL
  <2>1. Outermost(o, f, B[c]) BY <1>1, <1>3, FurthestIs
  <2>2. Neighbour(s, n) = f BY <1>3 DEF Neighbour
  <2> HIDE DEF f
  <2>3. f \in members /\ Key[f] \in B[n] /\ Beside(s, Key[f], Key[n]) /\ f # NULL
    BY <1>1, <1>3, <2>1 DEF Outermost
  <2>4. ASSUME NEW x \in members, Beside(s, Key[x], Key[n]), Beside(s, Key[f], Key[x])
        PROVE  FALSE
    <3>1. x # n /\ ~Beside(o, Key[x], Key[n]) BY <1>1, <2>4, BesideOther
    <3>2. Beside(o, Key[x], Key[f]) BY <1>1, <2>3, <2>4, BesideOther
    <3>3. CASE Key[x] \in B[n]
      <4>1. Key[x] \in B[c] BY <3>1, <3>3, DownSide
      <4> QED BY <2>1, <3>2, <4>1 DEF Outermost
    <3>4. CASE Key[x] \notin B[n]
      <4>1. PICK d \in Sides : \A k \in B[n] : Beside(d, Key[x], k) BY <3>4, Apart
      <4>2. Beside(d, Key[x], Key[n]) /\ Beside(d, Key[x], Key[f]) BY <1>1, <2>3, <4>1
      <4>3. d = s \/ d = o BY DEF Sides, Other
      <4> QED BY <1>1, <2>3, <2>4, <3>1, <4>2, <4>3, BesideOther
    <3> QED BY <3>3, <3>4
  <2> QED BY <2>2, <2>3, <2>4 DEF Nearest
<1> QED BY <1>1, <1>2, <1>3

\* The members stand in w by their keys.
InKeyOrder(w) ==
  /\ \A i \in 1..Len(w) : w[i] \in members /\ Key[w[i]] \in Nat
  /\ \A x \in members : \E i \in 1..Len(w) : w[i] = x
  /\ \A i, j \in 1..Len(w) : i < j <=> Key[w[i]] < Key[w[j]]

\* Where they do, the nearest to one is the next in it, or the one before.
LEMMA NearestAt ==
  ASSUME NULL \notin members, NEW w, Len(w) \in Nat, InKeyOrder(w),
         NEW i \in 1..Len(w), NEW r
  PROVE  /\ Nearest("right", w[i], r) => r = IF i+1 \in 1..Len(w) THEN w[i+1] ELSE NULL
         /\ Nearest("left", w[i], r) => r = IF i-1 \in 1..Len(w) THEN w[i-1] ELSE NULL
<1>1. \A j \in 1..Len(w) : w[j] \in members /\ Key[w[j]] \in Nat BY DEF InKeyOrder
<1>2. \A x \in members : \E j \in 1..Len(w) : w[j] = x BY DEF InKeyOrder
<1>3. \A a, b \in 1..Len(w) : a < b <=> Key[w[a]] < Key[w[b]] BY DEF InKeyOrder
<1>4. ASSUME Nearest("right", w[i], r)
      PROVE  r = IF i+1 \in 1..Len(w) THEN w[i+1] ELSE NULL
  <2>1. CASE r = NULL
    <3>1. \A x \in members : ~(Key[w[i]] < Key[x]) BY <1>4, <2>1 DEF Nearest, Beside
    <3>2. i+1 \in 1..Len(w) => i < i+1 OBVIOUS
    <3>3. i+1 \notin 1..Len(w) BY <1>1, <1>3, <3>1, <3>2
    <3> QED BY <2>1, <3>3
  <2>2. CASE r # NULL
    <3>1. r \in members /\ Key[w[i]] < Key[r]
      BY <1>4, <2>2 DEF Nearest, Beside
    <3>2. PICK j \in 1..Len(w) : w[j] = r BY <1>2, <3>1
    <3>3. i < j BY <1>3, <3>1, <3>2
    <3>4. i+1 \in 1..Len(w) /\ i < i+1 /\ (i+1 = j \/ i+1 < j) BY <3>3
    <3>5. Key[w[i]] < Key[w[i+1]] /\ w[i+1] \in members BY <1>1, <1>3, <3>4
    <3>6. ~(Key[w[i+1]] < Key[r]) BY <1>4, <3>5 DEF Nearest, Beside
    <3>7. i+1 = j BY <1>3, <3>2, <3>4, <3>6
    <3> QED BY <3>2, <3>4, <3>7
  <2> QED BY <2>1, <2>2
<1>5. ASSUME Nearest("left", w[i], r)
      PROVE  r = IF i-1 \in 1..Len(w) THEN w[i-1] ELSE NULL
  <2>1. CASE r = NULL
    <3>1. \A x \in members : ~(Key[x] < Key[w[i]]) BY <1>5, <2>1 DEF Nearest, Beside
    <3>2. i-1 \in 1..Len(w) => i-1 < i OBVIOUS
    <3>3. i-1 \notin 1..Len(w) BY <1>1, <1>3, <3>1, <3>2
    <3> QED BY <2>1, <3>3
  <2>2. CASE r # NULL
    <3>1. r \in members /\ Key[r] < Key[w[i]]
      BY <1>5, <2>2 DEF Nearest, Beside
    <3>2. PICK j \in 1..Len(w) : w[j] = r BY <1>2, <3>1
    <3>3. j < i BY <1>3, <3>1, <3>2
    <3>4. i-1 \in 1..Len(w) /\ i-1 < i /\ (i-1 = j \/ j < i-1) BY <3>3
    <3>5. Key[w[i-1]] < Key[w[i]] /\ w[i-1] \in members BY <1>1, <1>3, <3>4
    <3>6. ~(Key[r] < Key[w[i-1]]) BY <1>5, <3>5 DEF Nearest, Beside
    <3>7. i-1 = j BY <1>3, <3>2, <3>4, <3>6
    <3> QED BY <3>2, <3>4, <3>7
  <2> QED BY <2>1, <2>2
<1> QED BY <1>4, <1>5

LEMMA InOrderByKeys ==
  ASSUME OrderInv
  PROVE  InOrder \in Seq(members) /\ InKeyOrder(InOrder)
<1> DEFINE w == InOrder
<1>1. /\ members \subseteq Nodes /\ NULL \notin members
      /\ t \in Tree /\ t.root \in members \cup {NULL}
  BY Around DEF OrderInv, LinkInv
<1>2. \A n \in members : Key[n] \in Nat BY <1>1, ConstantsAssumption
<1>3. Range(w) = members /\ \A i, j \in 1..Len(w) : i < j => Key[w[i]] < Key[w[j]]
  BY InOrderRises
<1>4. w \in Seq(members) BY InOrderRises
<1>5. DOMAIN w = 1..Len(w) /\ Len(w) \in Nat BY <1>4
<1>6. \A i \in 1..Len(w) : w[i] \in members /\ Key[w[i]] \in Nat BY <1>2, <1>4, <1>5
<1>7. \A x \in members : \E i \in 1..Len(w) : w[i] = x BY <1>3, <1>5 DEF Range
<1> HIDE DEF w
<1>8. ASSUME NEW i \in 1..Len(w), NEW j \in 1..Len(w), Key[w[i]] < Key[w[j]]
      PROVE  i < j
  <2>1. i \in Nat /\ j \in Nat BY <1>5
  <2>2. Key[w[i]] \in Nat /\ Key[w[j]] \in Nat BY <1>6
  <2>3. j < i => Key[w[j]] < Key[w[i]] BY <1>3
  <2>4. i # j BY <1>8, <2>2
  <2> QED BY <1>8, <2>1, <2>2, <2>3, <2>4
<1>9. \A i, j \in 1..Len(w) : i < j <=> Key[w[i]] < Key[w[j]] BY <1>3, <1>8
<1>10. InKeyOrder(w) BY <1>6, <1>7, <1>9 DEF InKeyOrder
<1> QED BY <1>4, <1>10 DEF w

LEMMA OrderedWalks == OrderInv => WalksInOrder
<1> SUFFICES ASSUME OrderInv, members # {} PROVE WalksInOrder
  BY DEF WalksInOrder
<1> DEFINE w == InOrder
           at(i) == IF i \in DOMAIN w THEN w[i] ELSE NULL
<1>1. w \in Seq(members) /\ InKeyOrder(w) BY InOrderByKeys
<1>2. DOMAIN w = 1..Len(w) /\ Len(w) \in Nat BY <1>1
<1>3. PICK B : Bounded(B) BY DEF OrderInv, Sorted, Bounded
<1>4. /\ NULL \notin members
      /\ \A n \in members : Key[n] \in Nat /\ Key[n] \in B[n] /\ B[n] \subseteq Nat
  BY <1>3, BoundedFacts
<1>5. "left" \in Sides /\ "right" \in Sides BY DEF Sides
<1>6. /\ \A i \in 1..Len(w) : w[i] \in members /\ Key[w[i]] \in Nat
      /\ \A x \in members : \E i \in 1..Len(w) : w[i] = x
      /\ \A i, j \in 1..Len(w) : i < j <=> Key[w[i]] < Key[w[j]]
  BY <1>1 DEF InKeyOrder
<1> HIDE DEF w
<1>7. t.root \in members /\ \A x \in members : Key[x] \in B[t.root] BY <1>3, Down
<1>8. 1 \in 1..Len(w) /\ Len(w) \in 1..Len(w) BY <1>2, <1>6
<1>9. Furthest("left", t.root) = w[1]
  <2> DEFINE f == Furthest("left", t.root)
  <2>1. Outermost("left", f, B[t.root]) BY <1>3, <1>5, <1>7, FurthestIs
  <2> HIDE DEF f
  <2>2. f \in members /\ ~Beside("left", Key[w[1]], Key[f])
    BY <1>6, <1>7, <1>8, <2>1 DEF Outermost
  <2>3. PICK i \in 1..Len(w) : w[i] = f BY <1>6, <2>2
  <2>4. ~(1 < i) BY <1>6, <1>8, <2>2, <2>3 DEF Beside
  <2>5. i = 1 BY <2>4
  <2> QED BY <2>3, <2>5 DEF f
<1>10. Furthest("right", t.root) = w[Len(w)]
  <2> DEFINE f == Furthest("right", t.root)
  <2>1. Outermost("right", f, B[t.root]) BY <1>3, <1>5, <1>7, FurthestIs
  <2> HIDE DEF f
  <2>2. f \in members /\ ~Beside("right", Key[w[Len(w)]], Key[f])
    BY <1>6, <1>7, <1>8, <2>1 DEF Outermost
  <2>3. PICK i \in 1..Len(w) : w[i] = f BY <1>6, <2>2
  <2>4. ~(i < Len(w)) BY <1>6, <1>8, <2>2, <2>3 DEF Beside
  <2>5. \A l \in Nat : \A j \in 1..l : ~(j < l) => j = l OBVIOUS
  <2>6. i = Len(w) BY <1>2, <2>3, <2>4, <2>5
  <2> QED BY <2>3, <2>6 DEF f
<1>11. ASSUME NEW i \in DOMAIN w
       PROVE  Neighbour("right", w[i]) = at(i+1) /\ Neighbour("left", w[i]) = at(i-1)
  <2>1. i \in 1..Len(w) /\ w[i] \in members BY <1>2, <1>6
  <2>2. /\ Nearest("right", w[i], Neighbour("right", w[i]))
        /\ Nearest("left", w[i], Neighbour("left", w[i]))
    BY <1>3, <1>5, <2>1, NeighbourIs
  <2> QED BY <1>1, <1>2, <1>4, <2>1, <2>2, NearestAt
<1> QED BY <1>9, <1>10, <1>11 DEF WalksInOrder, w

\* When a call has returned, rb_first and rb_next visit the nodes in the order
\* of their keys, rb_last and rb_prev in the reverse order, and each ends with
\* NULL.
THEOREM WalksInOrderHolds == Spec => []WalksInOrder
<1> QED BY OrderedWalks, OrderAlways, PTL

-----------------------------------------------------------------------------
(* The walk that frees what it visits *)

Visits(v, deep) ==
  v = [d \in 0..deep |-> [p \in Pointer |->
         IF d = 0 \/ p = NULL THEN <<>>
         ELSE v[d-1][t.child["left"][p]] \o v[d-1][t.child["right"][p]] \o <<p>>]]

Belows(u, start, deep) ==
  u = [d \in 0..deep |->
         IF d = 0 THEN {}
         ELSE LET above == u[d-1]
              IN  {start} \cup {n \in members : t.parent[n] \in above}]

LEMMA VisitExists ==
  ASSUME t \in Tree, NEW deep \in Nat
  PROVE  \E v : Visits(v, deep)
<1> DEFINE V == [Pointer -> Seq(Nodes)]
           After(e) == [p \in Pointer |->
                          IF p = NULL THEN <<>>
                          ELSE e[t.child["left"][p]] \o e[t.child["right"][p]] \o <<p>>]
           step == [e \in V |-> After(e)]
           none == [p \in Pointer |-> <<>>]
<1>1. \A p \in Pointer : p # NULL =>
        /\ t.child["left"][p] \in Pointer /\ t.child["right"][p] \in Pointer /\ p \in Nodes
  BY DEF Tree, Sides, Pointer
<1>2. step \in [V -> V] BY <1>1
<1>3. none \in V OBVIOUS
<1> HIDE DEF V, step, none
<1>4. PICK f : Climbs(f, V, none, step, deep) BY <1>2, <1>3, Levels
<1>5. ASSUME NEW d \in 0..deep
      PROVE  f[d] = [p \in Pointer |->
                       IF d = 0 \/ p = NULL THEN <<>>
                       ELSE f[d-1][t.child["left"][p]] \o f[d-1][t.child["right"][p]] \o <<p>>]
  <2>1. CASE d = 0 BY <1>4, <2>1 DEF none, Climbs
  <2>2. CASE d # 0
    <3>1. d \in 1..deep /\ d-1 \in 0..deep BY <2>2
    <3>2. f[d] = After(f[d-1]) BY <1>4, <3>1 DEF step, Climbs
    <3> QED BY <2>2, <3>2
  <2> QED BY <2>1, <2>2
<1>6. f = [d \in 0..deep |-> f[d]] BY <1>4 DEF Climbs
<1>7. Visits(f, deep) BY <1>5, <1>6 DEF Visits
<1> QED BY <1>7

LEMMA VisitSteps ==
  ASSUME NEW deep \in Nat, NEW v, Visits(v, deep)
  PROVE  /\ \A p \in Pointer : v[0][p] = <<>>
         /\ \A d \in 0..deep : v[d][NULL] = <<>>
         /\ \A d \in 1..deep, p \in Nodes :
              v[d][p] = v[d-1][t.child["left"][p]] \o v[d-1][t.child["right"][p]] \o <<p>>
<1>1. ASSUME NEW d \in 0..deep
      PROVE  v[d] = [p \in Pointer |->
                IF d = 0 \/ p = NULL THEN <<>>
                ELSE v[d-1][t.child["left"][p]] \o v[d-1][t.child["right"][p]] \o <<p>>]
  BY DEF Visits
<1>2. NULL \notin Nodes /\ NULL \in Pointer /\ Nodes \subseteq Pointer
  BY ConstantsAssumption DEF Pointer
<1>3. ASSUME NEW p \in Pointer PROVE v[0][p] = <<>>
  <2>1. 0 \in 0..deep OBVIOUS
  <2>2. v[0] = [q \in Pointer |->
                IF 0 = 0 \/ q = NULL THEN <<>>
                ELSE v[0-1][t.child["left"][q]] \o v[0-1][t.child["right"][q]] \o <<q>>]
    BY <1>1, <2>1
  <2> QED BY <2>2
<1>4. ASSUME NEW d \in 0..deep PROVE v[d][NULL] = <<>> BY <1>1, <1>2
<1>5. ASSUME NEW d \in 1..deep, NEW p \in Nodes
      PROVE  v[d][p] = v[d-1][t.child["left"][p]] \o v[d-1][t.child["right"][p]] \o <<p>>
  <2>1. d \in 0..deep /\ d # 0 /\ p \in Pointer /\ p # NULL BY <1>2
  <2> QED BY <1>1, <2>1
<1> QED BY <1>3, <1>4, <1>5

LEMMA VisitIs ==
  ASSUME t \in Tree, NEW deep \in Nat
  PROVE  \E v : Visits(v, deep) /\ \A start : Visit(start, deep) = v[deep][start]
<1> DEFINE v == CHOOSE v : Visits(v, deep)
<1>1. \A start : Visit(start, deep) = v[deep][start] BY DEF Visit, Visits
<1>2. Visits(v, deep) BY VisitExists
<1> QED BY <1>1, <1>2

LEMMA BelowExists ==
  ASSUME members \subseteq Nodes, NEW start \in Nodes, NEW deep \in Nat
  PROVE  \E u : Belows(u, start, deep)
<1> DEFINE V == SUBSET Nodes
           step == [e \in V |-> {start} \cup {n \in members : t.parent[n] \in e}]
<1>1. step \in [V -> V] /\ {} \in V OBVIOUS
<1> HIDE DEF V, step
<1>2. PICK f : Climbs(f, V, {}, step, deep) BY <1>1, Levels
<1>3. ASSUME NEW d \in 0..deep
      PROVE  f[d] = IF d = 0 THEN {}
                    ELSE {start} \cup {n \in members : t.parent[n] \in f[d-1]}
  <2>1. CASE d = 0 BY <1>2, <2>1 DEF Climbs
  <2>2. CASE d # 0
    <3>1. d \in 1..deep /\ d-1 \in 0..deep BY <2>2
    <3>2. f[d] = step[f[d-1]] /\ f[d-1] \in V BY <1>2, <3>1 DEF Climbs
    <3> QED BY <2>2, <3>2 DEF step
  <2> QED BY <2>1, <2>2
<1>4. f = [d \in 0..deep |-> f[d]] BY <1>2 DEF Climbs
<1>5. Belows(f, start, deep) BY <1>3, <1>4 DEF Belows
<1> QED BY <1>5

\* U[p][d] are the members less than d levels below p.
AllBelow(U, deep) ==
  \A p \in members :
    /\ U[p][0] = {}
    /\ \A d \in 1..deep :
         U[p][d] = {p} \cup {n \in members : t.parent[n] \in U[p][d-1]}

LEMMA BelowIs ==
  ASSUME members \subseteq Nodes, NEW deep \in Nat
  PROVE  \E U : AllBelow(U, deep) /\ \A p \in members : Below(p, deep) = U[p][deep]
<1> DEFINE U == [p \in members |-> CHOOSE u : Belows(u, p, deep)]
<1>1. \A p \in members : Below(p, deep) = U[p][deep] BY DEF Below, Belows
<1>2. ASSUME NEW p \in members
      PROVE  /\ U[p][0] = {}
             /\ \A d \in 1..deep :
                  U[p][d] = {p} \cup {n \in members : t.parent[n] \in U[p][d-1]}
  <2> DEFINE u == U[p]
  <2>1. u = CHOOSE e : Belows(e, p, deep) OBVIOUS
  <2>2. Belows(u, p, deep) BY <2>1, BelowExists
  <2> HIDE DEF u
  <2>3. ASSUME NEW d \in 0..deep
        PROVE  u[d] = IF d = 0 THEN {}
                      ELSE {p} \cup {n \in members : t.parent[n] \in u[d-1]}
    BY <2>2 DEF Belows
  <2>4. u[0] = {}
    <3>1. 0 \in 0..deep OBVIOUS
    <3> QED BY <2>3, <3>1
  <2>5. ASSUME NEW d \in 1..deep
        PROVE  u[d] = {p} \cup {n \in members : t.parent[n] \in u[d-1]}
    <3>1. d \in 0..deep /\ d # 0 OBVIOUS
    <3> QED BY <2>3, <3>1
  <2> QED BY <2>4, <2>5 DEF u
<1> HIDE DEF U
<1>3. AllBelow(U, deep) BY <1>2 DEF AllBelow
<1> QED BY <1>1, <1>3

\* What is below a node is the node and what is below its children.
LEMMA BelowSplits ==
  ASSUME NEW B, Bounded(B), NEW deep \in Nat, NEW U, AllBelow(U, deep), NEW d \in Nat
  PROVE  d+1 \in 0..deep =>
           \A p \in members, x \in members :
             x \in U[p][d+1] <=>
               x = p \/ \E s \in Sides : t.child[s][p] # NULL /\ x \in U[t.child[s][p]][d]
<1> DEFINE Split(e) == \A p \in members, x \in members :
             x \in U[p][e+1] <=>
               x = p \/ \E s \in Sides : t.child[s][p] # NULL /\ x \in U[t.child[s][p]][e]
           S == {e \in Nat : e+1 \in 0..deep => Split(e)}
<1>1. /\ NULL \notin members
      /\ \A n \in members, s \in Sides :
           /\ t.child[s][n] \in members \cup {NULL}
           /\ t.child[s][n] # NULL => t.parent[t.child[s][n]] = n
      /\ \A n \in members : t.parent[n] \in members \cup {NULL}
      /\ \A n \in members :
           t.parent[n] # NULL => \E s \in Sides : t.child[s][t.parent[n]] = n
  BY BoundedFacts
<1>2. \A p \in members : U[p][0] = {} BY DEF AllBelow
<1>3. ASSUME NEW p \in members, NEW e \in Nat, e+1 \in 0..deep
      PROVE  U[p][e+1] = {p} \cup {n \in members : t.parent[n] \in U[p][e]}
  <2>1. e+1 \in 1..deep /\ (e+1)-1 = e BY <1>3
  <2>2. U[p][e+1] = {p} \cup {n \in members : t.parent[n] \in U[p][(e+1)-1]}
    BY <2>1 DEF AllBelow
  <2> QED BY <2>1, <2>2
<1>4. 0 \in S
  <2>1. ASSUME 0+1 \in 0..deep, NEW p \in members, NEW x \in members
        PROVE  x \in U[p][0+1] <=> x = p
    <3>1. 0 \in Nat OBVIOUS
    <3>2. U[p][0+1] = {p} \cup {n \in members : t.parent[n] \in U[p][0]}
      BY <1>3, <2>1, <3>1
    <3> QED BY <1>2, <3>2
  <2>2. 0+1 \in 0..deep => Split(0) BY <1>1, <1>2, <2>1
  <2> QED BY <2>2
<1>5. ASSUME NEW n \in Nat, n \in S PROVE n+1 \in S
  <2> SUFFICES ASSUME (n+1)+1 \in 0..deep, NEW p \in members, NEW x \in members
               PROVE  x \in U[p][(n+1)+1] <=>
                        x = p \/ \E s \in Sides : /\ t.child[s][p] # NULL
                                                 /\ x \in U[t.child[s][p]][n+1]
    OBVIOUS
  <2>1. n+1 \in Nat /\ n+1 \in 0..deep OBVIOUS
  <2>2. x \in U[p][(n+1)+1] <=> x = p \/ t.parent[x] \in U[p][n+1] BY <1>3, <2>1
  <2>3. \A c \in members : x \in U[c][n+1] <=> x = c \/ t.parent[x] \in U[c][n]
    BY <1>3, <2>1
  <2>4. \A y \in members :
          y \in U[p][n+1] <=>
            y = p \/ \E s \in Sides : t.child[s][p] # NULL /\ y \in U[t.child[s][p]][n]
    BY <1>5, <2>1
  <2>5. \A c \in members, e \in {n, n+1} : U[c][e] \subseteq members
    <3>1. \A c \in members : U[c][n+1] \subseteq members BY <1>3, <2>1
    <3>2. \A c \in members : U[c][n] \subseteq members
      <4>1. CASE n = 0 BY <1>2, <4>1
      <4>2. CASE n # 0
        <5>1. n-1 \in Nat /\ (n-1)+1 = n /\ (n-1)+1 \in 0..deep BY <2>1, <4>2
        <5> QED BY <1>3, <5>1
      <4> QED BY <4>1, <4>2
    <3> QED BY <3>1, <3>2
  <2>6. t.parent[x] \in U[p][n+1] <=>
          t.parent[x] = p \/ \E s \in Sides : /\ t.child[s][p] # NULL
                                             /\ t.parent[x] \in U[t.child[s][p]][n]
    BY <1>1, <2>4, <2>5
  <2>7. t.parent[x] = p <=> \E s \in Sides : t.child[s][p] # NULL /\ x = t.child[s][p]
    BY <1>1
  <2> QED BY <1>1, <2>2, <2>3, <2>6, <2>7
<1> HIDE DEF S
<1>6. d \in S BY <1>4, <1>5, NatSet
<1> QED BY <1>6 DEF S

LEMMA ConcatLast ==
  ASSUME NEW S, NEW a \in Seq(S), NEW b \in Seq(S), NEW p \in S
  PROVE  LET q == a \o b \o <<p>>
         IN  /\ q \in Seq(S) /\ Len(q) = Len(a) + Len(b) + 1
             /\ \A i \in 1..Len(q) :
                  q[i] = IF i <= Len(a) THEN a[i]
                         ELSE IF i <= Len(a) + Len(b) THEN b[i - Len(a)] ELSE p
  OBVIOUS

LEMMA HoldsConcat ==
  ASSUME NEW S, NEW a \in Seq(S), NEW b \in Seq(S), NEW p \in S, NEW x
  PROVE  Holds(a \o b \o <<p>>, x) <=> Holds(a, x) \/ Holds(b, x) \/ x = p
<1> DEFINE q == a \o b \o <<p>>
<1>1. /\ Len(q) = Len(a) + Len(b) + 1 /\ Len(a) \in Nat /\ Len(b) \in Nat
      /\ \A i \in 1..Len(q) :
           q[i] = IF i <= Len(a) THEN a[i]
                  ELSE IF i <= Len(a) + Len(b) THEN b[i - Len(a)] ELSE p
  BY ConcatLast
<1> HIDE DEF q
<1>2. ASSUME NEW i \in 1..Len(q), q[i] = x PROVE Holds(a, x) \/ Holds(b, x) \/ x = p
  <2>1. CASE i <= Len(a)
    <3>1. i \in 1..Len(a) /\ a[i] = x BY <1>1, <1>2, <2>1
    <3> QED BY <3>1 DEF Holds
  <2>2. CASE ~(i <= Len(a)) /\ i <= Len(a) + Len(b)
    <3>1. i - Len(a) \in 1..Len(b) /\ b[i - Len(a)] = x BY <1>1, <1>2, <2>2
    <3> QED BY <3>1 DEF Holds
  <2>3. CASE ~(i <= Len(a)) /\ ~(i <= Len(a) + Len(b)) BY <1>1, <1>2, <2>3
  <2> QED BY <2>1, <2>2, <2>3
<1>3. ASSUME NEW i \in 1..Len(a), a[i] = x PROVE Holds(q, x)
  <2>1. i \in 1..Len(q) /\ i <= Len(a) BY <1>1
  <2>2. q[i] = x BY <1>1, <1>3, <2>1
  <2> QED BY <2>1, <2>2 DEF Holds
<1>4. ASSUME NEW i \in 1..Len(b), b[i] = x PROVE Holds(q, x)
  <2> DEFINE j == i + Len(a)
  <2>1. /\ j \in 1..Len(q) /\ ~(j <= Len(a)) /\ j <= Len(a) + Len(b) /\ j - Len(a) = i
    BY <1>1
  <2> HIDE DEF j
  <2>2. q[j] = x BY <1>1, <1>4, <2>1
  <2> QED BY <2>1, <2>2 DEF Holds
<1>5. ASSUME x = p PROVE Holds(q, x)
  <2> DEFINE j == Len(q)
  <2>1. j \in 1..Len(q) /\ ~(j <= Len(a)) /\ ~(j <= Len(a) + Len(b)) BY <1>1
  <2> HIDE DEF j
  <2>2. q[j] = x BY <1>1, <1>5, <2>1
  <2> QED BY <2>1, <2>2 DEF Holds
<1>6. Holds(q, x) <=> Holds(a, x) \/ Holds(b, x) \/ x = p
  BY <1>2, <1>3, <1>4, <1>5 DEF Holds
<1> QED BY <1>6 DEF q

\* w visits members with keys in K, each once and after its children.
Frees(w, K) ==
  /\ w \in Seq(members)
  /\ \A i \in 1..Len(w) : Key[w[i]] \in K
  /\ \A i, j \in 1..Len(w) : w[i] = w[j] => i = j
  /\ \A i, j \in 1..Len(w) : j <= i => t.parent[w[i]] # w[j]

\* Two walks, of what is under the two children of p, and then p.
LEMMA FreesBoth ==
  ASSUME NEW B, Bounded(B), NEW p \in members, NEW a, NEW b, NEW K \in SUBSET B[p],
         NEW J \in SUBSET B[p], Frees(a, K), Frees(b, J),
         \A k \in K : k < Key[p], \A k \in J : Key[p] < k,
         \A i \in 1..Len(b) : \/ t.parent[b[i]] = p
                             \/ Key[t.parent[b[i]]] \in J
  PROVE  Frees(a \o b \o <<p>>, B[p])
<1> DEFINE q == a \o b \o <<p>>
<1>1. /\ a \in Seq(members) /\ b \in Seq(members)
      /\ \A i \in 1..Len(a) : Key[a[i]] \in K
      /\ \A i \in 1..Len(b) : Key[b[i]] \in J
      /\ \A i, j \in 1..Len(a) : a[i] = a[j] => i = j
      /\ \A i, j \in 1..Len(b) : b[i] = b[j] => i = j
      /\ \A i, j \in 1..Len(a) : j <= i => t.parent[a[i]] # a[j]
      /\ \A i, j \in 1..Len(b) : j <= i => t.parent[b[i]] # b[j]
  BY DEF Frees
<1>2. /\ q \in Seq(members) /\ Len(q) = Len(a) + Len(b) + 1
      /\ \A i \in 1..Len(q) :
           q[i] = IF i <= Len(a) THEN a[i]
                  ELSE IF i <= Len(a) + Len(b) THEN b[i - Len(a)] ELSE p
  BY <1>1, ConcatLast
<1> HIDE DEF q
<1>3. Len(a) \in Nat /\ Len(b) \in Nat BY <1>1
<1>4. /\ Key[p] \in B[p] /\ B[p] \subseteq Nat /\ Key[p] \in Nat
      /\ \A k \in K : k \in Nat /\ k # Key[p]
      /\ \A k \in J : k \in Nat /\ k # Key[p]
      /\ K \cap J = {}
  BY BoundedFacts
<1>5. ASSUME NEW i \in 1..Len(q)
      PROVE  \/ i \in 1..Len(a) /\ q[i] = a[i]
             \/ i - Len(a) \in 1..Len(b) /\ q[i] = b[i - Len(a)]
             \/ i = Len(a) + Len(b) + 1 /\ q[i] = p
  <2>1. q[i] = IF i <= Len(a) THEN a[i]
               ELSE IF i <= Len(a) + Len(b) THEN b[i - Len(a)] ELSE p
    BY <1>2
  <2>2. i \in 1..Len(a) + Len(b) + 1 BY <1>2
  <2>3. CASE i <= Len(a) BY <1>3, <2>1, <2>2, <2>3
  <2>4. CASE ~(i <= Len(a)) /\ i <= Len(a) + Len(b)
    <3>1. i - Len(a) \in 1..Len(b) BY <1>3, <2>2, <2>4
    <3> QED BY <2>1, <2>4, <3>1
  <2>5. CASE ~(i <= Len(a)) /\ ~(i <= Len(a) + Len(b))
    <3>1. i = Len(a) + Len(b) + 1 BY <1>3, <2>2, <2>5
    <3> QED BY <2>1, <2>5, <3>1
  <2> QED BY <2>3, <2>4, <2>5
<1>6. ASSUME NEW i \in 1..Len(q) PROVE Key[q[i]] \in B[p] /\ q[i] \in members
  <2>1. q[i] \in members BY <1>2
  <2>2. CASE i \in 1..Len(a) /\ q[i] = a[i] BY <1>1, <2>1, <2>2
  <2>3. CASE i - Len(a) \in 1..Len(b) /\ q[i] = b[i - Len(a)] BY <1>1, <2>1, <2>3
  <2>4. CASE q[i] = p BY <1>4, <2>4
  <2> QED BY <1>5, <2>2, <2>3, <2>4
<1>7. ASSUME NEW i \in 1..Len(q), NEW j \in 1..Len(q), q[i] = q[j] PROVE i = j
  <2>1. CASE i \in 1..Len(a) /\ q[i] = a[i]
    <3>1. Key[q[j]] \in K BY <1>1, <1>7, <2>1
    <3>2. j \in 1..Len(a) /\ q[j] = a[j] BY <1>1, <1>4, <1>5, <3>1
    <3> QED BY <1>1, <1>7, <2>1, <3>2
  <2>2. CASE i - Len(a) \in 1..Len(b) /\ q[i] = b[i - Len(a)]
    <3>1. Key[q[j]] \in J BY <1>1, <1>7, <2>2
    <3>2. j - Len(a) \in 1..Len(b) /\ q[j] = b[j - Len(a)] BY <1>1, <1>4, <1>5, <3>1
    <3>3. i - Len(a) = j - Len(a) BY <1>1, <1>7, <2>2, <3>2
    <3> QED BY <1>3, <3>3
  <2>3. CASE i = Len(a) + Len(b) + 1 /\ q[i] = p
    <3>1. Key[q[j]] = Key[p] BY <1>7, <2>3
    <3>2. j = Len(a) + Len(b) + 1 BY <1>1, <1>4, <1>5, <3>1
    <3> QED BY <2>3, <3>2
  <2> QED BY <1>5, <2>1, <2>2, <2>3
<1>8. ASSUME NEW i \in 1..Len(q), NEW j \in 1..Len(q), j <= i, t.parent[q[i]] = q[j]
      PROVE  FALSE
  <2>1. CASE i \in 1..Len(a) /\ q[i] = a[i]
    <3>1. j \in 1..Len(a) /\ q[j] = a[j] BY <1>2, <1>3, <1>8, <2>1
    <3> QED BY <1>1, <1>8, <2>1, <3>1
  <2>2. CASE i - Len(a) \in 1..Len(b) /\ q[i] = b[i - Len(a)]
    <3>1. q[j] = p \/ Key[q[j]] \in J BY <1>8, <2>2
    <3>2. \/ j - Len(a) \in 1..Len(b) /\ q[j] = b[j - Len(a)]
          \/ j = Len(a) + Len(b) + 1
      BY <1>1, <1>4, <1>5, <3>1
    <3>3. j # Len(a) + Len(b) + 1 BY <1>3, <1>8, <2>2
    <3>4. j - Len(a) \in 1..Len(b) /\ q[j] = b[j - Len(a)] BY <3>2, <3>3
    <3>5. j - Len(a) <= i - Len(a) BY <1>3, <1>8
    <3> QED BY <1>1, <1>8, <2>2, <3>4, <3>5
  <2>3. CASE i = Len(a) + Len(b) + 1 /\ q[i] = p
    <3>1. q[j] \in members /\ Key[q[j]] \in B[p] BY <1>6
    <3>2. t.parent[p] # NULL BY <1>8, <2>3, <3>1, BoundedFacts
    <3>3. Key[t.parent[p]] \notin B[p] BY <3>2, ParentUnder
    <3> QED BY <1>8, <2>3, <3>1, <3>3
  <2> QED BY <1>5, <2>1, <2>2, <2>3
<1>9. Frees(q, B[p]) BY <1>2, <1>6, <1>7, <1>8 DEF Frees
<1> QED BY <1>9 DEF q

LEMMA VisitFrees ==
  ASSUME NEW B, Bounded(B), NEW deep \in Nat, NEW v, Visits(v, deep), NEW d \in Nat
  PROVE  d \in 0..deep => \A p \in members : Frees(v[d][p], B[p])
<1> DEFINE S == {e \in Nat : e \in 0..deep => \A p \in members : Frees(v[e][p], B[p])}
<1>1. /\ members \subseteq Nodes /\ NULL \notin members
      /\ \A n \in members, s \in Sides : t.child[s][n] \in members \cup {NULL}
      /\ "left" \in Sides /\ "right" \in Sides
      /\ Nodes \subseteq Pointer
      /\ \A n \in members, s \in Sides :
           t.child[s][n] # NULL =>
             \A k \in B[t.child[s][n]] : k \in B[n] /\ Beside(s, k, Key[n])
  BY BoundedFacts DEF Sides, Pointer
<1>2. \A K : Frees(<<>>, K) BY DEF Frees
<1>3. 0 \in S
  <2>1. \A p \in members : v[0][p] = <<>> BY <1>1, VisitSteps
  <2> QED BY <1>2, <2>1
<1>4. ASSUME NEW n \in Nat, n \in S PROVE n+1 \in S
  <2> SUFFICES ASSUME n+1 \in 0..deep, NEW p \in members PROVE Frees(v[n+1][p], B[p])
    OBVIOUS
  <2> DEFINE l == t.child["left"][p]
             r == t.child["right"][p]
             a == v[n][l]
             b == v[n][r]
             K == IF l = NULL THEN {} ELSE B[l]
             J == IF r = NULL THEN {} ELSE B[r]
  <2>1. n \in 0..deep /\ (n+1)-1 = n /\ n+1 # 0 OBVIOUS
  <2>2. v[n+1][p] = a \o b \o <<p>>
    <3>1. p \in Nodes BY <1>1
    <3>2. PICK h : h = n+1 OBVIOUS
    <3>3. h \in 1..deep /\ h-1 = n BY <3>2
    <3>4. v[h][p] = v[h-1][t.child["left"][p]] \o v[h-1][t.child["right"][p]] \o <<p>>
      BY <3>1, <3>3, VisitSteps
    <3> QED BY <3>2, <3>3, <3>4
  <2>3. l \in members \cup {NULL} /\ r \in members \cup {NULL} BY <1>1
  <2>4. v[n][NULL] = <<>> BY <2>1, VisitSteps
  <2>5. Frees(a, K)
    <3>1. CASE l = NULL BY <1>2, <2>4, <3>1
    <3>2. CASE l # NULL BY <1>4, <2>1, <2>3, <3>2
    <3> QED BY <3>1, <3>2
  <2>6. Frees(b, J)
    <3>1. CASE r = NULL BY <1>2, <2>4, <3>1
    <3>2. CASE r # NULL BY <1>4, <2>1, <2>3, <3>2
    <3> QED BY <3>1, <3>2
  <2>7. K \in SUBSET B[p] /\ \A k \in K : k < Key[p]
    <3>1. l # NULL => \A k \in B[l] : k \in B[p] /\ Beside("left", k, Key[p]) BY <1>1
    <3> QED BY <3>1 DEF Beside
  <2>8. J \in SUBSET B[p] /\ \A k \in J : Key[p] < k
    <3>1. r # NULL => \A k \in B[r] : k \in B[p] /\ Beside("right", k, Key[p]) BY <1>1
    <3> QED BY <3>1 DEF Beside
  <2>9. ASSUME NEW i \in 1..Len(b) PROVE t.parent[b[i]] = p \/ Key[t.parent[b[i]]] \in J
    <3>1. b[i] \in members /\ Key[b[i]] \in J BY <2>6 DEF Frees
    <3>2. r # NULL /\ r \in members /\ J = B[r] BY <2>3, <3>1
    <3>3. CASE b[i] = r
      <4>1. t.parent[r] = p BY <1>1, <3>2, BoundedFacts
      <4> QED BY <3>3, <4>1
    <3>4. CASE b[i] # r
      <4>1. Key[b[i]] \in B[r] BY <3>1, <3>2
      <4> HIDE DEF b, r, J
      <4> QED BY <3>1, <3>2, <3>4, <4>1, ParentUnder
    <3> QED BY <3>3, <3>4
  <2> HIDE DEF K, J, a, b
  <2> QED BY <2>2, <2>5, <2>6, <2>7, <2>8, <2>9, FreesBoth
<1> HIDE DEF S
<1>5. d \in S BY <1>3, <1>4, NatSet
<1> QED BY <1>5 DEF S

\* A walk from a member visits what is below it.
LEMMA VisitReaches ==
  ASSUME NEW B, Bounded(B), NEW deep \in Nat, NEW v, Visits(v, deep),
         NEW U, AllBelow(U, deep), NEW d \in Nat
  PROVE  d \in 0..deep =>
           \A p \in members, x \in members :
             (\E i \in 1..Len(v[d][p]) : v[d][p][i] = x) <=> x \in U[p][d]
<1> DEFINE S == {e \in Nat : e \in 0..deep =>
                   \A p \in members, x \in members : Holds(v[e][p], x) <=> x \in U[p][e]}
<1>1. /\ members \subseteq Nodes /\ NULL \notin members
      /\ \A n \in members, s \in Sides : t.child[s][n] \in members \cup {NULL}
      /\ Nodes \subseteq Pointer
  BY BoundedFacts DEF Pointer
<1>2. 0 \in S
  <2>1. \A p \in members : v[0][p] = <<>> BY <1>1, VisitSteps
  <2>2. \A x : ~Holds(<<>>, x) BY DEF Holds
  <2>3. \A p \in members : U[p][0] = {} BY DEF AllBelow
  <2> QED BY <2>1, <2>2, <2>3
<1>3. ASSUME NEW n \in Nat, n \in S PROVE n+1 \in S
  <2> SUFFICES ASSUME n+1 \in 0..deep, NEW p \in members, NEW x \in members
               PROVE  Holds(v[n+1][p], x) <=> x \in U[p][n+1]
    OBVIOUS
  <2> DEFINE l == t.child["left"][p]
             r == t.child["right"][p]
             a == v[n][l]
             b == v[n][r]
  <2>1. n \in 0..deep /\ (n+1)-1 = n /\ n+1 # 0 OBVIOUS
  <2>2. v[n+1][p] = a \o b \o <<p>>
    <3>1. p \in Nodes BY <1>1
    <3>2. PICK h : h = n+1 OBVIOUS
    <3>3. h \in 1..deep /\ h-1 = n BY <3>2
    <3>4. v[h][p] = v[h-1][t.child["left"][p]] \o v[h-1][t.child["right"][p]] \o <<p>>
      BY <3>1, <3>3, VisitSteps
    <3> QED BY <3>2, <3>3, <3>4
  <2>3. l \in members \cup {NULL} /\ r \in members \cup {NULL} BY <1>1 DEF Sides
  <2>4. v[n][NULL] = <<>> BY <2>1, VisitSteps
  <2>5. \A c \in members : v[n][c] \in Seq(members)
    BY <2>1, VisitFrees DEF Frees
  <2>6. a \in Seq(members) /\ b \in Seq(members)
    <3>1. <<>> \in Seq(members) OBVIOUS
    <3>2. \A c \in members \cup {NULL} : v[n][c] \in Seq(members) BY <2>4, <2>5, <3>1
    <3> HIDE DEF l, r
    <3> QED BY <2>3, <3>2
  <2>7. Holds(a, x) <=> l # NULL /\ x \in U[l][n]
    <3>1. ~Holds(<<>>, x) BY DEF Holds
    <3> QED BY <1>3, <2>1, <2>3, <2>4, <3>1
  <2>8. Holds(b, x) <=> r # NULL /\ x \in U[r][n]
    <3>1. ~Holds(<<>>, x) BY DEF Holds
    <3> QED BY <1>3, <2>1, <2>3, <2>4, <3>1
  <2> HIDE DEF a, b
  <2>9. Holds(a \o b \o <<p>>, x) <=> Holds(a, x) \/ Holds(b, x) \/ x = p
    BY <2>6, HoldsConcat
  <2>10. x \in U[p][n+1] <=>
           x = p \/ \E s \in Sides : t.child[s][p] # NULL /\ x \in U[t.child[s][p]][n]
    BY BelowSplits
  <2>11. x \in U[p][n+1] <=> x = p \/ (l # NULL /\ x \in U[l][n]) \/ (r # NULL /\ x \in U[r][n])
    BY <2>10 DEF Sides
  <2> QED BY <2>2, <2>7, <2>8, <2>9, <2>11
<1> HIDE DEF S
<1>4. d \in S BY <1>2, <1>3, NatSet
<1> QED BY <1>4 DEF S, Holds

\* Every member is less than as many levels below the root as there are nodes.
LEMMA BelowRoot ==
  ASSUME NEW B, Bounded(B), NEW deep, deep = Cardinality(Nodes), NEW U, AllBelow(U, deep),
         NEW x \in members
  PROVE  x \in U[t.root][deep]
<1> DEFINE Comes(q, Y) == q \notin Y /\ \A y \in Y : t.parent[y] \in Y \cup {q}
           S == {e \in Nat : e \in 0..deep =>
                   \A q \in members, Y \in SUBSET members :
                     Cardinality(Y) + e >= deep /\ Comes(q, Y) => q \in U[t.root][e]}
<1>1. /\ members \subseteq Nodes /\ NULL \notin members /\ IsFiniteSet(Nodes)
      /\ \A n \in members : t.parent[n] \in members \cup {NULL}
      /\ \A n \in members : t.parent[n] = NULL => t.root = n
      /\ t.root \in members
  BY Down, BoundedFacts, ConstantsAssumption
<1>2. /\ deep \in Nat /\ \A Y \in SUBSET members : IsFiniteSet(Y) /\ Cardinality(Y) \in Nat
                                                   /\ Cardinality(Y) <= deep
      /\ \A Y \in SUBSET members : Cardinality(Y) = deep => Y = Nodes
  BY <1>1, FS_Subset, FS_CardinalityType
<1>3. ASSUME NEW e \in 1..deep
      PROVE  U[t.root][e] = {t.root} \cup {n \in members : t.parent[n] \in U[t.root][e-1]}
  BY <1>1 DEF AllBelow
<1>4. 0 \in S
  <2> SUFFICES ASSUME NEW q \in members, NEW Y \in SUBSET members,
                      Cardinality(Y) + 0 >= deep, Comes(q, Y)
               PROVE  FALSE
    OBVIOUS
  <2>1. Cardinality(Y) = deep BY <1>2
  <2>2. Y = Nodes BY <1>2, <2>1
  <2> QED BY <1>1, <2>2
<1>5. ASSUME NEW n \in Nat, n \in S PROVE n+1 \in S
  <2> SUFFICES ASSUME n+1 \in 0..deep, NEW q \in members, NEW Y \in SUBSET members,
                      Cardinality(Y) + (n+1) >= deep, Comes(q, Y)
               PROVE  q \in U[t.root][n+1]
    OBVIOUS
  <2>1. n \in 0..deep /\ n+1 \in 1..deep /\ (n+1)-1 = n BY <1>2
  <2>2. U[t.root][n+1] = {t.root} \cup {z \in members : t.parent[z] \in U[t.root][n]}
    BY <1>3, <2>1
  <2>3. CASE t.parent[q] = NULL BY <1>1, <2>2, <2>3
  <2>4. CASE t.parent[q] # NULL
    <3> DEFINE p == t.parent[q]
               Z == Y \cup {q}
    <3>1. p \in members /\ Z \in SUBSET members BY <1>1, <2>4
    <3>2. \A y \in Z : t.parent[y] \in Z \cup {p} OBVIOUS
    <3>3. p \notin Z
      <4>1. SUFFICES ASSUME p \in Z PROVE FALSE OBVIOUS
      <4>2. \A y \in Z : t.parent[y] \in Z BY <3>2, <4>1
      <4>3. Z # {} OBVIOUS
      <4> HIDE DEF Z
      <4> QED BY <3>1, <4>2, <4>3, BoundedFacts
    <3>4. Cardinality(Z) = Cardinality(Y) + 1 BY <1>2, FS_AddElement
    <3>5. Cardinality(Z) + n >= deep BY <1>2, <3>1, <3>4
    <3> HIDE DEF Z
    <3>6. p \in U[t.root][n] BY <1>5, <2>1, <3>1, <3>2, <3>3, <3>5
    <3> QED BY <2>2, <3>6
  <2> QED BY <2>3, <2>4
<1> HIDE DEF S
<1>6. deep \in S BY <1>2, <1>4, <1>5, NatSet
<1>7. Comes(x, {}) /\ {} \in SUBSET members OBVIOUS
<1>8. Cardinality({}) + deep >= deep BY <1>2, FS_EmptySet
<1>9. deep \in 0..deep BY <1>2
<1> HIDE DEF Comes
<1> QED BY <1>6, <1>7, <1>8, <1>9 DEF S

\* What a walk with deep levels visits from a member.
LEMMA IterateMember ==
  ASSUME NEW B, Bounded(B), NEW deep \in Nat, NEW start \in members
  PROVE  LET w == Visit(start, deep)
         IN  /\ Frees(w, B[start]) /\ Range(w) = Below(start, deep)
             /\ deep = Cardinality(Nodes) /\ start = t.root => Range(w) = members
<1> DEFINE w == Visit(start, deep)
<1>1. t \in Tree /\ members \subseteq Nodes BY Around DEF Bounded, LinkInv
<1>2. PICK v : Visits(v, deep) /\ w = v[deep][start] BY <1>1, VisitIs
<1>3. PICK U : AllBelow(U, deep) /\ Below(start, deep) = U[start][deep] BY <1>1, BelowIs
<1>4. deep \in 0..deep OBVIOUS
<1> HIDE DEF w
<1>5. Frees(w, B[start]) BY <1>2, <1>4, VisitFrees
<1>6. w \in Seq(members) BY <1>5 DEF Frees
<1>7. DOMAIN w = 1..Len(w) /\ \A i \in 1..Len(w) : w[i] \in members BY <1>6
<1>8. \A x \in members : (\E i \in 1..Len(w) : w[i] = x) <=> x \in U[start][deep]
  BY <1>2, <1>3, <1>4, VisitReaches
<1>9. U[start][deep] \subseteq members
  <2>1. CASE deep = 0 BY <1>3, <2>1 DEF AllBelow
  <2>2. CASE deep # 0
    <3>1. deep \in 1..deep BY <2>2
    <3>2. U[start][deep] = {start} \cup {n \in members : t.parent[n] \in U[start][deep-1]}
      BY <1>3, <3>1 DEF AllBelow
    <3> QED BY <3>2
  <2> QED BY <2>1, <2>2
<1>10. \A x : x \in Range(w) <=> \E i \in 1..Len(w) : w[i] = x BY <1>7 DEF Range
<1>11. Range(w) = U[start][deep] BY <1>7, <1>8, <1>9, <1>10
<1>12. ASSUME deep = Cardinality(Nodes), start = t.root PROVE Range(w) = members
  <2>1. \A x \in members : x \in U[start][deep] BY <1>3, <1>12, BelowRoot
  <2> QED BY <1>9, <1>11, <2>1
<1> QED BY <1>3, <1>5, <1>11, <1>12 DEF w

LEMMA OrderedIterates == OrderInv => Iterates
<1> SUFFICES ASSUME OrderInv PROVE Iterates
  OBVIOUS
<1> DEFINE C == Cardinality(Nodes)
<1>1. /\ t \in Tree /\ members \subseteq Nodes /\ NULL \notin members
      /\ t.root \in members \cup {NULL} /\ Good(t, members)
  BY Around DEF OrderInv, LinkInv
<1>2. PICK B : Bounded(B) BY DEF OrderInv, Sorted, Bounded
<1>3. C \in Nat BY NodesCounted
<1>4. Range(Visit(t.root, C)) = members
  <2>1. CASE t.root = NULL
    <3>1. members = {} BY <1>1, <2>1, NoRoot
    <3>2. PICK v : Visits(v, C) /\ Visit(NULL, C) = v[C][NULL] BY <1>1, <1>3, VisitIs
    <3>3. C \in 0..C BY <1>3
    <3>4. v[C][NULL] = <<>> BY <1>3, <3>2, <3>3, VisitSteps
    <3>5. Range(<<>>) = {} BY DEF Range
    <3> QED BY <2>1, <3>1, <3>2, <3>4, <3>5
  <2>2. CASE t.root # NULL BY <1>1, <1>2, <1>3, <2>2, IterateMember
  <2> QED BY <2>1, <2>2
<1>5. ASSUME NEW start \in members, NEW deep \in 0..C
      PROVE  LET w == Iterate(start, deep)
             IN  /\ IsInjective(w)
                 /\ \A i \in DOMAIN w : \A j \in 1..i : t.parent[w[i]] # w[j]
                 /\ Range(w) = Below(start, deep)
  <2> DEFINE w == Iterate(start, deep)
  <2>1. deep \in Nat BY <1>3
  <2>2. w = Visit(start, deep) BY DEF Iterate
  <2>3. Frees(w, B[start]) /\ Range(w) = Below(start, deep)
    BY <1>2, <2>1, <2>2, IterateMember
  <2> HIDE DEF w
  <2>4. /\ w \in Seq(members)
        /\ \A i, j \in 1..Len(w) : w[i] = w[j] => i = j
        /\ \A i, j \in 1..Len(w) : j <= i => t.parent[w[i]] # w[j]
    BY <2>3 DEF Frees
  <2>5. DOMAIN w = 1..Len(w) /\ Len(w) \in Nat BY <2>4
  <2>6. IsInjective(w) BY <2>4, <2>5 DEF IsInjective
  <2>7. ASSUME NEW i \in DOMAIN w, NEW j \in 1..i PROVE t.parent[w[i]] # w[j]
    <3>1. i \in 1..Len(w) /\ j \in 1..Len(w) /\ j <= i BY <2>5
    <3> QED BY <2>4, <3>1
  <2> QED BY <2>3, <2>6, <2>7 DEF w
<1> QED BY <1>4, <1>5 DEF Iterates

\* When a call has returned, a walk from a member visits what is less than
\* deep levels below it, each node once and after its children, so that the
\* visit may free it; from the root it visits all members.
THEOREM IteratesHolds == Spec => []Iterates
BY OrderedIterates, OrderAlways, PTL
=============================================================================
