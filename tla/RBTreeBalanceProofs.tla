------------------------ MODULE RBTreeBalanceProofs ------------------------
(***************************************************************************)
(* The colours of the red-black tree, for any nodes and keys: when a call  *)
(* returns the tree is balanced.                                           *)
(*                                                                         *)
(* The invariant gives every node a height, the black nodes on a way down  *)
(* from it, which is the same for all ways; in __rb_erase_color one side   *)
(* of one node is one short.  A red node under a red one, or a red root,   *)
(* is there only where the loop is about to look at it.                    *)
(***************************************************************************)
EXTENDS RBTreeOrderProofs

Tint(m, n) == IF m.black[n] THEN 1 ELSE 0

\* h is the height of each node of M in m, where the side e of g is one
\* short (and no side, when g is not in M).
Heights(m, M, h, g, e) ==
  /\ h \in [Pointer -> Nat] /\ h[NULL] = 0
  /\ \A n \in M, d \in Sides :
       h[n] = h[m.child[d][n]] + Tint(m, n) + (IF n = g /\ d = e THEN 1 ELSE 0)

\* Only the nodes X may be red under a red parent or at the root.
Reds(m, M, X) ==
  \A n \in M : ~m.black[n] /\ (m.parent[n] = NULL \/ ~m.black[m.parent[n]]) => n \in X

Even(m, M, g, e, X) == Reds(m, M, X) /\ \E h : Heights(m, M, h, g, e)

\* The node __rb_erase_color is at, and the nodes under it.
Excused == {n \in members : n = node \/ (node # NULL /\ t.parent[n] = node)}

Colors ==
  /\ pc \notin {"insert_color", "erase_color"} => Even(t, members, NULL, "left", {})
  /\ pc = "insert_color" => ~t.black[node] /\ Even(t, members, NULL, "left", {node})
  /\ pc = "erase_color" =>
       /\ node # NULL => t.parent[node] = parent
       /\ parent = NULL => node = t.root
       /\ \E e \in Sides : /\ parent # NULL => t.child[e][parent] = node
                           /\ Even(t, members, parent, e, Excused)

ColorInv == LinkInv /\ Colors

LEMMA ColorInit == Init => ColorInv
<1> SUFFICES ASSUME Init PROVE ColorInv
  OBVIOUS
<1>1. members = {} /\ pc = "idle" BY DEF Init
<1>2. Heights(t, members, [p \in Pointer |-> 0], NULL, "left")
  BY <1>1 DEF Heights, Pointer
<1> QED BY <1>1, <1>2, LinkInit DEF ColorInv, Colors, Even, Reds

\* What the heights and the colours say of a node and its children.
LEMMA HeightFacts ==
  ASSUME NEW m, NEW M, Good(m, M), NEW h, NEW g, NEW e, Heights(m, M, h, g, e)
  PROVE  /\ h[NULL] = 0 /\ M \subseteq Pointer /\ NULL \in Pointer
         /\ \A x \in Pointer : h[x] \in Nat
         /\ \A x \in M : m.black[x] \in BOOLEAN
         /\ \A n \in M, d \in Sides :
              /\ m.child[d][n] \in Pointer
              /\ h[n] = h[m.child[d][n]] + Tint(m, n) + (IF n = g /\ d = e THEN 1 ELSE 0)
<1>1. m \in Tree /\ M \subseteq Nodes BY DEF Good
<1> QED BY <1>1 DEF Heights, Tree, Pointer

-----------------------------------------------------------------------------
(* A rotation *)

\* The heights i, where the side u of f is one short, fit the two nodes that
\* turn; the others are as h, where the side e of g was, says.
TurnedHeights(m, M, s, n, h, g, e, j, i, f, u) ==
  LET o == Other(s)
      c == m.child[o][n]
      b == m.child[s][c]
      Gap(x, d) == IF x = f /\ d = u THEN 1 ELSE 0
  IN  /\ i \in [Pointer -> Nat] /\ i[NULL] = 0 /\ i[c] = h[n]
      /\ i[n] = i[b] + Tint(j, n) + Gap(n, o)
      /\ i[n] = i[m.child[s][n]] + Tint(j, n) + Gap(n, s)
      /\ i[c] = i[n] + Tint(j, c) + Gap(c, s)
      /\ i[c] = i[m.child[o][c]] + Tint(j, c) + Gap(c, o)
      /\ \A x \in M \ {n, c} :
           /\ i[x] + Tint(m, x) = h[x] + Tint(j, x)
           /\ \A d \in Sides : x = f /\ d = u <=> x = g /\ d = e
           /\ m.parent[x] # c /\ m.parent[x] # n => i[x] = h[x]

LEMMA RotateHeights ==
  ASSUME NEW m, NEW M, Good(m, M), NEW s \in Sides, NEW n \in M,
         m.child[Other(s)][n] # NULL,
         NEW h, NEW g, NEW e, Heights(m, M, h, g, e),
         NEW k, SamePointers(m, k), NEW j, SamePointers(Rotate(k, s, n), j),
         NEW i, NEW f, NEW u, TurnedHeights(m, M, s, n, h, g, e, j, i, f, u)
  PROVE  Heights(j, M, i, f, u)
<1> DEFINE o == Other(s)
           c == k.child[o][n]
           b == k.child[s][c]
           p == k.parent[n]
           r == Rotate(k, s, n)
           Gap(x, d) == IF x = f /\ d = u THEN 1 ELSE 0
<1>1. /\ Good(k, M) /\ k \in Tree /\ k.parent = m.parent /\ k.child = m.child /\ k.root = m.root
  BY SamePointersGood DEF SamePointers
<1>2. /\ c \in M /\ k.parent[c] = n /\ c # n /\ c # p /\ p # n
      /\ \A d \in Sides, x \in Nodes :
           r.child[d][x] = IF x = n /\ d = o THEN b
                           ELSE IF x = c /\ d = s THEN n
                           ELSE IF x = p /\ k.child[d][x] = n THEN c
                           ELSE k.child[d][x]
  <2>1. k.child[Other(s)][n] # NULL BY <1>1
  <2>2. c \in M /\ k.parent[c] = n /\ c # n /\ c # p /\ p # n BY <1>1, <2>1, RotateWrites
  <2>3. \A d \in Sides, x \in Nodes :
           r.child[d][x] = IF x = n /\ d = o THEN b
                           ELSE IF x = c /\ d = s THEN n
                           ELSE IF x = p /\ k.child[d][x] = n THEN c
                           ELSE k.child[d][x]
    BY <1>1, <2>1, RotateWrites
  <2> QED BY <2>2, <2>3
<1>3. j.child = r.child BY DEF SamePointers
<1>4. /\ M \subseteq Nodes /\ NULL \notin M /\ o \in Sides /\ o # s
      /\ \A d \in Sides : d = s \/ d = o
      /\ \A x \in M, d \in Sides :
           /\ m.child[d][x] \in M \cup {NULL}
           /\ m.child[d][x] # NULL => m.parent[m.child[d][x]] = x
  <2>1. o \in Sides /\ o # s /\ \A d \in Sides : d = s \/ d = o BY OtherSide
  <2>2. M \subseteq Nodes /\ NULL \notin M BY Around
  <2>3. \A x \in M, d \in Sides :
           /\ m.child[d][x] \in M \cup {NULL}
           /\ m.child[d][x] # NULL => m.parent[m.child[d][x]] = x
    BY Around
  <2> QED BY <2>1, <2>2, <2>3
<1>5. /\ h[NULL] = 0 /\ M \subseteq Pointer /\ \A x \in Pointer : h[x] \in Nat /\ i[x] \in Nat
      /\ \A x \in M, d \in Sides :
           h[x] = h[m.child[d][x]] + Tint(m, x) + (IF x = g /\ d = e THEN 1 ELSE 0)
  BY HeightFacts DEF TurnedHeights
<1>6. \A x : Tint(m, x) \in Nat /\ Tint(j, x) \in Nat BY DEF Tint
<1>9. m.parent[n] = p /\ m.parent[c] = n BY <1>1, <1>2
<1> HIDE DEF o, c, b, p, r, Tint
<1>7. /\ i \in [Pointer -> Nat] /\ i[NULL] = 0 /\ i[c] = h[n]
      /\ i[n] = i[b] + Tint(j, n) + Gap(n, o)
      /\ i[n] = i[m.child[s][n]] + Tint(j, n) + Gap(n, s)
      /\ i[c] = i[n] + Tint(j, c) + Gap(c, s)
      /\ i[c] = i[m.child[o][c]] + Tint(j, c) + Gap(c, o)
      /\ \A x \in M \ {n, c} :
           /\ i[x] + Tint(m, x) = h[x] + Tint(j, x)
           /\ \A d \in Sides : x = f /\ d = u <=> x = g /\ d = e
           /\ m.parent[x] # c /\ m.parent[x] # n => i[x] = h[x]
  BY <1>1 DEF o, c, b, TurnedHeights
<1>8. ASSUME NEW x \in M, NEW d \in Sides
      PROVE  i[x] = i[j.child[d][x]] + Tint(j, x) + Gap(x, d)
  <2>1. j.child[d][x] = IF x = n /\ d = o THEN b
                        ELSE IF x = c /\ d = s THEN n
                        ELSE IF x = p /\ m.child[d][x] = n THEN c
                        ELSE m.child[d][x]
    BY <1>1, <1>2, <1>3, <1>4
  <2>2. CASE x = n BY <1>2, <1>4, <1>7, <2>1, <2>2
  <2>3. CASE x = c
    <3>1. j.child[d][x] = IF d = s THEN n ELSE m.child[d][x] BY <1>2, <2>1, <2>3
    <3> HIDE DEF Gap
    <3> QED BY <1>4, <1>7, <2>3, <3>1
  <2>4. CASE x # n /\ x # c
    <3> DEFINE z == m.child[d][x]
    <3>1. h[x] = h[z] + Tint(m, x) + Gap(x, d) BY <1>5, <1>7, <2>4
    <3>2. i[x] + Tint(m, x) = h[x] + Tint(j, x) BY <1>7, <2>4
    <3>3. z \in M \cup {NULL} /\ (z # NULL => m.parent[z] = x) BY <1>4
    <3>4. z \in Pointer /\ x \in Pointer BY <1>4, <1>5, <3>3 DEF Pointer
    <3>5. h[z] = i[j.child[d][x]]
      <4>1. CASE z = n
        <5>1. x = p /\ j.child[d][x] = c BY <1>4, <1>9, <2>1, <2>4, <3>3, <4>1
        <5> QED BY <1>7, <4>1, <5>1
      <4>2. CASE z # n
        <5>1. j.child[d][x] = z BY <2>1, <2>4, <4>2
        <5>2. z # c BY <1>2, <1>4, <1>9, <2>4, <3>3
        <5>3. z # NULL => i[z] = h[z] BY <1>7, <2>4, <3>3, <4>2, <5>2
        <5> QED BY <1>5, <1>7, <5>1, <5>3
      <4> QED BY <4>1, <4>2
    <3>6. Gap(x, d) \in Nat /\ h[z] \in Nat /\ h[x] \in Nat /\ i[x] \in Nat BY <1>5, <3>4
    <3>7. Tint(m, x) \in Nat /\ Tint(j, x) \in Nat BY <1>6
    <3>8. i[x] = h[z] + Tint(j, x) + Gap(x, d)
      <4> HIDE DEF z, Gap
      <4> QED BY <3>1, <3>2, <3>6, <3>7
    <3> QED BY <3>5, <3>8
  <2> QED BY <2>2, <2>3, <2>4
<1> QED BY <1>7, <1>8 DEF Heights

\* In j, which has turned them, only X are red under a red parent.
TurnedReds(m, M, s, n, j, X) ==
  LET c == m.child[Other(s)][n]
      b == m.child[s][c]
      p == m.parent[n]
  IN  /\ ~j.black[n] /\ ~j.black[c] => n \in X
      /\ ~j.black[c] /\ (p = NULL \/ ~j.black[p]) => c \in X
      /\ b # NULL /\ ~j.black[b] /\ ~j.black[n] => b \in X
      /\ \A x \in M \ {n, c, b} :
           ~j.black[x] /\ (m.parent[x] = NULL \/ ~j.black[m.parent[x]]) => x \in X

LEMMA RotateReds ==
  ASSUME NEW m, NEW M, Good(m, M), NEW s \in Sides, NEW n \in M,
         m.child[Other(s)][n] # NULL,
         NEW k, SamePointers(m, k), NEW j, SamePointers(Rotate(k, s, n), j), NEW X,
         TurnedReds(m, M, s, n, j, X)
  PROVE  Reds(j, M, X)
<1> DEFINE o == Other(s)
           c == k.child[o][n]
           b == k.child[s][c]
           p == k.parent[n]
           r == Rotate(k, s, n)
<1>1. /\ Good(k, M) /\ k.parent = m.parent /\ k.child = m.child
  BY SamePointersGood DEF SamePointers
<1>2. /\ c \in M /\ c # n /\ c # b /\ b # n
      /\ \A x \in Nodes : r.parent[x] = IF x = n THEN c ELSE IF x = c THEN p
                                        ELSE IF x = b THEN n ELSE k.parent[x]
  BY <1>1, RotateWrites
<1>3. j.parent = r.parent BY DEF SamePointers
<1>4. M \subseteq Nodes /\ NULL \notin M BY Around
<1> HIDE DEF o, c, b, p, r
<1>5. /\ ~j.black[n] /\ ~j.black[c] => n \in X
      /\ ~j.black[c] /\ (p = NULL \/ ~j.black[p]) => c \in X
      /\ b # NULL /\ ~j.black[b] /\ ~j.black[n] => b \in X
      /\ \A x \in M \ {n, c, b} :
           ~j.black[x] /\ (m.parent[x] = NULL \/ ~j.black[m.parent[x]]) => x \in X
  BY <1>1 DEF o, c, b, p, TurnedReds
<1> SUFFICES ASSUME NEW x \in M, ~j.black[x], j.parent[x] = NULL \/ ~j.black[j.parent[x]]
             PROVE  x \in X
  BY DEF Reds
<1>6. j.parent[x] = IF x = n THEN c ELSE IF x = c THEN p ELSE IF x = b THEN n ELSE m.parent[x]
  BY <1>1, <1>2, <1>3, <1>4
<1>7. CASE x = n BY <1>2, <1>4, <1>5, <1>6, <1>7
<1>8. CASE x = c BY <1>2, <1>5, <1>6, <1>8
<1>9. CASE x = b BY <1>2, <1>4, <1>5, <1>6, <1>9
<1>10. CASE x \notin {n, c, b} BY <1>5, <1>6, <1>10
<1> QED BY <1>7, <1>8, <1>9, <1>10

-----------------------------------------------------------------------------
(* A leaf, a new name, and a node that goes *)

LEMMA MoreReds ==
  ASSUME NEW m, NEW M, NEW g, NEW e, NEW X, NEW Y, Even(m, M, g, e, X), X \cap M \subseteq Y
  PROVE  Even(m, M, g, e, Y)
  BY DEF Even, Reds

LEMMA LinkEven ==
  ASSUME NEW m, NEW M, Good(m, M), NEW a \in Nodes \ M, NEW p \in M \cup {NULL},
         NEW s \in Sides, NEW r, Links(m, r, M, p, s, a),
         p # NULL => m.child[s][p] = NULL, Even(m, M, NULL, "left", {})
  PROVE  Even(r, M \cup {a}, NULL, "left", {a})
<1>1. PICK h : Heights(m, M, h, NULL, "left") BY DEF Even
<1>2. /\ M \subseteq Nodes /\ NULL \notin M /\ NULL \notin Nodes
      /\ \A x \in M, d \in Sides : m.child[d][x] \in M \cup {NULL}
      /\ \A x \in M : m.parent[x] \in M \cup {NULL}
  BY Around, ConstantsAssumption
<1>3. /\ \A x \in M : r.parent[x] = m.parent[x] /\ r.black[x] = m.black[x]
      /\ r.black[a] = FALSE /\ \A d \in Sides : r.child[d][a] = NULL
      /\ \A d \in Sides, x \in M :
           r.child[d][x] = IF x = p /\ d = s THEN a ELSE m.child[d][x]
  BY DEF Links
<1>4. Reds(r, M \cup {a}, {a})
  <2> SUFFICES ASSUME NEW x \in M, ~r.black[x], r.parent[x] = NULL \/ ~r.black[r.parent[x]]
               PROVE  x \in {a}
    BY DEF Reds
  <2>1. ~m.black[x] /\ (m.parent[x] = NULL \/ ~m.black[m.parent[x]]) BY <1>2, <1>3
  <2> QED BY <2>1 DEF Even, Reds
<1> DEFINE i == [x \in Pointer |-> IF x = a THEN 0 ELSE h[x]]
<1>5. /\ h[NULL] = 0 /\ M \subseteq Pointer /\ NULL \in Pointer
      /\ \A x \in Pointer : h[x] \in Nat
      /\ \A x \in M, d \in Sides : h[x] = h[m.child[d][x]] + Tint(m, x) + 0
  BY <1>1, <1>2, HeightFacts
<1>6. i \in [Pointer -> Nat] /\ i[NULL] = 0 /\ i[a] = 0
      /\ \A x \in M \cup {NULL} : i[x] = h[x]
  BY <1>2, <1>5 DEF Pointer
<1> HIDE DEF i
<1>7. ASSUME NEW x \in M \cup {a}, NEW d \in Sides
      PROVE  i[x] = i[r.child[d][x]] + Tint(r, x) + (IF x = NULL /\ d = "left" THEN 1 ELSE 0)
  <2>1. CASE x = a
    <3>1. Tint(r, x) = 0 BY <1>3, <2>1 DEF Tint
    <3> QED BY <1>2, <1>3, <1>6, <2>1, <3>1
  <2>2. CASE x # a
    <3>1. x \in M /\ x # NULL /\ Tint(r, x) = Tint(m, x) BY <1>2, <1>3, <2>2 DEF Tint
    <3>2. i[r.child[d][x]] = h[m.child[d][x]] BY <1>2, <1>3, <1>5, <1>6, <3>1
    <3> QED BY <1>5, <1>6, <3>1, <3>2
  <2> QED BY <2>1, <2>2
<1>8. Heights(r, M \cup {a}, i, NULL, "left") BY <1>6, <1>7 DEF Heights
<1> QED BY <1>4, <1>8 DEF Even

LEMMA RenameEven ==
  ASSUME NEW m, NEW M, Good(m, M), NEW v \in M, NEW n \in Nodes \ M,
         NEW r, Renames(m, r, M, v, n),
         NEW g, NEW e, NEW X, v \notin X, g # n, Even(m, M, g, e, X)
  PROVE  Even(r, (M \ {v}) \cup {n}, IF g = v THEN n ELSE g, e, X)
<1> DEFINE Q == (M \ {v}) \cup {n}
           f == IF g = v THEN n ELSE g
<1>1. PICK h : Heights(m, M, h, g, e) BY DEF Even
<1>2. /\ M \subseteq Nodes /\ NULL \notin M /\ NULL \notin Nodes
      /\ \A x \in M, d \in Sides : m.child[d][x] \in M \cup {NULL}
      /\ \A x \in M : m.parent[x] \in M \cup {NULL}
      /\ \A x \in M, d \in Sides : m.child[d][x] # NULL => m.parent[m.child[d][x]] = x
      /\ \A x \in M : m.parent[x] # x
  BY Around, ConstantsAssumption, NoLoop DEF Good
<1>3. /\ \A x \in M \ {v} : r.parent[x] = IF m.parent[x] = v THEN n ELSE m.parent[x]
      /\ r.parent[n] = m.parent[v] /\ r.black[n] = m.black[v]
      /\ \A d \in Sides, x \in M \ {v} :
           r.child[d][x] = IF m.child[d][x] = v THEN n ELSE m.child[d][x]
      /\ \A d \in Sides : r.child[d][n] = m.child[d][v]
      /\ \A x \in M \ {v} : r.black[x] = m.black[x]
  BY DEF Renames
<1>4. Reds(r, Q, X)
  <2> SUFFICES ASSUME NEW x \in Q, ~r.black[x], r.parent[x] = NULL \/ ~r.black[r.parent[x]]
               PROVE  x \in X
    BY DEF Reds
  <2>1. CASE x = n
    <3>1. ~m.black[v] /\ (m.parent[v] = NULL \/ ~m.black[m.parent[v]]) BY <1>2, <1>3, <2>1
    <3> QED BY <3>1 DEF Even, Reds
  <2>2. CASE x # n
    <3>1. ~m.black[x] /\ (m.parent[x] = NULL \/ ~m.black[m.parent[x]]) BY <1>2, <1>3, <2>2
    <3> QED BY <2>2, <3>1 DEF Even, Reds
  <2> QED BY <2>1, <2>2
<1> DEFINE i == [x \in Pointer |-> IF x = n THEN h[v] ELSE h[x]]
<1>5. /\ h[NULL] = 0 /\ M \subseteq Pointer /\ NULL \in Pointer
      /\ \A x \in Pointer : h[x] \in Nat
      /\ \A x \in M, d \in Sides :
           h[x] = h[m.child[d][x]] + Tint(m, x) + (IF x = g /\ d = e THEN 1 ELSE 0)
  BY <1>1, HeightFacts
<1>6. i \in [Pointer -> Nat] /\ i[NULL] = 0 /\ i[n] = h[v]
      /\ \A x \in M \cup {NULL} : i[x] = h[x]
  BY <1>2, <1>5 DEF Pointer
<1> HIDE DEF i
<1>7. ASSUME NEW x \in Q, NEW d \in Sides
      PROVE  i[x] = i[r.child[d][x]] + Tint(r, x) + (IF x = f /\ d = e THEN 1 ELSE 0)
  <2>1. CASE x = n
    <3>1. Tint(r, x) = Tint(m, v) BY <1>3, <2>1 DEF Tint
    <3>2. i[r.child[d][x]] = h[m.child[d][v]] BY <1>2, <1>3, <1>6, <2>1
    <3>3. x = f <=> v = g BY <2>1
    <3> QED BY <1>5, <1>6, <2>1, <3>1, <3>2, <3>3
  <2>2. CASE x # n
    <3>1. x \in M \ {v} /\ Tint(r, x) = Tint(m, x) BY <1>3, <2>2 DEF Tint
    <3>2. i[r.child[d][x]] = h[m.child[d][x]] BY <1>2, <1>3, <1>6, <3>1
    <3>3. x = f <=> x = g BY <2>2, <3>1
    <3> QED BY <1>5, <1>6, <3>1, <3>2, <3>3
  <2> QED BY <2>1, <2>2
<1>8. Heights(r, Q, i, f, e) BY <1>6, <1>7 DEF Heights
<1> QED BY <1>4, <1>8 DEF Even

\* A black node that goes leaves its place one short, a red one does not.
LEMMA CutEven ==
  ASSUME NEW m, NEW M, Good(m, M), NEW v \in M, NEW s \in Sides,
         m.child[Other(s)][v] = NULL, Even(m, M, NULL, "left", {})
  PROVE  LET c == m.child[s][v]
             p == m.parent[v]
             r == Cut(m, v, c)
         IN  IF m.black[v]
             THEN \E e \in Sides : /\ p # NULL => r.child[e][p] = c
                                   /\ Even(r, M \ {v}, p, e, {c})
             ELSE Even(r, M \ {v}, NULL, "left", {})
<1> DEFINE c == m.child[s][v]
           p == m.parent[v]
           r == Cut(m, v, c)
           Q == M \ {v}
<1>1. PICK h : Heights(m, M, h, NULL, "left") BY DEF Even
<1>2. /\ M \subseteq Nodes /\ NULL \notin M
      /\ \A x \in M, d \in Sides : m.child[d][x] \in M \cup {NULL}
      /\ \A x \in M : m.parent[x] \in M \cup {NULL}
      /\ \A x \in M, d \in Sides : m.child[d][x] # NULL => m.parent[m.child[d][x]] = x
      /\ \A x \in M : m.parent[x] # x /\ Hangs(m, x)
  BY Around, NoLoop DEF Good
<1>3. /\ \A x \in Nodes \ {v} : r.parent[x] = IF x = c THEN p ELSE m.parent[x]
      /\ \A d \in Sides, x \in Nodes \ {v} :
           r.child[d][x] = IF x = p /\ m.child[d][x] = v THEN c ELSE m.child[d][x]
      /\ \A x \in Nodes \ {v} : r.black[x] = m.black[x]
  BY CutWrites
<1>4. /\ h[NULL] = 0 /\ M \subseteq Pointer /\ NULL \in Pointer
      /\ \A x \in Pointer : h[x] \in Nat
      /\ \A x \in M, d \in Sides : h[x] = h[m.child[d][x]] + Tint(m, x) + 0
  BY <1>1, <1>2, HeightFacts
<1>5. \A x \in M : ~m.black[x] => m.parent[x] # NULL /\ m.black[m.parent[x]]
  BY DEF Even, Reds
<1>6. \A x \in Q : m.parent[x] = v => x = c
  <2> SUFFICES ASSUME NEW x \in Q, m.parent[x] = v PROVE x = c
    OBVIOUS
  <2>1. \E d \in Sides : m.child[d][v] = x BY <1>2 DEF Hangs
  <2> QED BY <1>2, <2>1, OtherSide
<1>7. /\ p \in M \cup {NULL} /\ p # v /\ m.parent[v] = p /\ c \in M \cup {NULL}
      /\ c # NULL => m.parent[c] = v
      /\ h[v] = h[c] + Tint(m, v) + 0
      /\ \A d \in Sides, x \in M : m.child[d][x] = v => x = p
  BY <1>2, <1>4
<1>8. \A x \in Q : Tint(r, x) = Tint(m, x) BY <1>2, <1>3 DEF Tint
<1>9. \A d \in Sides, x \in Q : h[r.child[d][x]] = IF m.child[d][x] = v THEN h[c]
                                                   ELSE h[m.child[d][x]]
  BY <1>2, <1>3, <1>7
<1>10. h \in [Pointer -> Nat] BY <1>1 DEF Heights
<1> HIDE DEF c, p, r
<1>11. CASE m.black[v]
  <2>1. Reds(r, Q, {c})
    <3> SUFFICES ASSUME NEW x \in Q, ~r.black[x], x # c,
                        r.parent[x] = NULL \/ ~r.black[r.parent[x]]
                 PROVE  FALSE
      BY DEF Reds
    <3>1. r.parent[x] = m.parent[x] /\ ~m.black[x] BY <1>2, <1>3
    <3>2. m.parent[x] # v /\ m.parent[x] # NULL /\ m.black[m.parent[x]] BY <1>5, <1>6, <3>1
    <3> QED BY <1>2, <1>3, <3>1, <3>2
  <2>2. PICK e \in Sides : p # NULL => m.child[e][p] = v /\ m.child[Other(e)][p] # v
    BY <1>2, <1>7 DEF Hangs, Sides
  <2>3. ASSUME NEW x \in Q, NEW d \in Sides
        PROVE  h[x] = h[r.child[d][x]] + Tint(r, x) + (IF x = p /\ d = e THEN 1 ELSE 0)
    <3>1. Tint(m, v) = 1 BY <1>11 DEF Tint
    <3>2. m.child[d][x] = v <=> x = p /\ d = e
      <4>1. x # NULL BY <1>2
      <4> QED BY <1>7, <2>2, <4>1, OtherSide
    <3>3. h[x] = h[m.child[d][x]] + Tint(m, x) + 0 BY <1>4
    <3>4. Tint(m, x) \in Nat /\ h[c] \in Nat /\ h[m.child[d][x]] \in Nat
      <4>1. c \in Pointer /\ m.child[d][x] \in Pointer BY <1>2, <1>4, <1>7
      <4> QED BY <1>4, <4>1 DEF Tint
    <3>5. Tint(r, x) = Tint(m, x) BY <1>8
    <3> HIDE DEF Tint
    <3>6. CASE m.child[d][x] = v
      <4>1. h[r.child[d][x]] = h[c] /\ h[x] = h[v] + Tint(m, x) + 0 BY <1>9, <3>3, <3>6
      <4> QED BY <1>7, <3>1, <3>2, <3>4, <3>5, <3>6, <4>1
    <3>7. CASE m.child[d][x] # v
      <4>1. h[r.child[d][x]] = h[m.child[d][x]] BY <1>9, <3>7
      <4> QED BY <3>2, <3>3, <3>4, <3>5, <3>7, <4>1
    <3> QED BY <3>6, <3>7
  <2>4. Heights(r, Q, h, p, e) BY <1>4, <1>10, <2>3 DEF Heights
  <2>5. p # NULL => r.child[e][p] = c BY <1>2, <1>3, <1>7, <2>2
  <2> QED BY <1>11, <2>1, <2>4, <2>5 DEF Even, c, p, r
<1>12. CASE ~m.black[v]
  <2>1. p # NULL /\ m.black[p] BY <1>5, <1>7, <1>12
  <2>2. c # NULL => m.black[c] BY <1>5, <1>7, <1>12
  <2>3. Reds(r, Q, {})
    <3> SUFFICES ASSUME NEW x \in Q, ~r.black[x],
                        r.parent[x] = NULL \/ ~r.black[r.parent[x]]
                 PROVE  FALSE
      BY DEF Reds
    <3>1. x # c BY <1>2, <1>3, <2>2
    <3>2. r.parent[x] = m.parent[x] /\ ~m.black[x] BY <1>2, <1>3, <3>1
    <3>3. m.parent[x] # v /\ m.parent[x] # NULL /\ m.black[m.parent[x]]
      BY <1>5, <1>6, <3>1, <3>2
    <3> QED BY <1>2, <1>3, <3>2, <3>3
  <2>4. ASSUME NEW x \in Q, NEW d \in Sides
        PROVE  h[x] = h[r.child[d][x]] + Tint(r, x) + (IF x = NULL /\ d = "left" THEN 1 ELSE 0)
    <3>1. Tint(m, v) = 0 BY <1>12 DEF Tint
    <3>2. h[v] = h[c]
      <4>1. h[c] \in Nat BY <1>4, <1>7
      <4> QED BY <1>7, <3>1, <4>1
    <3>3. h[r.child[d][x]] = h[m.child[d][x]] BY <1>9, <3>2
    <3>4. x # NULL BY <1>2
    <3> QED BY <1>4, <1>8, <3>3, <3>4
  <2>5. Heights(r, Q, h, NULL, "left") BY <1>4, <1>10, <2>4 DEF Heights
  <2> QED BY <1>12, <2>3, <2>5 DEF Even, c, p, r
<1> QED BY <1>11, <1>12

\* A node is painted black that is the only red one under a red one, or the
\* root, and makes up for what is short.
LEMMA PaintEven ==
  ASSUME NEW m, NEW M, Good(m, M), NEW g, NEW e \in Sides, NEW X, Even(m, M, g, e, X),
         NEW n \in M \cup {NULL},
         \A x \in X : x = n \/ (n # NULL /\ m.parent[x] = n),
         IF Red(m, n) THEN \/ m.parent[n] = NULL /\ g \notin M
                           \/ m.parent[n] = g /\ g # NULL /\ m.child[e][g] = n
                      ELSE g \notin M
  PROVE  Even(Paint(m, {n}, {}), M, NULL, "left", {})
<1> DEFINE r == Paint(m, {n}, {})
<1>1. PICK h : Heights(m, M, h, g, e) BY DEF Even
<1>2. /\ m \in Tree /\ M \subseteq Nodes /\ NULL \notin M
      /\ \A x \in M, d \in Sides : m.child[d][x] \in M \cup {NULL}
      /\ \A x \in M : m.parent[x] \in M \cup {NULL}
      /\ \A x \in M, d \in Sides : m.child[d][x] # NULL => m.parent[m.child[d][x]] = x
      /\ \A x \in M : m.parent[x] # x /\ Hangs(m, x)
  BY Around, NoLoop DEF Good
<1>3. r.parent = m.parent /\ r.child = m.child
      /\ \A x \in Nodes : r.black[x] <=> x = n \/ m.black[x]
  <2>1. /\ r.parent = m.parent /\ r.child = m.child
        /\ \A x \in Nodes : r.black[x] = ((x \in {n} \/ m.black[x]) /\ x \notin {})
    BY <1>2, PaintWrites
  <2> QED BY <2>1
<1>4. /\ h[NULL] = 0 /\ M \subseteq Pointer /\ NULL \in Pointer
      /\ \A x \in Pointer : h[x] \in Nat
      /\ \A x \in M, d \in Sides :
           h[x] = h[m.child[d][x]] + Tint(m, x) + (IF x = g /\ d = e THEN 1 ELSE 0)
  BY <1>1, HeightFacts
<1>5. h \in [Pointer -> Nat] BY <1>1 DEF Heights
<1> HIDE DEF r
<1>6. Reds(r, M, {})
  <2> SUFFICES ASSUME NEW x \in M, ~r.black[x], r.parent[x] = NULL \/ ~r.black[r.parent[x]]
               PROVE  FALSE
    BY DEF Reds
  <2>1. x # n /\ ~m.black[x] BY <1>2, <1>3
  <2>2. m.parent[x] = NULL \/ (m.parent[x] # n /\ ~m.black[m.parent[x]]) BY <1>2, <1>3
  <2>3. x \in X BY <2>1, <2>2 DEF Even, Reds
  <2> QED BY <2>1, <2>2, <2>3
<1>7. CASE Red(m, n)
  <2>1. n \in M /\ n # NULL /\ Tint(m, n) = 0 /\ Tint(r, n) = 1
    BY <1>2, <1>3, <1>7 DEF Red, Tint
  <2>2. \A x \in M : x # n => Tint(r, x) = Tint(m, x) BY <1>2, <1>3 DEF Tint
  <2> DEFINE i == [x \in Pointer |-> IF x = n THEN h[x]+1 ELSE h[x]]
  <2>3. i \in [Pointer -> Nat] /\ i[NULL] = 0 /\ i[n] = h[n]+1
        /\ \A x \in Pointer : x # n => i[x] = h[x]
    BY <1>4, <2>1
  <2> HIDE DEF i
  <2>4. ASSUME NEW x \in M, NEW d \in Sides
        PROVE  i[x] = i[m.child[d][x]] + Tint(r, x) + (IF x = NULL /\ d = "left" THEN 1 ELSE 0)
    <3> DEFINE z == m.child[d][x]
    <3>1. /\ x \in Pointer /\ z \in Pointer /\ h[x] \in Nat /\ h[z] \in Nat /\ x # NULL
          /\ z \in M \cup {NULL} /\ z # x
      BY <1>2, <1>4
    <3>2. z = n => x = m.parent[n] BY <1>2, <2>1
    <3>3. h[x] = h[z] + Tint(m, x) + (IF x = g /\ d = e THEN 1 ELSE 0) BY <1>4
    <3>4. z = n <=> x = g /\ d = e
      <4>1. CASE m.parent[n] = NULL /\ g \notin M BY <3>1, <3>2, <4>1
      <4>2. CASE m.parent[n] = g /\ g # NULL /\ m.child[e][g] = n
        <5>1. Hangs(m, n) BY <1>2, <2>1
        <5>2. \A f \in Sides : m.child[f][g] = n => f = e
          BY <4>2, <5>1, OtherSide DEF Hangs
        <5> QED BY <3>2, <4>2, <5>2
      <4> QED BY <1>7, <4>1, <4>2
    <3>5. Tint(m, x) \in Nat BY DEF Tint
    <3> HIDE DEF z
    <3>6. CASE x = n
      <4>1. z # n /\ i[z] = h[z] BY <2>3, <3>1, <3>6
      <4> QED BY <2>1, <2>3, <3>1, <3>3, <3>4, <3>6, <4>1 DEF z
    <3>7. CASE x # n
      <4>1. i[x] = h[x] /\ Tint(r, x) = Tint(m, x) BY <2>2, <2>3, <3>1, <3>7
      <4>2. CASE z = n BY <2>3, <3>1, <3>3, <3>4, <3>5, <4>1, <4>2 DEF z
      <4>3. CASE z # n
        <5>1. i[z] = h[z] BY <2>3, <3>1, <4>3
        <5> QED BY <3>1, <3>3, <3>4, <3>5, <4>1, <4>3, <5>1 DEF z
      <4> QED BY <4>2, <4>3
    <3> QED BY <3>6, <3>7
  <2>5. Heights(r, M, i, NULL, "left") BY <1>3, <2>3, <2>4 DEF Heights
  <2> QED BY <1>6, <2>5 DEF Even, r
<1>8. CASE ~Red(m, n)
  <2>1. \A x \in M : Tint(r, x) = Tint(m, x)
    <3> SUFFICES ASSUME NEW x \in M PROVE r.black[x] <=> m.black[x]
      BY DEF Tint
    <3>1. x = n => m.black[x] BY <1>2, <1>8 DEF Red
    <3> QED BY <1>2, <1>3, <3>1
  <2>2. ASSUME NEW x \in M, NEW d \in Sides
        PROVE  h[x] = h[r.child[d][x]] + Tint(r, x) + (IF x = NULL /\ d = "left" THEN 1 ELSE 0)
    <3>1. x # NULL /\ x # g BY <1>2, <1>8
    <3> QED BY <1>3, <1>4, <2>1, <3>1
  <2>3. Heights(r, M, h, NULL, "left") BY <1>4, <1>5, <2>2 DEF Heights
  <2> QED BY <1>6, <2>3 DEF Even, r
<1> QED BY <1>7, <1>8

-----------------------------------------------------------------------------
(* The steps that link, rename, take out and paint *)

\* A step into a state in which no loop that recolours is running.
LEMMA Settled ==
  ASSUME LinkInv', pc' \notin {"insert_color", "erase_color"},
         Even(t', members', NULL, "left", {})
  PROVE  ColorInv'
  BY DEF ColorInv, Colors

LEMMA ColorKept ==
  ASSUME ColorInv, LinkInv', UNCHANGED <<t, members>>,
         pc \notin {"insert_color", "erase_color"},
         pc' \notin {"insert_color", "erase_color"}
  PROVE  ColorInv'
<1>1. Even(t', members', NULL, "left", {}) BY DEF ColorInv, Colors
<1> QED BY <1>1, Settled

LEMMA ColorInsertLink ==
  ASSUME ColorInv, InsertLink
  PROVE  ColorInv'
<1>1. /\ pc = "insert" /\ node = NULL /\ members' = members \cup {arg}
      /\ pc' = "insert_color" /\ node' = arg
  BY DEF InsertLink, Locals
<1>2. LinkInv' BY LinkInsertLink DEF ColorInv
<1>3. /\ Good(t, members) /\ arg \in Nodes \ members /\ parent \in members \cup {NULL}
      /\ SideOf(parent) \in Sides
      /\ parent # NULL => t.child[SideOf(parent)][parent] = NULL
  BY <1>1 DEF ColorInv, LinkInv, Control, SideOf, Sides
<1>4. Even(t, members, NULL, "left", {}) BY <1>1 DEF ColorInv, Colors
<1>5. Links(t, t', members, parent, SideOf(parent), arg) BY InsertLinks DEF ColorInv
<1>6. Even(t', members', NULL, "left", {node'}) BY <1>1, <1>3, <1>4, <1>5, LinkEven
<1>7. ~t'.black[node'] BY <1>1, <1>5 DEF Links
<1> QED BY <1>1, <1>2, <1>6, <1>7 DEF ColorInv, Colors

LEMMA ColorReplace ==
  ASSUME ColorInv, NEW n \in Nodes, Replace(n)
  PROVE  ColorInv'
<1>1. /\ pc = "found" /\ node # NULL /\ n \notin members
      /\ members' = (members \ {node}) \cup {n} /\ pc' = "idle"
  BY DEF Replace, Return
<1>2. Good(t, members) /\ node \in members BY <1>1 DEF ColorInv, LinkInv, Control
<1>3. LinkInv' BY LinkReplace DEF ColorInv
<1>4. Renames(t, t', members, node, n) BY ReplaceRenames DEF ColorInv
<1>5. Even(t, members, NULL, "left", {}) BY <1>1 DEF ColorInv, Colors
<1>6. n # NULL /\ n \in Nodes \ members BY <1>1, ConstantsAssumption
<1>7. Even(t', (members \ {node}) \cup {n}, IF NULL = node THEN n ELSE NULL, "left", {})
  BY <1>2, <1>4, <1>5, <1>6, RenameEven
<1> QED BY <1>1, <1>3, <1>7, Settled

LEMMA ColorErase ==
  ASSUME ColorInv, Erase
  PROVE  ColorInv'
<1> DEFINE s == IF t.child["left"][node] = NULL THEN "right" ELSE "left"
           c == t.child[s][node]
           p == t.parent[node]
<1>1. /\ pc = "found" /\ node # NULL /\ t.child[Other(s)][node] = NULL
      /\ t' = Cut(t, node, c) /\ members' = members \ {node}
      /\ Recolor(t.black[node], c, p)
  BY DEF Erase, Cut
<1>2. Good(t, members) /\ node \in members /\ s \in Sides
  BY <1>1 DEF ColorInv, LinkInv, Control, Sides
<1>3. LinkInv' BY LinkErase DEF ColorInv
<1>4. Even(t, members, NULL, "left", {}) BY <1>1 DEF ColorInv, Colors
<1>5. IF t.black[node]
      THEN \E e \in Sides : /\ p # NULL => t'.child[e][p] = c
                            /\ Even(t', members', p, e, {c})
      ELSE Even(t', members', NULL, "left", {})
  BY <1>1, <1>2, <1>4, CutEven
<1>6. /\ t'.root = IF p = NULL THEN c ELSE t.root
      /\ \A x \in Nodes \ {node} : t'.parent[x] = IF x = c THEN p ELSE t.parent[x]
  <2> DEFINE r == Cut(t, node, c)
  <2>1. t.child[Other(s)][node] = NULL BY <1>1
  <2>2. r.root = IF p = NULL THEN c ELSE t.root BY <1>2, <2>1, CutWrites
  <2>3. \A x \in Nodes \ {node} : r.parent[x] = IF x = c THEN p ELSE t.parent[x]
    BY <1>2, <2>1, CutWrites
  <2>4. t' = r BY <1>1
  <2> HIDE DEF r, s, c, p
  <2> QED BY <2>2, <2>3, <2>4
<1>7. c # NULL => c \in Nodes \ {node}
  BY <1>2, Around, NoLoop DEF Good
<1> HIDE DEF s, c, p
<1>8. CASE t.black[node]
  <2>1. pc' = "erase_color" /\ node' = c /\ parent' = p BY <1>1, <1>8 DEF Recolor, Locals
  <2>2. node' # NULL => t'.parent[node'] = parent' BY <1>6, <1>7, <2>1
  <2>3. parent' = NULL => node' = t'.root BY <1>6, <2>1
  <2>4. PICK e \in Sides : /\ p # NULL => t'.child[e][p] = c
                           /\ Even(t', members', p, e, {c})
    BY <1>5, <1>8
  <2>5. Even(t', members', parent', e, Excused')
    <3>1. {c} \cap members' \subseteq Excused' BY <2>1 DEF Excused
    <3> QED BY <2>1, <2>4, <3>1, MoreReds
  <2>6. parent' # NULL => t'.child[e][parent'] = node' BY <2>1, <2>4
  <2> QED BY <1>3, <2>1, <2>2, <2>3, <2>5, <2>6 DEF ColorInv, Colors
<1>9. CASE ~t.black[node]
  <2>1. pc' = "idle" BY <1>1, <1>9 DEF Recolor, Return
  <2> QED BY <1>3, <1>5, <1>9, <2>1, Settled
<1> QED BY <1>8, <1>9

LEMMA ColorEraseSplice ==
  ASSUME ColorInv, EraseSplice
  PROVE  ColorInv'
<1> DEFINE c == t.child["right"][node]
           p == t.parent[node]
           m == Cut(t, node, c)
           M == members \ {node}
           q == IF p = arg THEN node ELSE p
<1>1. /\ pc = "successor" /\ t.child["left"][node] = NULL
      /\ Recolor(t.black[node], c, q)
  BY DEF EraseSplice
<1>2. /\ Good(m, M) /\ Renames(m, t', M, arg, node)
      /\ arg \in M /\ node \in members
      /\ members' = (M \ {arg}) \cup {node}
  BY SpliceRenames DEF ColorInv
<1>3. LinkInv' BY LinkEraseSplice DEF ColorInv
<1>4. Even(t, members, NULL, "left", {}) BY <1>1 DEF ColorInv, Colors
<1>5. /\ Good(t, members) /\ "right" \in Sides /\ Other("right") = "left"
      /\ p \in members /\ node # arg /\ p # node
  BY <1>1, <1>2, SuccessorAround, NoLoop DEF ColorInv, LinkInv, Good, Sides, Other
<1>6. IF t.black[node]
      THEN \E e \in Sides : /\ p # NULL => m.child[e][p] = c
                            /\ Even(m, M, p, e, {c})
      ELSE Even(m, M, NULL, "left", {})
  BY <1>1, <1>2, <1>4, <1>5, CutEven
<1>7. /\ members \subseteq Nodes /\ NULL \notin members
      /\ c \in members \cup {NULL} /\ (c # NULL => t.parent[c] = node)
  BY <1>2, <1>5, Around
<1>8. c # arg /\ c # node
  <2>1. c # arg BY <1>1, <1>2, <1>7, SuccessorAround DEF ColorInv
  <2> QED BY <1>2, <1>5, <1>7, <2>1, NoLoop DEF Good
<1>9. \A x \in Nodes \ {node} : m.parent[x] = IF x = c THEN p ELSE t.parent[x]
  BY <1>1, <1>2, <1>5, CutWrites
<1>10. node \in Nodes \ M BY <1>2, <1>7
<1> HIDE DEF c, p, m
<1>11. /\ \A x \in M \ {arg} : t'.parent[x] = IF m.parent[x] = arg THEN node ELSE m.parent[x]
       /\ \A d \in Sides, x \in M \ {arg} :
            t'.child[d][x] = IF m.child[d][x] = arg THEN node ELSE m.child[d][x]
       /\ \A d \in Sides : t'.child[d][node] = m.child[d][arg]
  BY <1>2 DEF Renames
<1>12. CASE t.black[node]
  <2>1. pc' = "erase_color" /\ node' = c /\ parent' = q BY <1>1, <1>12 DEF Recolor, Locals
  <2>2. PICK e \in Sides : m.child[e][p] = c /\ Even(m, M, p, e, {c})
    BY <1>5, <1>6, <1>7, <1>12
  <2>3. Even(t', members', q, e, {c}) BY <1>2, <1>5, <1>8, <1>10, <2>2, RenameEven
  <2>4. t'.child[e][q] = c BY <1>5, <1>8, <1>11, <2>2
  <2>5. node' # NULL => t'.parent[node'] = parent'
    BY <1>7, <1>8, <1>9, <1>11, <2>1
  <2>6. parent' # NULL BY <1>2, <1>5, <1>7, <2>1
  <2>7. Even(t', members', parent', e, Excused')
    <3>1. {c} \cap members' \subseteq Excused' BY <2>1 DEF Excused
    <3> QED BY <2>1, <2>3, <3>1, MoreReds
  <2> QED BY <1>3, <2>1, <2>4, <2>5, <2>6, <2>7 DEF ColorInv, Colors
<1>13. CASE ~t.black[node]
  <2>1. pc' = "idle" BY <1>1, <1>13 DEF Recolor, Return
  <2>2. Even(t', members', IF NULL = arg THEN node ELSE NULL, "left", {})
    <3>1. NULL # node BY <1>2, <1>7
    <3>2. Even(m, M, NULL, "left", {}) BY <1>6, <1>13
    <3> QED BY <1>2, <1>10, <3>1, <3>2, RenameEven
  <2>3. NULL # arg BY <1>2, <1>7
  <2> QED BY <1>3, <2>1, <2>2, <2>3, Settled
<1> QED BY <1>12, <1>13

LEMMA ColorInsertDone ==
  ASSUME ColorInv, InsertDone
  PROVE  ColorInv'
<1>1. /\ pc = "insert_color" /\ Black(t, t.parent[node])
      /\ t' = Paint(t, {t.root}, {}) /\ members' = members /\ pc' = "idle"
  BY DEF InsertDone, Return
<1>2. LinkInv' BY LinkPaints DEF ColorInv
<1>3. Good(t, members) /\ node \in members BY <1>1 DEF ColorInv, LinkInv, Control
<1>4. Even(t, members, NULL, "left", {node}) BY <1>1 DEF ColorInv, Colors
<1>5. /\ NULL \notin members /\ t.root \in members \cup {NULL}
      /\ t.root # NULL => t.parent[t.root] = NULL
      /\ Hangs(t, node) /\ "left" \in Sides
  BY <1>3, Around DEF Sides
<1>6. PICK X : /\ Even(t, members, NULL, "left", X)
               /\ \A x \in X : x = t.root
  <2>1. CASE t.parent[node] = NULL
    <3>1. t.root = node BY <1>5, <2>1 DEF Hangs
    <3> QED BY <1>4, <3>1
  <2>2. CASE t.parent[node] # NULL
    <3>1. t.black[t.parent[node]] BY <1>1, <2>2 DEF Black
    <3>2. Reds(t, members, {}) BY <1>4, <2>2, <3>1 DEF Even, Reds
    <3>3. Even(t, members, NULL, "left", {}) BY <1>4, <3>2 DEF Even
    <3> QED BY <3>3
  <2> QED BY <2>1, <2>2
<1>7. Even(Paint(t, {t.root}, {}), members, NULL, "left", {})
  <2>1. Red(t, t.root) => t.parent[t.root] = NULL BY <1>5 DEF Red
  <2> QED BY <1>3, <1>5, <1>6, <2>1, PaintEven
<1> QED BY <1>1, <1>2, <1>7, Settled

LEMMA ColorEraseDone ==
  ASSUME ColorInv, EraseDone
  PROVE  ColorInv'
<1>1. /\ pc = "erase_color" /\ (Red(t, node) \/ node = t.root)
      /\ t' = Paint(t, {node}, {}) /\ members' = members /\ pc' = "idle"
  BY DEF EraseDone, Return
<1>2. LinkInv' BY LinkPaints DEF ColorInv
<1>3. Good(t, members) /\ node \in members \cup {NULL} BY <1>1 DEF ColorInv, LinkInv, Control
<1>4. /\ node # NULL => t.parent[node] = parent
      /\ \E e \in Sides : /\ parent # NULL => t.child[e][parent] = node
                          /\ Even(t, members, parent, e, Excused)
  BY <1>1 DEF ColorInv, Colors
<1>5. PICK e \in Sides : /\ parent # NULL => t.child[e][parent] = node
                         /\ Even(t, members, parent, e, Excused)
  BY <1>4
<1>6. NULL \notin members /\ (t.root # NULL => t.parent[t.root] = NULL)
  BY <1>3, Around
<1>7. \A x \in Excused : x = node \/ (node # NULL /\ t.parent[x] = node) BY DEF Excused
<1>8. IF Red(t, node) THEN \/ t.parent[node] = NULL /\ parent \notin members
                           \/ t.parent[node] = parent /\ parent # NULL /\ t.child[e][parent] = node
                      ELSE parent \notin members
  <2>1. CASE Red(t, node)
    <3>1. node # NULL BY <2>1 DEF Red
    <3>2. t.parent[node] = parent BY <1>4, <3>1
    <3>3. CASE parent = NULL BY <1>6, <2>1, <3>2, <3>3
    <3>4. CASE parent # NULL BY <1>5, <2>1, <3>2, <3>4
    <3> QED BY <3>3, <3>4
  <2>2. CASE ~Red(t, node)
    <3>1. node = t.root BY <1>1, <2>2
    <3>2. CASE node = NULL
      <4>1. members = {} BY <1>3, <3>1, <3>2, NoRoot
      <4> QED BY <2>2, <4>1
    <3>3. CASE node # NULL
      <4>1. parent = NULL BY <1>4, <1>6, <3>1, <3>3
      <4> QED BY <1>6, <2>2, <4>1
    <3> QED BY <3>2, <3>3
  <2> QED BY <2>1, <2>2
<1>9. Even(t', members', NULL, "left", {})
  <2>1. Even(Paint(t, {node}, {}), members, NULL, "left", {})
    BY <1>3, <1>5, <1>7, <1>8, PaintEven
  <2> QED BY <1>1, <2>1
<1> QED BY <1>1, <1>2, <1>9, Settled

-----------------------------------------------------------------------------
(* rb_insert_color *)

\* A node has no children but the two.
LEMMA TwoChildren ==
  ASSUME NEW m, NEW M, Good(m, M), NEW s \in Sides, NEW g \in M, NEW x \in M, m.parent[x] = g
  PROVE  x = m.child[s][g] \/ x = m.child[Other(s)][g]
<1>1. Hangs(m, x) /\ g # NULL BY Around
<1> QED BY <1>1, OtherSide DEF Hangs

\* What is around node under a red parent p.
LEMMA RedRedAround ==
  ASSUME ColorInv, RedRed(t.parent[node], t.parent[t.parent[node]])
  PROVE  LET p == t.parent[node]
             g == t.parent[p]
             s == SideUnder(t, g, p)
         IN  /\ pc = "insert_color"
             /\ node \in members /\ p \in members /\ g \in members
             /\ node # p /\ node # g /\ p # g /\ t.parent[g] # p /\ t.parent[g] # g
             /\ ~t.black[node] /\ ~t.black[p] /\ t.black[g]
             /\ s \in Sides /\ t.child[s][g] = p /\ t.child[Other(s)][g] # p
             /\ Reds(t, members, {node})
             /\ \E h : Heights(t, members, h, NULL, "left")
<1> DEFINE p == t.parent[node]
           g == t.parent[p]
           s == SideUnder(t, g, p)
<1>1. pc = "insert_color" /\ p # NULL /\ ~t.black[p] /\ g # NULL BY DEF RedRed
<1>2. Good(t, members) /\ node \in members BY <1>1 DEF ColorInv, LinkInv, Control
<1>3. p \in members BY <1>1, <1>2, Around
<1>4. g \in members BY <1>1, <1>3, <1>2, Around
<1>5. s \in Sides /\ t.child[s][g] = p BY <1>2, <1>3, <1>4, SideUnderHangs
<1>6. ~t.black[node] /\ Even(t, members, NULL, "left", {node}) BY <1>1 DEF ColorInv, Colors
<1>7. Reds(t, members, {node}) /\ \E h : Heights(t, members, h, NULL, "left") BY <1>6 DEF Even
<1>8. node # p /\ p # g /\ node # g /\ t.parent[g] # p /\ t.parent[g] # g
  BY <1>2, <1>3, <1>4, NoLoop, NoPair DEF Good
<1>9. t.black[g] BY <1>1, <1>3, <1>7, <1>8 DEF Reds
<1>10. t.child[Other(s)][g] # p
  <2>1. Hangs(t, p) BY <1>2, <1>3, Around
  <2> QED BY <1>1, <1>5, <2>1, OtherSide DEF Hangs
<1> QED BY <1>1, <1>2, <1>3, <1>4, <1>5, <1>6, <1>7, <1>8, <1>9, <1>10

LEMMA ColorInsertRecolor ==
  ASSUME ColorInv, InsertRecolor
  PROVE  ColorInv'
<1> DEFINE p == t.parent[node]
           g == t.parent[p]
           s == SideUnder(t, g, p)
           v == t.child[Other(s)][g]
           r == Paint(t, {v, p}, {g})
<1>1. /\ RedRed(p, g) /\ Red(t, v) /\ t' = r
      /\ node' = g /\ UNCHANGED <<members, pc>>
  BY DEF InsertRecolor, Locals
<1>2. LinkInv' BY LinkPaints DEF ColorInv
<1>3. /\ pc = "insert_color"
      /\ node \in members /\ p \in members /\ g \in members
      /\ node # p /\ node # g /\ p # g /\ t.parent[g] # p /\ t.parent[g] # g
      /\ ~t.black[p] /\ t.black[g]
      /\ s \in Sides /\ t.child[s][g] = p /\ v # p
      /\ Reds(t, members, {node}) /\ \E h : Heights(t, members, h, NULL, "left")
  BY <1>1, RedRedAround
<1>4. PICK h : Heights(t, members, h, NULL, "left") BY <1>3
<1>5. /\ t \in Tree /\ members \subseteq Nodes /\ NULL \notin members
      /\ \A x \in members, d \in Sides :
           /\ t.child[d][x] \in members \cup {NULL}
           /\ t.child[d][x] # NULL => t.parent[t.child[d][x]] = x
      /\ \A x \in members : t.parent[x] \in members \cup {NULL}
  BY Around DEF ColorInv, LinkInv
<1>6. v \in members /\ ~t.black[v] /\ t.parent[v] = g /\ v # g
  <2>1. v # NULL /\ ~t.black[v] BY <1>1 DEF Red
  <2>2. Other(s) \in Sides BY <1>3, OtherSide
  <2>3. v \in members /\ t.parent[v] = g
    <3> HIDE DEF g, s
    <3> QED BY <1>3, <1>5, <2>1, <2>2
  <2> QED BY <1>3, <2>1, <2>3
<1>7. \A x \in members : t.parent[x] = g => x = p \/ x = v
  BY <1>3, TwoChildren DEF ColorInv, LinkInv
<1>8. /\ r.parent = t.parent /\ r.child = t.child
      /\ \A x \in Nodes : r.black[x] = ((x \in {v, p} \/ t.black[x]) /\ x \notin {g})
  <2> HIDE DEF p, g, s, v
  <2> QED BY <1>5, PaintWrites
<1>9. \A x \in members : r.black[x] <=> (x = v \/ x = p \/ t.black[x]) /\ x # g
  BY <1>5, <1>8
<1>10. /\ h[NULL] = 0 /\ members \subseteq Pointer /\ NULL \in Pointer
       /\ \A x \in Pointer : h[x] \in Nat
       /\ \A x \in members, d \in Sides :
            h[x] = h[t.child[d][x]] + Tint(t, x) + (IF x = NULL /\ d = "left" THEN 1 ELSE 0)
  BY <1>4, HeightFacts DEF ColorInv, LinkInv
<1>11. t.parent[p] = g /\ t.parent[node] = p OBVIOUS
<1> DEFINE i == [x \in Pointer |-> IF x = p \/ x = v THEN h[x]+1 ELSE h[x]]
<1> HIDE DEF p, g, s, v, r
<1>12. /\ i \in [Pointer -> Nat] /\ i[NULL] = 0
       /\ \A x \in Pointer : i[x] = IF x = p \/ x = v THEN h[x]+1 ELSE h[x]
  BY <1>3, <1>5, <1>6, <1>10
<1> HIDE DEF i
<1>13. Reds(r, members, {g})
  <2> SUFFICES ASSUME NEW x \in members, ~r.black[x], x # g,
                      r.parent[x] = NULL \/ ~r.black[r.parent[x]]
               PROVE  FALSE
    BY DEF Reds
  <2>1. x # p /\ x # v /\ ~t.black[x] BY <1>9
  <2>2. t.parent[x] # g BY <1>7, <2>1
  <2>3. t.parent[x] = NULL \/ ~t.black[t.parent[x]] BY <1>5, <1>8, <1>9, <2>2
  <2>4. x = node BY <1>3, <2>1, <2>3 DEF Reds
  <2> QED BY <1>3, <1>5, <1>8, <1>9, <1>11, <2>4
<1>14. ASSUME NEW x \in members, NEW d \in Sides
       PROVE  i[x] = i[t.child[d][x]] + Tint(r, x) + (IF x = NULL /\ d = "left" THEN 1 ELSE 0)
  <2> DEFINE z == t.child[d][x]
  <2>1. /\ z \in members \cup {NULL} /\ z \in Pointer /\ x \in Pointer /\ x # NULL
        /\ h[x] \in Nat /\ h[z] \in Nat /\ (z # NULL => t.parent[z] = x)
    BY <1>5, <1>10
  <2>2. h[x] = h[z] + Tint(t, x) BY <1>10, <2>1 DEF Tint
  <2>3. CASE x = g
    <3>1. z = p \/ z = v
      <4>1. d = s \/ d = Other(s) BY <1>3, OtherSide
      <4> QED BY <1>3, <2>3, <4>1 DEF v
    <3>2. i[z] = h[z] + 1 BY <1>12, <2>1, <3>1
    <3>3. i[x] = h[x] BY <1>3, <1>6, <1>12, <2>1, <2>3
    <3>4. Tint(t, x) = 1 /\ Tint(r, x) = 0 BY <1>3, <1>9, <2>3 DEF Tint
    <3> HIDE DEF z
    <3> QED BY <2>1, <2>2, <3>2, <3>3, <3>4 DEF z
  <2>4. CASE x # g
    <3>1. z # p /\ z # v BY <1>3, <1>5, <1>6, <1>11, <2>1, <2>4
    <3>2. i[z] = h[z] BY <1>12, <2>1, <3>1
    <3>3. CASE x = p \/ x = v
      <4>1. i[x] = h[x] + 1 BY <1>12, <2>1, <3>3
      <4>2. Tint(t, x) = 0 /\ Tint(r, x) = 1 BY <1>3, <1>6, <1>9, <2>4, <3>3 DEF Tint
      <4> HIDE DEF z
      <4> QED BY <2>1, <2>2, <3>2, <4>1, <4>2 DEF z
    <3>4. CASE x # p /\ x # v
      <4>1. i[x] = h[x] BY <1>12, <2>1, <3>4
      <4>2. Tint(t, x) = Tint(r, x) BY <1>9, <2>4, <3>4 DEF Tint
      <4>3. Tint(r, x) \in Nat BY DEF Tint
      <4> HIDE DEF z
      <4> QED BY <2>1, <2>2, <3>2, <4>1, <4>2, <4>3 DEF z
    <3> QED BY <3>3, <3>4
  <2> QED BY <2>3, <2>4
<1>15. Heights(r, members, i, NULL, "left") BY <1>8, <1>12, <1>14 DEF Heights
<1>16. ~r.black[g] BY <1>3, <1>9
<1>17. Even(r, members, NULL, "left", {g}) BY <1>13, <1>15 DEF Even
<1>18. ~t'.black[node'] BY <1>1, <1>16
<1>19. Even(t', members', NULL, "left", {node'}) BY <1>1, <1>17
<1> QED BY <1>1, <1>2, <1>3, <1>18, <1>19 DEF ColorInv, Colors

\* A rotation of k, which is m in other colours.
LEMMA RotateEven ==
  ASSUME NEW m, NEW M, Good(m, M), NEW s \in Sides, NEW n \in M,
         m.child[Other(s)][n] # NULL,
         NEW h, NEW g, NEW e, Heights(m, M, h, g, e), NEW k, SamePointers(m, k),
         NEW i, NEW f, NEW u, TurnedHeights(m, M, s, n, h, g, e, k, i, f, u),
         NEW X, TurnedReds(m, M, s, n, k, X)
  PROVE  Even(Rotate(k, s, n), M, f, u, X)
<1> DEFINE r == Rotate(k, s, n)
<1>1. Good(k, M) /\ k.child = m.child BY SamePointersGood DEF SamePointers
<1>2. r \in Tree /\ r.black = k.black BY <1>1, RotateWrites
<1>3. SamePointers(r, r) BY <1>2 DEF SamePointers
<1> HIDE DEF r
<1>4. TurnedHeights(m, M, s, n, h, g, e, r, i, f, u)
  <2>1. \A x : Tint(r, x) = Tint(k, x) BY <1>2 DEF Tint
  <2> QED BY <2>1 DEF TurnedHeights
<1>5. TurnedReds(m, M, s, n, r, X) BY <1>2 DEF TurnedReds
<1>6. SamePointers(Rotate(k, s, n), r) BY <1>3 DEF r
<1>7. Heights(r, M, i, f, u) BY <1>4, <1>6, RotateHeights
<1>8. Reds(r, M, X) BY <1>5, <1>6, RotateReds
<1> QED BY <1>7, <1>8 DEF Even, r

LEMMA ColorInsertRotateInner ==
  ASSUME ColorInv, InsertRotateInner
  PROVE  ColorInv'
<1> DEFINE p == t.parent[node]
           g == t.parent[p]
           s == SideUnder(t, g, p)
           b == t.child[s][node]
<1>1. /\ RedRed(p, g) /\ t.child[Other(s)][p] = node
      /\ t' = Rotate(t, s, p) /\ node' = p /\ UNCHANGED <<members, pc>>
  BY DEF InsertRotateInner, Locals
<1>2. LinkInv' BY LinkInsertRotates DEF ColorInv
<1>3. /\ pc = "insert_color"
      /\ node \in members /\ p \in members /\ g \in members /\ node # p
      /\ ~t.black[node] /\ ~t.black[p] /\ t.black[g] /\ s \in Sides
      /\ Reds(t, members, {node}) /\ \E h : Heights(t, members, h, NULL, "left")
  BY <1>1, RedRedAround
<1>4. PICK h : Heights(t, members, h, NULL, "left") BY <1>3
<1>5. /\ Good(t, members) /\ NULL \notin members
      /\ \A x \in members, d \in Sides :
           /\ t.child[d][x] \in members \cup {NULL}
           /\ t.child[d][x] # NULL => t.parent[t.child[d][x]] = x
  BY Around DEF ColorInv, LinkInv
<1>6. /\ h \in [Pointer -> Nat] /\ h[NULL] = 0 /\ members \subseteq Pointer
      /\ \A x \in Pointer : h[x] \in Nat
      /\ \A x \in members, d \in Sides :
           h[x] = h[t.child[d][x]] + Tint(t, x) + (IF x = NULL /\ d = "left" THEN 1 ELSE 0)
  <2>1. h \in [Pointer -> Nat] BY <1>4 DEF Heights
  <2> QED BY <1>4, <1>5, <2>1, HeightFacts
<1>7. t.parent[node] = p /\ t.parent[p] = g OBVIOUS
<1>8. Other(s) \in Sides BY <1>3, OtherSide
<1>9. Tint(t, node) = 0 /\ Tint(t, p) = 0 BY <1>3 DEF Tint
<1>10. \A d \in Sides : h[p] = h[t.child[d][p]] /\ h[node] = h[t.child[d][node]]
  <2> SUFFICES ASSUME NEW d \in Sides
               PROVE  h[p] = h[t.child[d][p]] /\ h[node] = h[t.child[d][node]]
    OBVIOUS
  <2>1. h[t.child[d][p]] \in Nat /\ h[t.child[d][node]] \in Nat
    BY <1>3, <1>5, <1>6 DEF Pointer
  <2> HIDE DEF p
  <2> QED BY <1>3, <1>5, <1>6, <1>9, <2>1
<1>11. Tint(t, node) = 0 /\ Tint(t, p) = 0 /\ h[p] \in Nat /\ h[node] \in Nat
  BY <1>3, <1>6, <1>9
<1> HIDE DEF p, g, s
<1>12. h[p] = h[node] BY <1>1, <1>8, <1>10
<1>13. TurnedHeights(t, members, s, p, h, NULL, "left", t, h, NULL, "left")
  <2>1. p # NULL /\ node # NULL BY <1>3, <1>5
  <2>2. h[p] = h[t.child[s][node]] /\ h[p] = h[t.child[s][p]] /\ h[p] = h[t.child[Other(s)][node]]
    BY <1>3, <1>8, <1>10, <1>12
  <2> QED BY <1>1, <1>6, <1>11, <1>12, <2>1, <2>2 DEF TurnedHeights
<1>14. TurnedReds(t, members, s, p, t, {p})
  <2>1. t.child[s][node] # NULL /\ ~t.black[t.child[s][node]] => FALSE
    <3> SUFFICES ASSUME b # NULL, ~t.black[b] PROVE FALSE
      OBVIOUS
    <3>1. b \in members /\ t.parent[b] = node BY <1>3, <1>5
    <3>2. b = node BY <1>3, <3>1 DEF Reds
    <3> QED BY <1>3, <1>7, <3>1, <3>2
  <2>2. g # NULL BY <1>3, <1>5
  <2> HIDE DEF b
  <2> QED BY <1>1, <1>3, <1>7, <2>1, <2>2 DEF TurnedReds, Reds
<1>15. SamePointers(t, t) /\ t.child[Other(s)][p] # NULL
  BY <1>1, <1>3, <1>5 DEF SamePointers, Good
<1>16. Even(Rotate(t, s, p), members, NULL, "left", {p})
  BY <1>3, <1>4, <1>5, <1>13, <1>14, <1>15, RotateEven
<1>17. t'.black = t.black BY <1>1, <1>3, <1>5, <1>15, RotateWrites
<1>18. ~t'.black[node'] BY <1>1, <1>3, <1>17
<1>19. Even(t', members', NULL, "left", {node'}) BY <1>1, <1>16
<1> QED BY <1>1, <1>2, <1>3, <1>18, <1>19 DEF ColorInv, Colors

LEMMA ColorInsertRotate ==
  ASSUME ColorInv, InsertRotate
  PROVE  ColorInv'
<1> DEFINE p == t.parent[node]
           g == t.parent[p]
           s == SideUnder(t, g, p)
           o == Other(s)
           b == t.child[o][p]
           v == t.child[o][g]
           k == Paint(t, {p}, {g})
<1>1. /\ RedRed(p, g) /\ Black(t, v) /\ b # node
      /\ t' = Rotate(k, o, g) /\ node' = node /\ UNCHANGED <<members, pc>>
  BY DEF InsertRotate, Locals
<1>2. LinkInv' BY LinkInsertRotates DEF ColorInv
<1>3. /\ pc = "insert_color"
      /\ node \in members /\ p \in members /\ g \in members
      /\ node # p /\ node # g /\ p # g
      /\ ~t.black[node] /\ ~t.black[p] /\ t.black[g]
      /\ s \in Sides /\ t.child[s][g] = p /\ v # p
      /\ Reds(t, members, {node}) /\ \E h : Heights(t, members, h, NULL, "left")
  BY <1>1, RedRedAround
<1>4. PICK h : Heights(t, members, h, NULL, "left") BY <1>3
<1>5. /\ Good(t, members) /\ NULL \notin members /\ members \subseteq Nodes
      /\ \A x \in members, d \in Sides :
           /\ t.child[d][x] \in members \cup {NULL}
           /\ t.child[d][x] # NULL => t.parent[t.child[d][x]] = x
      /\ \A x \in members : t.parent[x] \in members \cup {NULL}
  BY Around DEF ColorInv, LinkInv
<1>6. /\ h \in [Pointer -> Nat] /\ h[NULL] = 0 /\ members \subseteq Pointer
      /\ \A x \in Pointer : h[x] \in Nat
      /\ \A x \in members, d \in Sides :
           h[x] = h[t.child[d][x]] + Tint(t, x) + (IF x = NULL /\ d = "left" THEN 1 ELSE 0)
  <2>1. h \in [Pointer -> Nat] BY <1>4 DEF Heights
  <2> QED BY <1>4, <1>5, <2>1, HeightFacts
<1>7. \A x \in members : t.parent[x] = g => x = p \/ x = v
  BY <1>3, TwoChildren DEF ColorInv, LinkInv
<1>8. t.parent[node] = p /\ t.parent[p] = g OBVIOUS
<1>9. o \in Sides /\ Other(o) = s BY <1>3, OtherSide
<1>10. /\ SamePointers(t, k) /\ k.child = t.child
       /\ \A x \in Nodes : k.black[x] = ((x \in {p} \/ t.black[x]) /\ x \notin {g})
  <2> HIDE DEF p, g
  <2> QED BY <1>5, Painted, PaintWrites DEF SamePointers, Good
<1> HIDE DEF p, g, s, o, k
<1>11. \A x \in members : k.black[x] <=> (x = p \/ t.black[x]) /\ x # g BY <1>5, <1>10
<1>12. Tint(t, p) = 0 /\ Tint(t, g) = 1 /\ Tint(k, p) = 1 /\ Tint(k, g) = 0
  BY <1>3, <1>11 DEF Tint
<1>13. \A d \in Sides : /\ h[p] = h[t.child[d][p]] /\ h[g] = h[t.child[d][g]] + 1
  <2> SUFFICES ASSUME NEW d \in Sides
               PROVE  h[p] = h[t.child[d][p]] /\ h[g] = h[t.child[d][g]] + 1
    OBVIOUS
  <2>1. h[t.child[d][p]] \in Nat /\ h[t.child[d][g]] \in Nat
    BY <1>3, <1>5, <1>6 DEF Pointer
  <2> QED BY <1>3, <1>5, <1>6, <1>12, <2>1
<1> DEFINE i == [x \in Pointer |-> IF x = p THEN h[g] ELSE IF x = g THEN h[p] ELSE h[x]]
<1>14. /\ i \in [Pointer -> Nat] /\ i[NULL] = 0 /\ i[p] = h[g] /\ i[g] = h[p]
       /\ \A x \in members \cup {NULL} : x # p /\ x # g => i[x] = h[x]
       /\ h[p] \in Nat /\ h[g] \in Nat
  BY <1>3, <1>5, <1>6 DEF Pointer
<1> HIDE DEF i
<1>15. \A z \in members \cup {NULL} : z = b \/ z = v \/ z = t.child[s][p] => i[z] = h[z]
  <2> SUFFICES ASSUME NEW z \in members \cup {NULL}, z = b \/ z = v \/ z = t.child[s][p]
               PROVE  z # p /\ z # g
    BY <1>14
  <2>1. z # NULL => t.parent[z] = p \/ t.parent[z] = g BY <1>3, <1>5, <1>9
  <2>2. t.parent[p] # p /\ t.parent[g] # g /\ t.parent[g] # p
    BY <1>3, <1>5, <1>8, NoLoop, NoPair DEF Good
  <2>3. CASE z = v BY <1>3, <1>5, <1>9, <2>2, <2>3
  <2>4. CASE z # v
    <3>1. z # NULL => t.parent[z] = p BY <1>3, <1>5, <1>9, <2>4
    <3> QED BY <1>3, <1>5, <2>2, <3>1
  <2> QED BY <2>3, <2>4
<1>16. TurnedHeights(t, members, o, g, h, NULL, "left", k, i, NULL, "left")
  <2>1. p # NULL /\ g # NULL BY <1>3, <1>5
  <2>2. b \in members \cup {NULL} /\ v \in members \cup {NULL} /\ t.child[s][p] \in members \cup {NULL}
    BY <1>3, <1>5, <1>9
  <2>3. i[b] = h[b] /\ i[v] = h[v] /\ i[t.child[s][p]] = h[t.child[s][p]]
    BY <1>15, <2>2
  <2>4. /\ h[p] = h[b] /\ h[p] = h[t.child[s][p]] /\ h[g] = h[p] + 1 /\ h[g] = h[v] + 1
    BY <1>3, <1>9, <1>13
  <2>5. h[v] \in Nat /\ h[p] = h[v] BY <1>6, <1>14, <2>2, <2>4 DEF Pointer
  <2>6. \A x \in members \ {g, p} : Tint(k, x) = Tint(t, x) /\ i[x] = h[x]
    BY <1>11, <1>14 DEF Tint
  <2> HIDE DEF b, v, Tint
  <2>7. /\ i[p] = h[g] /\ i[g] = i[b] + Tint(k, g) + 0 /\ i[g] = i[v] + Tint(k, g) + 0
        /\ i[p] = i[g] + Tint(k, p) + 0 /\ i[p] = i[t.child[s][p]] + Tint(k, p) + 0
    BY <1>12, <1>14, <2>3, <2>4, <2>5
  <2>8. t.child[Other(o)][g] = p /\ t.child[o][p] = b /\ t.child[o][g] = v
    BY <1>3, <1>9 DEF b, v
  <2> QED BY <1>9, <1>14, <2>1, <2>6, <2>7, <2>8 DEF TurnedHeights
<1>17. TurnedReds(t, members, o, g, k, {node})
  <2>1. k.black[p] /\ t.child[Other(o)][g] = p BY <1>3, <1>9, <1>11
  <2>2. b # NULL /\ ~k.black[b] => b = node
    <3> SUFFICES ASSUME b # NULL, ~k.black[b] PROVE b = node
      OBVIOUS
    <3>1. b \in members /\ t.parent[b] = p BY <1>3, <1>5, <1>9
    <3>2. t.parent[g] # p BY <1>3, <1>5, <1>8, NoPair DEF Good
    <3>3. ~t.black[b] BY <1>11, <3>1, <3>2
    <3> QED BY <1>3, <3>1, <3>3 DEF Reds
  <2>3. ASSUME NEW x \in members \ {g, p}, ~k.black[x],
               t.parent[x] = NULL \/ ~k.black[t.parent[x]]
        PROVE  x = node
    <3>1. ~t.black[x] BY <1>11, <2>3
    <3>2. t.parent[x] # g BY <1>1, <1>7, <1>5, <2>3, <3>1 DEF Black
    <3>3. t.parent[x] = NULL \/ ~t.black[t.parent[x]] BY <1>5, <1>11, <2>3, <3>2
    <3> QED BY <1>3, <3>1, <3>3 DEF Reds
  <2>4. t.child[o][p] = b OBVIOUS
  <2> HIDE DEF b
  <2> QED BY <2>1, <2>2, <2>3, <2>4 DEF TurnedReds
<1>18. t.child[Other(o)][g] # NULL BY <1>3, <1>5, <1>9
<1>19. Even(Rotate(k, o, g), members, NULL, "left", {node})
  BY <1>3, <1>4, <1>5, <1>9, <1>10, <1>16, <1>17, <1>18, RotateEven
<1>20. t'.black = k.black
  <2>1. Good(k, members) /\ k.child[Other(o)][g] # NULL
    BY <1>5, <1>10, <1>18, SamePointersGood
  <2> QED BY <1>1, <1>3, <1>9, <2>1, RotateWrites
<1>21. ~t'.black[node'] BY <1>1, <1>3, <1>11, <1>20
<1>22. Even(t', members', NULL, "left", {node'}) BY <1>1, <1>19
<1> QED BY <1>1, <1>2, <1>3, <1>21, <1>22 DEF ColorInv, Colors

-----------------------------------------------------------------------------
(* __rb_erase_color *)

\* Where the loop goes on, the side that is short is that of node.
LEMMA ShortFacts ==
  ASSUME ColorInv, Short(Sibling)
  PROVE  /\ pc = "erase_color" /\ Sibling \in members /\ parent \in members
         /\ node \in members \cup {NULL} /\ SideOfNode \in Sides
         /\ t.child[SideOfNode][parent] = node
         /\ t.child[Other(SideOfNode)][parent] = Sibling
         /\ t.parent[Sibling] = parent /\ Sibling # parent /\ Sibling # node /\ node # parent
         /\ node # NULL => t.parent[node] = parent /\ t.black[node]
         /\ Reds(t, members, {})
         /\ \E h : Heights(t, members, h, parent, SideOfNode)
<1>1. /\ pc = "erase_color" /\ Sibling \in members /\ parent \in members
      /\ node \in members \cup {NULL}
      /\ SideOfNode \in Sides /\ Sibling = t.child[Other(SideOfNode)][parent]
  BY ShortAround DEF ColorInv
<1>2. Black(t, node) BY DEF Short
<1>3. /\ node # NULL => t.parent[node] = parent
      /\ \E e \in Sides : /\ parent # NULL => t.child[e][parent] = node
                          /\ Even(t, members, parent, e, Excused)
  BY <1>1 DEF ColorInv, Colors
<1>4. PICK e \in Sides : /\ parent # NULL => t.child[e][parent] = node
                         /\ Even(t, members, parent, e, Excused)
  BY <1>3
<1>5. /\ Good(t, members) /\ NULL \notin members
      /\ \A x \in members, d \in Sides :
           t.child[d][x] # NULL => t.parent[t.child[d][x]] = x
      /\ \A x \in members : Hangs(t, x)
  BY Around DEF ColorInv, LinkInv
<1>6. t.child[e][parent] = node BY <1>1, <1>4, <1>5
<1>7. t.child[SideOfNode][parent] = node /\ SideOfNode \in Sides
  <2>1. SideOfNode = IF t.child["left"][parent] = node THEN "left" ELSE "right"
    BY DEF SideOfNode, SideUnder
  <2> QED BY <1>6, <2>1 DEF Sides
<1>8. Sibling # NULL /\ Other(SideOfNode) \in Sides BY <1>1, <1>5, OtherSide
<1>9. t.parent[Sibling] = parent BY <1>1, <1>5, <1>8
<1>10. Sibling # node
  <2> SUFFICES ASSUME Sibling = node PROVE FALSE
    OBVIOUS
  <2>1. Hangs(t, node) /\ t.parent[node] = parent /\ parent # NULL BY <1>1, <1>5, <1>9
  <2> HIDE DEF Sibling, SideOfNode
  <2> QED BY <1>1, <1>7, <2>1, OtherSide DEF Hangs
<1>11. e = SideOfNode BY <1>1, <1>4, <1>6, <1>7, <1>10, OtherSide
<1>12. Sibling # parent /\ node # parent BY <1>1, <1>3, <1>5, <1>9, NoLoop DEF Good
<1>13. node # NULL => t.black[node] BY <1>2 DEF Black
<1>14. Reds(t, members, {})
  <2>1. Reds(t, members, Excused) BY <1>4 DEF Even
  <2> QED BY <1>5, <1>13, <2>1 DEF Reds, Excused
<1>15. \E h : Heights(t, members, h, parent, SideOfNode) BY <1>4, <1>11 DEF Even
<1> QED BY <1>1, <1>3, <1>7, <1>9, <1>10, <1>12, <1>13, <1>14, <1>15

\* Where the pointers from parent to node stay, the loop goes on.
LEMMA StillShort ==
  ASSUME ColorInv, Short(Sibling), LinkInv', UNCHANGED <<members, pc, node, parent, arg>>,
         t'.child[SideOfNode][parent] = node, node # NULL => t'.parent[node] = parent,
         Even(t', members, parent, SideOfNode, {})
  PROVE  ColorInv'
<1>1. pc = "erase_color" /\ SideOfNode \in Sides /\ parent # NULL
  BY ShortFacts DEF Short
<1>2. PICK e : e = SideOfNode OBVIOUS
<1>3. Even(t', members, parent, e, Excused') BY <1>2, MoreReds
<1>4. e \in Sides /\ t'.child[e][parent] = node BY <1>1, <1>2
<1>5. Even(t', members', parent', e, Excused') BY <1>3
<1>6. parent' # NULL => t'.child[e][parent'] = node' BY <1>4
<1> QED BY <1>1, <1>4, <1>5, <1>6 DEF ColorInv, Colors

LEMMA ColorEraseUp ==
  ASSUME ColorInv, EraseUp
  PROVE  ColorInv'
<1> DEFINE sib == Sibling
           s == SideOfNode
           o == Other(s)
           q == t.parent[parent]
           r == Paint(t, {}, {sib})
           e == IF q = NULL THEN "left" ELSE SideUnder(t, q, parent)
<1>1. /\ Short(Sibling) /\ Black(t, sib) /\ Childless(sib)
      /\ t' = r /\ node' = parent /\ parent' = q /\ UNCHANGED <<members, pc>>
  BY DEF EraseUp, Locals
<1>2. LinkInv' BY LinkPaints DEF ColorInv
<1>3. /\ pc = "erase_color" /\ sib \in members /\ parent \in members
      /\ node \in members \cup {NULL} /\ s \in Sides
      /\ t.child[s][parent] = node /\ t.child[o][parent] = sib
      /\ t.parent[sib] = parent /\ sib # parent /\ sib # node /\ node # parent
      /\ node # NULL => t.parent[node] = parent /\ t.black[node]
      /\ Reds(t, members, {}) /\ \E h : Heights(t, members, h, parent, s)
  BY <1>1, ShortFacts
<1> HIDE DEF s, sib
<1>4. PICK h : Heights(t, members, h, parent, s) BY <1>3
<1>5. /\ Good(t, members) /\ t \in Tree /\ members \subseteq Nodes /\ NULL \notin members
      /\ \A x \in members, d \in Sides :
           /\ t.child[d][x] \in members \cup {NULL}
           /\ t.child[d][x] # NULL => t.parent[t.child[d][x]] = x
      /\ \A x \in members : t.parent[x] \in members \cup {NULL} /\ Hangs(t, x)
  BY Around DEF ColorInv, LinkInv
<1>6. /\ h[NULL] = 0 /\ members \subseteq Pointer /\ NULL \in Pointer
      /\ \A x \in Pointer : h[x] \in Nat
      /\ \A x \in members, d \in Sides :
           h[x] = h[t.child[d][x]] + Tint(t, x) + (IF x = parent /\ d = s THEN 1 ELSE 0)
  BY <1>4, <1>5, HeightFacts
<1>7. /\ r.parent = t.parent /\ r.child = t.child
      /\ \A x \in members : r.black[x] <=> t.black[x] /\ x # sib
  <2>1. /\ r.parent = t.parent /\ r.child = t.child
        /\ \A x \in Nodes : r.black[x] = ((x \in {} \/ t.black[x]) /\ x \notin {sib})
    BY <1>5, PaintWrites
  <2> QED BY <1>5, <2>1
<1>8. /\ t.black[sib] /\ \A d \in Sides : t.child[d][sib] # NULL => t.black[t.child[d][sib]]
  BY <1>1, <1>3, <1>5 DEF Black, Childless
<1>9. q \in members \cup {NULL} /\ q # parent /\ q # sib
  BY <1>3, <1>5, NoLoop, NoPair DEF Good
<1>10. e \in Sides /\ (q # NULL => t.child[e][q] = parent)
  <2>1. CASE q = NULL BY <2>1 DEF Sides
  <2>2. CASE q # NULL
    <3>1. q \in members BY <1>9, <2>2
    <3> QED BY <1>3, <1>5, <2>2, <3>1, SideUnderHangs
  <2> QED BY <2>1, <2>2
<1>11. t.parent[parent] = q OBVIOUS
<1> HIDE DEF r, q, e
<1>12. /\ h[sib] \in Nat /\ h[parent] \in Nat /\ h[node] \in Nat
       /\ h[sib] > 0 /\ h[parent] > 0
       /\ h[parent] = h[node] + Tint(t, parent) + 1 /\ h[parent] = h[sib] + Tint(t, parent)
       /\ \A d \in Sides : h[sib] = h[t.child[d][sib]] + 1
  <2>1. h[sib] \in Nat /\ h[parent] \in Nat /\ h[node] \in Nat /\ Tint(t, parent) \in Nat
    BY <1>3, <1>6 DEF Pointer, Tint
  <2>2. Tint(t, sib) = 1 BY <1>8 DEF Tint
  <2>3. o \in Sides /\ o # s BY <1>3, OtherSide
  <2>4. h[parent] = h[node] + Tint(t, parent) + 1 BY <1>3, <1>6
  <2>5. h[parent] = h[sib] + Tint(t, parent) + 0 BY <1>3, <1>6, <2>3
  <2>6. ASSUME NEW d \in Sides PROVE h[sib] = h[t.child[d][sib]] + 1 /\ h[t.child[d][sib]] \in Nat
    <3>1. h[sib] = h[t.child[d][sib]] + Tint(t, sib) + 0 BY <1>3, <1>6
    <3>2. h[t.child[d][sib]] \in Nat BY <1>3, <1>5, <1>6 DEF Pointer
    <3> QED BY <2>2, <3>1, <3>2
  <2>7. h[sib] > 0 BY <1>3, <2>1, <2>6
  <2> HIDE DEF o, Tint
  <2> QED BY <2>1, <2>4, <2>5, <2>6, <2>7
<1> DEFINE i == [x \in Pointer |-> IF x = parent \/ x = sib THEN h[x]-1 ELSE h[x]]
<1>13. /\ i \in [Pointer -> Nat] /\ i[NULL] = 0
       /\ \A x \in Pointer : x # parent /\ x # sib => i[x] = h[x]
       /\ i[parent] = h[parent] - 1 /\ i[sib] = h[sib] - 1
  BY <1>3, <1>5, <1>6, <1>12
<1> HIDE DEF i
<1>14. ASSUME NEW x \in members, NEW d \in Sides
       PROVE  i[x] = i[t.child[d][x]] + Tint(r, x) + (IF x = q /\ d = e THEN 1 ELSE 0)
  <2> DEFINE z == t.child[d][x]
  <2>1. /\ z \in members \cup {NULL} /\ z \in Pointer /\ x \in Pointer /\ x # NULL
        /\ h[x] \in Nat /\ h[z] \in Nat /\ (z # NULL => t.parent[z] = x)
    BY <1>5, <1>6
  <2>2. h[x] = h[z] + Tint(t, x) + (IF x = parent /\ d = s THEN 1 ELSE 0) BY <1>6
  <2>3. Tint(t, x) \in Nat BY DEF Tint
  <2>4. x # sib => Tint(r, x) = Tint(t, x) BY <1>7 DEF Tint
  <2>5. CASE x = parent
    <3>1. x # q /\ x # sib BY <1>3, <1>9, <2>5
    <3>2. d = s \/ d = o BY <1>3, OtherSide
    <3>3. CASE d = s
      <4>1. z = node /\ i[z] = h[node] BY <1>3, <1>13, <2>1, <2>5, <3>3
      <4> HIDE DEF z
      <4> QED BY <1>12, <1>13, <2>3, <2>4, <2>5, <3>1, <4>1 DEF z
    <3>4. CASE d # s
      <4>1. z = sib /\ i[z] = h[sib] - 1 BY <1>3, <1>13, <2>5, <3>2, <3>4
      <4> HIDE DEF z
      <4> QED BY <1>12, <1>13, <2>3, <2>4, <2>5, <3>1, <4>1 DEF z
    <3> QED BY <3>3, <3>4
  <2>6. CASE x = sib
    <3>1. z # sib /\ z # parent /\ x # q /\ x # parent
      BY <1>3, <1>5, <1>9, <2>1, <2>6, NoLoop, NoPair DEF Good
    <3>2. i[z] = h[z] BY <1>13, <2>1, <3>1
    <3>3. h[sib] = h[z] + 1 BY <1>12, <2>6
    <3>4. Tint(r, x) = 0 BY <1>7, <2>6 DEF Tint
    <3> HIDE DEF z
    <3> QED BY <1>13, <2>1, <2>6, <3>1, <3>2, <3>3, <3>4 DEF z
  <2>7. CASE x # parent /\ x # sib
    <3>1. z # sib BY <1>3, <1>5, <2>1, <2>7
    <3>2. i[x] = h[x] /\ Tint(r, x) = Tint(t, x) BY <1>13, <2>1, <2>4, <2>7
    <3>3. z = parent <=> x = q /\ d = e
      <4>1. ASSUME z = parent PROVE x = q /\ d = e
        <5>1. x = q BY <1>3, <1>5, <1>11, <2>1, <4>1
        <5>2. Hangs(t, parent) /\ t.child[e][q] = parent /\ q # NULL
          BY <1>3, <1>5, <1>10, <2>1, <5>1
        <5> QED BY <1>10, <1>11, <4>1, <5>1, <5>2, OtherSide DEF Hangs
      <4>2. ASSUME x = q, d = e PROVE z = parent BY <1>10, <2>1, <4>2
      <4> QED BY <4>1, <4>2
    <3> HIDE DEF z
    <3>4. CASE z = parent
      <4>1. i[z] = h[z] - 1 BY <1>13, <3>4
      <4> QED BY <1>12, <2>1, <2>2, <2>3, <2>7, <3>2, <3>3, <3>4, <4>1 DEF z
    <3>5. CASE z # parent
      <4>1. i[z] = h[z] BY <1>13, <2>1, <3>1, <3>5
      <4> QED BY <2>1, <2>2, <2>3, <2>7, <3>2, <3>3, <3>5, <4>1 DEF z
    <3> QED BY <3>4, <3>5
  <2> QED BY <2>5, <2>6, <2>7
<1>15. Heights(r, members, i, q, e) BY <1>7, <1>13, <1>14 DEF Heights
<1>16. Reds(r, members, {sib})
  <2> SUFFICES ASSUME NEW x \in members, ~r.black[x], x # sib,
                      r.parent[x] = NULL \/ ~r.black[r.parent[x]]
               PROVE  FALSE
    BY DEF Reds
  <2>1. ~t.black[x] BY <1>7
  <2>2. t.parent[x] = sib => x = t.child[s][sib] \/ x = t.child[o][sib]
    BY <1>3, <1>5, TwoChildren
  <2>3. t.parent[x] # sib BY <1>3, <1>5, <1>8, <2>1, <2>2, OtherSide
  <2>4. t.parent[x] = NULL \/ ~t.black[t.parent[x]] BY <1>5, <1>7, <2>3
  <2> QED BY <1>3, <2>1, <2>4 DEF Reds
<1>17. Even(r, members, q, e, {sib}) BY <1>15, <1>16 DEF Even
<1>18. {sib} \cap members \subseteq Excused'
  <2>1. t'.parent[sib] = parent /\ node' = parent /\ members' = members BY <1>1, <1>3, <1>7
  <2> QED BY <1>3, <1>5, <2>1 DEF Excused
<1>19. Even(t', members', parent', e, Excused') BY <1>1, <1>17, <1>18, MoreReds
<1>20. node' # NULL => t'.parent[node'] = parent' BY <1>1, <1>7, <1>11
<1>21. parent' = NULL => node' = t'.root
  <2>1. r.root = t.root BY <1>5, PaintWrites DEF r
  <2> QED BY <1>1, <1>3, <1>5, <1>11, <2>1 DEF Hangs
<1>22. parent' # NULL => t'.child[e][parent'] = node' BY <1>1, <1>7, <1>10
<1> QED BY <1>1, <1>2, <1>3, <1>10, <1>19, <1>20, <1>21, <1>22 DEF ColorInv, Colors

\* The heights around a node of which one side may be short.
LEMMA ShortHeights ==
  ASSUME ColorInv, Short(Sibling), NEW h, Heights(t, members, h, parent, SideOfNode)
  PROVE  /\ h \in [Pointer -> Nat] /\ h[NULL] = 0 /\ members \subseteq Pointer
         /\ \A x \in Pointer : h[x] \in Nat
         /\ \A x \in members, d \in Sides : h[t.child[d][x]] \in Nat
         /\ h[parent] = h[node] + Tint(t, parent) + 1
         /\ h[parent] = h[Sibling] + Tint(t, parent)
         /\ h[Sibling] = h[node] + 1
         /\ \A x \in members \ {parent}, d \in Sides : h[x] = h[t.child[d][x]] + Tint(t, x)
<1> DEFINE sib == Sibling
           s == SideOfNode
           o == Other(s)
<1>1. /\ sib \in members /\ parent \in members
      /\ node \in members \cup {NULL} /\ s \in Sides
      /\ t.child[s][parent] = node /\ t.child[o][parent] = sib
  BY ShortFacts
<1>2. Good(t, members) BY DEF ColorInv, LinkInv
<1> HIDE DEF sib, s
<1>3. Heights(t, members, h, parent, s) BY DEF s
<1>4. /\ h[NULL] = 0 /\ members \subseteq Pointer /\ NULL \in Pointer
      /\ \A x \in Pointer : h[x] \in Nat
      /\ \A x \in members, d \in Sides :
           /\ t.child[d][x] \in Pointer
           /\ h[x] = h[t.child[d][x]] + Tint(t, x) + (IF x = parent /\ d = s THEN 1 ELSE 0)
  BY <1>2, <1>3, HeightFacts
<1>5. \A x : Tint(t, x) \in Nat BY DEF Tint
<1>6. h \in [Pointer -> Nat] BY <1>3 DEF Heights
<1>7. \A x \in members, d \in Sides : h[t.child[d][x]] \in Nat BY <1>4
<1>8. h[sib] \in Nat /\ h[parent] \in Nat /\ h[node] \in Nat BY <1>1, <1>4
<1>9. o \in Sides /\ o # s BY <1>1, OtherSide
<1> HIDE DEF o, Tint
<1>10. h[parent] = h[node] + Tint(t, parent) + 1 BY <1>1, <1>4
<1>11. h[parent] = h[sib] + Tint(t, parent) + 0 BY <1>1, <1>4, <1>9
<1>12. \A x \in members \ {parent}, d \in Sides : h[x] = h[t.child[d][x]] + Tint(t, x) + 0
  BY <1>4
<1>13. \A x \in members \ {parent}, d \in Sides : h[x] = h[t.child[d][x]] + Tint(t, x)
  BY <1>5, <1>7, <1>12
<1>14. h[parent] = h[sib] + Tint(t, parent) /\ h[sib] = h[node] + 1
  BY <1>5, <1>8, <1>10, <1>11
<1> QED BY <1>4, <1>6, <1>7, <1>10, <1>13, <1>14 DEF sib

\* What Good and the lack of red pairs say of the pointers of t.
LEMMA ShortPointers ==
  ASSUME ColorInv, Short(Sibling)
  PROVE  /\ Good(t, members) /\ t \in Tree /\ members \subseteq Nodes /\ NULL \notin members
         /\ \A x \in members, d \in Sides :
              /\ t.child[d][x] \in members \cup {NULL}
              /\ t.child[d][x] # NULL => t.parent[t.child[d][x]] = x
         /\ \A x \in members : t.parent[x] \in members \cup {NULL}
         /\ \A x, y \in members : t.parent[x] = y => x # y /\ t.parent[y] # x
         /\ \A x \in members : ~t.black[x] => t.parent[x] # NULL /\ t.black[t.parent[x]]
<1>1. Good(t, members) BY DEF ColorInv, LinkInv
<1>2. /\ t \in Tree /\ members \subseteq Nodes /\ NULL \notin members
      /\ \A x \in members, d \in Sides :
           /\ t.child[d][x] \in members \cup {NULL}
           /\ t.child[d][x] # NULL => t.parent[t.child[d][x]] = x
      /\ \A x \in members : t.parent[x] \in members \cup {NULL}
  BY <1>1, Around
<1>3. \A x, y \in members : t.parent[x] = y => x # y /\ t.parent[y] # x
  BY <1>1, NoPair DEF Good
<1>4. Reds(t, members, {}) BY ShortFacts
<1>5. \A x \in members : ~t.black[x] => t.parent[x] # NULL /\ t.black[t.parent[x]]
  BY <1>4 DEF Reds
<1> QED BY <1>1, <1>2, <1>3, <1>5

LEMMA ColorEraseRedSibling ==
  ASSUME ColorInv, EraseRedSibling
  PROVE  ColorInv'
<1> DEFINE sib == Sibling
           s == SideOfNode
           o == Other(s)
           near == t.child[s][sib]
           far == t.child[o][sib]
           k == Paint(t, {sib}, {parent})
           r == Rotate(k, s, parent)
<1>1. /\ Short(Sibling) /\ Red(t, sib) /\ t' = r
      /\ UNCHANGED <<members, pc, node, parent, arg>>
  BY DEF EraseRedSibling
<1>2. LinkInv' BY LinkEraseRotates DEF ColorInv
<1>3. /\ sib \in members /\ parent \in members
      /\ node \in members \cup {NULL} /\ s \in Sides
      /\ t.child[s][parent] = node /\ t.child[o][parent] = sib
      /\ t.parent[sib] = parent /\ sib # parent /\ sib # node /\ node # parent
      /\ node # NULL => t.parent[node] = parent /\ t.black[node]
      /\ \E h : Heights(t, members, h, parent, s)
  BY <1>1, ShortFacts
<1>4. PICK h : Heights(t, members, h, parent, s) BY <1>3
<1>5. /\ h \in [Pointer -> Nat] /\ h[NULL] = 0 /\ members \subseteq Pointer
      /\ \A x \in Pointer : h[x] \in Nat
      /\ \A x \in members, d \in Sides : h[t.child[d][x]] \in Nat
      /\ h[parent] = h[node] + Tint(t, parent) + 1
      /\ h[sib] = h[node] + 1
      /\ \A x \in members \ {parent}, d \in Sides : h[x] = h[t.child[d][x]] + Tint(t, x)
  BY <1>1, <1>4, ShortHeights
<1>6. /\ Good(t, members) /\ t \in Tree /\ members \subseteq Nodes /\ NULL \notin members
      /\ \A x \in members, d \in Sides :
           /\ t.child[d][x] \in members \cup {NULL}
           /\ t.child[d][x] # NULL => t.parent[t.child[d][x]] = x
      /\ \A x \in members : t.parent[x] \in members \cup {NULL}
      /\ \A x, y \in members : t.parent[x] = y => x # y /\ t.parent[y] # x
      /\ \A x \in members : ~t.black[x] => t.parent[x] # NULL /\ t.black[t.parent[x]]
  BY <1>1, ShortPointers
<1> HIDE DEF sib, s, k
<1>7. SamePointers(t, k) /\ k.child = t.child /\ k.parent = t.parent
  BY <1>6, Painted DEF SamePointers, k
<1>8. \A x \in members : k.black[x] <=> (x = sib \/ t.black[x]) /\ x # parent
  <2>1. \A x \in Nodes : k.black[x] = ((x \in {sib} \/ t.black[x]) /\ x \notin {parent})
    BY <1>6, PaintWrites DEF k
  <2> QED BY <1>6, <2>1
<1>9. ~t.black[sib] /\ t.black[parent] BY <1>1, <1>3, <1>6 DEF Red
<1>10. /\ o \in Sides /\ o # s /\ near \in members \cup {NULL} /\ far \in members \cup {NULL}
       /\ near # parent /\ far # parent /\ near # sib /\ far # sib
       /\ near # NULL => t.parent[near] = sib
  BY <1>3, <1>6, OtherSide
<1>11. /\ Tint(t, parent) = 1 /\ Tint(t, sib) = 0
       /\ Tint(k, parent) = 0 /\ Tint(k, sib) = 1
       /\ \A x \in members \ {parent, sib} : Tint(k, x) = Tint(t, x)
  BY <1>3, <1>8, <1>9 DEF Tint
<1>12. h[sib] \in Nat /\ h[parent] \in Nat /\ h[node] \in Nat /\ h[near] \in Nat /\ h[far] \in Nat
  BY <1>3, <1>5, <1>6, <1>10 DEF Pointer
<1> DEFINE i == [x \in Pointer |-> IF x = parent THEN h[sib] ELSE IF x = sib THEN h[parent]
                                   ELSE h[x]]
<1>13. /\ i \in [Pointer -> Nat] /\ i[NULL] = 0 /\ i[parent] = h[sib] /\ i[sib] = h[parent]
       /\ \A x \in members \cup {NULL} : x # parent /\ x # sib => i[x] = h[x]
  BY <1>3, <1>5, <1>6, <1>12 DEF Pointer
<1> HIDE DEF i
<1>14. TurnedHeights(t, members, s, parent, h, parent, s, k, i, parent, s)
  <2>1. i[near] = h[near] /\ i[far] = h[far] /\ i[node] = h[node] BY <1>3, <1>10, <1>13
  <2>2. h[sib] = h[near] + 0 /\ h[sib] = h[far] + 0 BY <1>3, <1>5, <1>10, <1>11
  <2>3. near = t.child[s][sib] /\ far = t.child[o][sib] OBVIOUS
  <2> HIDE DEF o, near, far, Tint
  <2>4. /\ i[sib] = h[parent] /\ i[parent] = i[near] + Tint(k, parent) + 0
        /\ i[parent] = i[node] + Tint(k, parent) + 1
        /\ i[sib] = i[parent] + Tint(k, sib) + 0 /\ i[sib] = i[far] + Tint(k, sib) + 0
    BY <1>5, <1>11, <1>12, <1>13, <2>1, <2>2
  <2>5. \A x \in members \ {parent, sib} : i[x] + Tint(t, x) = h[x] + Tint(k, x) /\ i[x] = h[x]
    BY <1>11, <1>13
  <2> QED BY <1>3, <1>10, <1>13, <2>3, <2>4, <2>5 DEF TurnedHeights, o
<1>15. TurnedReds(t, members, s, parent, k, {})
  <2>1. k.black[sib] BY <1>3, <1>8
  <2>2. near # NULL => k.black[near] BY <1>6, <1>8, <1>9, <1>10
  <2>3. ASSUME NEW x \in members \ {parent, sib}, ~k.black[x],
               t.parent[x] = NULL \/ ~k.black[t.parent[x]]
        PROVE  FALSE
    <3>1. ~t.black[x] BY <1>8, <2>3
    <3>2. t.parent[x] # NULL /\ t.black[t.parent[x]] /\ t.parent[x] \in members BY <1>6, <3>1
    <3>3. t.parent[x] = parent BY <1>8, <2>3, <3>2
    <3>4. x = node \/ x = sib
      <4>1. x = t.child[s][parent] \/ x = t.child[o][parent] BY <1>3, <1>6, <3>3, TwoChildren
      <4> QED BY <1>3, <4>1
    <3> QED BY <1>3, <1>6, <2>3, <3>1, <3>4
  <2>4. t.child[o][parent] = sib /\ t.child[s][sib] = near BY <1>3
  <2> HIDE DEF o, near
  <2> QED BY <2>1, <2>2, <2>3, <2>4 DEF TurnedReds, o
<1>16. t.child[o][parent] # NULL BY <1>3, <1>6
<1>17. Even(r, members, parent, s, {})
  BY <1>3, <1>4, <1>6, <1>7, <1>14, <1>15, <1>16, RotateEven
<1>18. r.child[s][parent] = node /\ (node # NULL => r.parent[node] = parent)
  <2>1. Good(k, members) /\ k.child[o][parent] # NULL BY <1>6, <1>7, <1>16, SamePointersGood
  <2>2. /\ parent # k.parent[parent] /\ parent \in Nodes /\ s \in Sides
        /\ k.child[o][parent] = sib /\ k.child[s][sib] = near /\ k.child[s][parent] = node
    BY <1>3, <1>6, <1>7
  <2>3. \A x \in Nodes : r.parent[x] = IF x = parent THEN sib
                                       ELSE IF x = sib THEN k.parent[parent]
                                       ELSE IF x = near THEN parent ELSE k.parent[x]
    BY <1>3, <2>1, <2>2, RotateWrites
  <2>4. \A d \in Sides, x \in Nodes :
          r.child[d][x] = IF x = parent /\ d = o THEN near
                          ELSE IF x = sib /\ d = s THEN parent
                          ELSE IF x = k.parent[parent] /\ k.child[d][x] = parent THEN sib
                          ELSE k.child[d][x]
    BY <1>3, <2>1, <2>2, RotateWrites
  <2>5. r.child[s][parent] = node BY <1>3, <1>10, <2>2, <2>4
  <2>6. ASSUME node # NULL PROVE r.parent[node] = parent
    BY <1>3, <1>6, <1>7, <1>10, <2>3, <2>6
  <2> QED BY <2>5, <2>6
<1> QED BY <1>1, <1>2, <1>17, <1>18, StillShort DEF s

LEMMA ColorEraseRedNear ==
  ASSUME ColorInv, EraseRedNear
  PROVE  ColorInv'
<1> DEFINE sib == Sibling
           s == SideOfNode
           o == Other(s)
           near == t.child[s][sib]
           far == t.child[o][sib]
           b == t.child[o][near]
           w == t.child[s][near]
           k == Paint(t, {near}, {sib})
           r == Rotate(k, o, sib)
<1>1. /\ Short(Sibling) /\ Black(t, sib) /\ ~Childless(sib) /\ Black(t, far) /\ t' = r
      /\ UNCHANGED <<members, pc, node, parent, arg>>
  BY DEF EraseRedNear
<1>2. LinkInv' BY LinkEraseRotates DEF ColorInv
<1>3. /\ sib \in members /\ parent \in members
      /\ node \in members \cup {NULL} /\ s \in Sides
      /\ t.child[s][parent] = node /\ t.child[o][parent] = sib
      /\ t.parent[sib] = parent /\ sib # parent /\ sib # node /\ node # parent
      /\ node # NULL => t.parent[node] = parent /\ t.black[node]
      /\ \E h : Heights(t, members, h, parent, s)
  BY <1>1, ShortFacts
<1>4. PICK h : Heights(t, members, h, parent, s) BY <1>3
<1>5. /\ h \in [Pointer -> Nat] /\ h[NULL] = 0 /\ members \subseteq Pointer
      /\ \A x \in Pointer : h[x] \in Nat
      /\ \A x \in members, d \in Sides : h[t.child[d][x]] \in Nat
      /\ \A x \in members \ {parent}, d \in Sides : h[x] = h[t.child[d][x]] + Tint(t, x)
  BY <1>1, <1>4, ShortHeights
<1>6. /\ Good(t, members) /\ t \in Tree /\ members \subseteq Nodes /\ NULL \notin members
      /\ \A x \in members, d \in Sides :
           /\ t.child[d][x] \in members \cup {NULL}
           /\ t.child[d][x] # NULL => t.parent[t.child[d][x]] = x
      /\ \A x \in members : t.parent[x] \in members \cup {NULL}
      /\ \A x, y \in members : t.parent[x] = y => x # y /\ t.parent[y] # x
      /\ \A x \in members : ~t.black[x] => t.parent[x] # NULL /\ t.black[t.parent[x]]
  BY <1>1, ShortPointers
<1>7. o \in Sides /\ o # s /\ Other(o) = s BY <1>3, OtherSide
<1>8. near # NULL /\ ~t.black[near]
  <2> HIDE DEF sib, s
  <2> QED BY <1>1, <1>3, OtherSide DEF Childless, Black
<1> HIDE DEF sib, s, k
<1>9. t.black[sib] /\ near \in members /\ t.parent[near] = sib
  BY <1>1, <1>3, <1>6, <1>8 DEF Black
<1>10. /\ b \in members \cup {NULL} /\ w \in members \cup {NULL} /\ far \in members \cup {NULL}
       /\ b # NULL => t.parent[b] = near
       /\ w # NULL => t.parent[w] = near
       /\ far # NULL => t.parent[far] = sib
  BY <1>3, <1>6, <1>7, <1>9
<1>11. /\ near # parent /\ near # sib /\ parent # NULL /\ sib # NULL
       /\ b # near /\ b # sib /\ b # parent /\ w # near /\ w # sib
       /\ far # sib /\ far # near
  <2>1. near # parent /\ near # sib BY <1>3, <1>6, <1>9
  <2>2. b # near /\ b # sib /\ w # near /\ w # sib BY <1>3, <1>6, <1>9, <1>10
  <2>3. b # parent BY <1>3, <1>6, <1>9, <1>10, NoCycle DEF Good
  <2>4. far # sib /\ far # near BY <1>1, <1>3, <1>6, <1>8, <1>10 DEF Black
  <2> QED BY <1>3, <1>6, <2>1, <2>2, <2>3, <2>4
<1>12. SamePointers(t, k) /\ k.child = t.child /\ k.parent = t.parent
  BY <1>6, Painted DEF SamePointers, k
<1> HIDE DEF near, far, b, w, o
<1>13. \A x \in members : k.black[x] <=> (x = near \/ t.black[x]) /\ x # sib
  <2>1. \A x \in Nodes : k.black[x] = ((x \in {near} \/ t.black[x]) /\ x \notin {sib})
    BY <1>6, PaintWrites DEF k
  <2> QED BY <1>6, <2>1
<1>14. /\ Tint(t, sib) = 1 /\ Tint(t, near) = 0
       /\ Tint(k, sib) = 0 /\ Tint(k, near) = 1
       /\ \A x \in members \ {near, sib} : Tint(k, x) = Tint(t, x)
  BY <1>3, <1>8, <1>9, <1>11, <1>13 DEF Tint
<1>15. h[sib] \in Nat /\ h[near] \in Nat /\ h[b] \in Nat /\ h[w] \in Nat /\ h[far] \in Nat
  BY <1>3, <1>5, <1>9, <1>10 DEF Pointer
<1> DEFINE i == [x \in Pointer |-> IF x = sib THEN h[near] ELSE IF x = near THEN h[sib]
                                   ELSE h[x]]
<1>16. /\ i \in [Pointer -> Nat] /\ i[NULL] = 0 /\ i[sib] = h[near] /\ i[near] = h[sib]
       /\ \A x \in members \cup {NULL} : x # near /\ x # sib => i[x] = h[x]
  BY <1>3, <1>5, <1>8, <1>9, <1>11, <1>15 DEF Pointer
<1> HIDE DEF i
<1>17. /\ t.child[s][sib] = near /\ t.child[o][sib] = far
       /\ t.child[o][near] = b /\ t.child[s][near] = w
  BY DEF near, far, b, w
<1>18. TurnedHeights(t, members, o, sib, h, parent, s, k, i, parent, s)
  <2>1. i[b] = h[b] /\ i[w] = h[w] /\ i[far] = h[far] BY <1>10, <1>11, <1>16
  <2>2. /\ h[near] = h[b] + 0 /\ h[near] = h[w] + 0 /\ h[sib] = h[near] + 1 /\ h[sib] = h[far] + 1
    BY <1>3, <1>5, <1>7, <1>9, <1>11, <1>14, <1>17
  <2> HIDE DEF Tint
  <2>3. /\ i[near] = h[sib] /\ i[sib] = i[b] + Tint(k, sib) + 0
        /\ i[sib] = i[far] + Tint(k, sib) + 0
        /\ i[near] = i[sib] + Tint(k, near) + 0 /\ i[near] = i[w] + Tint(k, near) + 0
    BY <1>14, <1>15, <1>16, <2>1, <2>2
  <2>4. \A x \in members \ {sib, near} : i[x] + Tint(t, x) = h[x] + Tint(k, x) /\ i[x] = h[x]
    BY <1>14, <1>16
  <2> QED BY <1>3, <1>7, <1>11, <1>16, <1>17, <2>3, <2>4 DEF TurnedHeights
<1>19. TurnedReds(t, members, o, sib, k, {})
  <2>1. k.black[near] BY <1>9, <1>11, <1>13
  <2>2. b # NULL => k.black[b] BY <1>6, <1>8, <1>10, <1>11, <1>13
  <2>3. ASSUME NEW x \in members \ {sib, near}, ~k.black[x],
               t.parent[x] = NULL \/ ~k.black[t.parent[x]]
        PROVE  FALSE
    <3>1. ~t.black[x] BY <1>13, <2>3
    <3>2. t.parent[x] # NULL /\ t.black[t.parent[x]] /\ t.parent[x] \in members BY <1>6, <3>1
    <3>3. t.parent[x] = sib BY <1>13, <2>3, <3>2
    <3>4. x = near \/ x = far BY <1>3, <1>6, <1>7, <1>17, <3>3, TwoChildren
    <3> QED BY <1>1, <1>6, <2>3, <3>1, <3>4 DEF Black
  <2> QED BY <1>7, <1>17, <2>1, <2>2, <2>3 DEF TurnedReds
<1>20. t.child[Other(o)][sib] # NULL BY <1>7, <1>8, <1>17
<1>21. Even(r, members, parent, s, {})
  BY <1>3, <1>4, <1>6, <1>7, <1>12, <1>18, <1>19, <1>20, RotateEven
<1>22. r.child[s][parent] = node /\ (node # NULL => r.parent[node] = parent)
  <2>1. Good(k, members) /\ k.child[Other(o)][sib] # NULL
    BY <1>6, <1>12, <1>20, SamePointersGood
  <2>2. /\ k.child[Other(o)][sib] = near /\ k.child[o][near] = b /\ k.child[s][parent] = node
        /\ k.parent[sib] = parent /\ parent \in Nodes
    BY <1>3, <1>6, <1>7, <1>12, <1>17
  <2>3. \A x \in Nodes : r.parent[x] = IF x = sib THEN near
                                       ELSE IF x = near THEN parent
                                       ELSE IF x = b THEN sib ELSE k.parent[x]
    BY <1>3, <1>7, <2>1, <2>2, RotateWrites
  <2>4. \A d \in Sides, x \in Nodes :
          r.child[d][x] = IF x = sib /\ d = Other(o) THEN b
                          ELSE IF x = near /\ d = o THEN sib
                          ELSE IF x = parent /\ k.child[d][x] = sib THEN near
                          ELSE k.child[d][x]
    BY <1>3, <1>7, <2>1, <2>2, RotateWrites
  <2>5. r.child[s][parent] = node BY <1>3, <1>11, <2>2, <2>4
  <2>6. ASSUME node # NULL PROVE r.parent[node] = parent
    BY <1>3, <1>6, <1>9, <1>10, <1>11, <1>12, <2>3, <2>6
  <2> QED BY <2>5, <2>6
<1> QED BY <1>1, <1>2, <1>21, <1>22, StillShort DEF s

LEMMA ColorEraseRotate ==
  ASSUME ColorInv, EraseRotate
  PROVE  ColorInv'
<1> DEFINE sib == Sibling
           s == SideOfNode
           o == Other(s)
           near == t.child[s][sib]
           far == t.child[o][sib]
           k0 == [t EXCEPT !.black[sib] = t.black[parent]]
           k == Paint(k0, {parent, far}, {})
           r == Rotate(k, s, parent)
<1>1. /\ Short(Sibling) /\ Black(t, sib) /\ Red(t, far) /\ t' = Paint(r, {r.root}, {})
      /\ pc' = "idle" /\ UNCHANGED members
  BY DEF EraseRotate, Return
<1>2. LinkInv' BY LinkEraseRotates DEF ColorInv
<1>3. /\ sib \in members /\ parent \in members
      /\ node \in members \cup {NULL} /\ s \in Sides
      /\ t.child[s][parent] = node /\ t.child[o][parent] = sib
      /\ t.parent[sib] = parent /\ sib # parent /\ sib # node /\ node # parent
      /\ node # NULL => t.parent[node] = parent /\ t.black[node]
      /\ \E h : Heights(t, members, h, parent, s)
  BY <1>1, ShortFacts
<1>4. PICK h : Heights(t, members, h, parent, s) BY <1>3
<1>5. /\ h \in [Pointer -> Nat] /\ h[NULL] = 0 /\ members \subseteq Pointer
      /\ \A x \in Pointer : h[x] \in Nat
      /\ \A x \in members, d \in Sides : h[t.child[d][x]] \in Nat
      /\ h[parent] = h[sib] + Tint(t, parent) /\ h[sib] = h[node] + 1
      /\ \A x \in members \ {parent}, d \in Sides : h[x] = h[t.child[d][x]] + Tint(t, x)
  BY <1>1, <1>4, ShortHeights
<1>6. /\ Good(t, members) /\ t \in Tree /\ members \subseteq Nodes /\ NULL \notin members
      /\ \A x \in members, d \in Sides :
           /\ t.child[d][x] \in members \cup {NULL}
           /\ t.child[d][x] # NULL => t.parent[t.child[d][x]] = x
      /\ \A x \in members : t.parent[x] \in members \cup {NULL}
      /\ \A x, y \in members : t.parent[x] = y => x # y /\ t.parent[y] # x
      /\ \A x \in members : ~t.black[x] => t.parent[x] # NULL /\ t.black[t.parent[x]]
  BY <1>1, ShortPointers
<1>7. o \in Sides /\ o # s BY <1>3, OtherSide
<1> HIDE DEF sib, s
<1>8. /\ t.black[sib] /\ far \in members /\ ~t.black[far] /\ t.parent[far] = sib
      /\ near \in members \cup {NULL} /\ (near # NULL => t.parent[near] = sib)
  BY <1>1, <1>3, <1>6, <1>7 DEF Black, Red
<1>9. /\ far # parent /\ far # sib /\ near # parent /\ near # sib /\ far # node
      /\ parent # NULL /\ sib # NULL
  BY <1>3, <1>6, <1>8
<1>10. near # far
  <2>1. Hangs(t, far) BY <1>6, <1>8, Around
  <2> QED BY <1>3, <1>6, <1>8, <2>1, OtherSide DEF Hangs
<1>11. SamePointers(t, k) /\ k.child = t.child /\ k.parent = t.parent
       /\ \A x \in members : k.black[x] <=> \/ x = parent \/ x = far
                                            \/ x = sib /\ t.black[parent]
                                            \/ x # sib /\ t.black[x]
  <2>1. /\ k0 \in Tree /\ k0.root = t.root /\ k0.parent = t.parent /\ k0.child = t.child
        /\ \A x \in Nodes : k0.black[x] = IF x = sib THEN t.black[parent] ELSE t.black[x]
    BY <1>3, <1>6 DEF Tree
  <2>2. SamePointers(t, k0) BY <2>1 DEF SamePointers
  <2>3. Good(k0, members) BY <1>6, <2>2, SamePointersGood
  <2> HIDE DEF k0, far
  <2>4. SamePointers(k0, k) BY <2>3, Painted
  <2>5. \A x \in Nodes : k.black[x] = ((x \in {parent, far} \/ k0.black[x]) /\ x \notin {})
    BY <2>1, PaintWrites
  <2>6. \A x \in Nodes : k.black[x] <=> x = parent \/ x = far \/ k0.black[x] BY <2>5
  <2> HIDE DEF k
  <2> QED BY <1>6, <2>1, <2>4, <2>6 DEF SamePointers
<1> HIDE DEF near, far, o, k
<1>12. /\ Tint(t, sib) = 1 /\ Tint(t, far) = 0
       /\ Tint(k, parent) = 1 /\ Tint(k, far) = 1 /\ Tint(k, sib) = Tint(t, parent)
       /\ \A x \in members \ {parent, sib, far} : Tint(k, x) = Tint(t, x)
       /\ \A x : Tint(t, x) \in Nat
  BY <1>3, <1>8, <1>9, <1>11 DEF Tint
<1>13. /\ h[sib] \in Nat /\ h[parent] \in Nat /\ h[node] \in Nat /\ h[near] \in Nat
       /\ h[far] \in Nat
  BY <1>3, <1>5, <1>8 DEF Pointer
<1> DEFINE i == [x \in Pointer |-> IF x = parent THEN h[sib] ELSE IF x = sib THEN h[parent]
                                   ELSE IF x = far THEN h[far]+1 ELSE h[x]]
<1>14. /\ i \in [Pointer -> Nat] /\ i[NULL] = 0 /\ i[parent] = h[sib] /\ i[sib] = h[parent]
       /\ i[far] = h[far]+1
       /\ \A x \in members \cup {NULL} : x # parent /\ x # sib /\ x # far => i[x] = h[x]
  BY <1>3, <1>5, <1>6, <1>8, <1>9, <1>13 DEF Pointer
<1> HIDE DEF i
<1>15. t.child[s][sib] = near /\ t.child[o][sib] = far BY DEF near, far
<1>16. TurnedHeights(t, members, s, parent, h, parent, s, k, i, NULL, "left")
  <2>1. i[near] = h[near] /\ i[node] = h[node] BY <1>3, <1>8, <1>9, <1>10, <1>14
  <2>2. h[sib] = h[near] + 1 /\ h[sib] = h[far] + 1
    BY <1>3, <1>5, <1>7, <1>12, <1>15
  <2> HIDE DEF Tint
  <2>3. /\ i[sib] = h[parent] /\ i[parent] = i[near] + Tint(k, parent) + 0
        /\ i[parent] = i[node] + Tint(k, parent) + 0
        /\ i[sib] = i[parent] + Tint(k, sib) + 0 /\ i[sib] = i[far] + Tint(k, sib) + 0
    BY <1>5, <1>12, <1>13, <1>14, <2>1, <2>2
  <2>4. ASSUME NEW x \in members \ {parent, sib}
        PROVE  /\ i[x] + Tint(t, x) = h[x] + Tint(k, x)
               /\ t.parent[x] # sib => i[x] = h[x]
               /\ x # NULL
    <3>1. x # NULL BY <1>6
    <3>2. CASE x = far BY <1>8, <1>12, <1>13, <1>14, <3>1, <3>2
    <3>3. CASE x # far BY <1>12, <1>14, <3>1, <3>3
    <3> QED BY <3>2, <3>3
  <2> QED BY <1>3, <1>9, <1>14, <1>15, <2>3, <2>4 DEF TurnedHeights, o
<1>17. TurnedReds(t, members, s, parent, k, {})
  <2>1. k.black[parent] BY <1>3, <1>11
  <2>2. ASSUME ~k.black[sib], t.parent[parent] = NULL \/ ~k.black[t.parent[parent]] PROVE FALSE
    <3>1. ~t.black[parent] BY <1>3, <1>11, <2>2
    <3>2. t.parent[parent] # NULL /\ t.black[t.parent[parent]] /\ t.parent[parent] \in members
          /\ t.parent[parent] # sib
      BY <1>3, <1>6, <3>1
    <3> QED BY <1>11, <2>2, <3>2
  <2>3. ASSUME NEW x \in members \ {parent, sib, near}, ~k.black[x],
               t.parent[x] = NULL \/ ~k.black[t.parent[x]]
        PROVE  FALSE
    <3>1. ~t.black[x] /\ x # far BY <1>11, <2>3
    <3>2. t.parent[x] # NULL /\ t.black[t.parent[x]] /\ t.parent[x] \in members BY <1>6, <3>1
    <3>3. t.parent[x] = sib BY <1>11, <2>3, <3>2
    <3>4. x = near \/ x = far BY <1>3, <1>6, <1>15, <3>3, TwoChildren DEF o
    <3> QED BY <2>3, <3>1, <3>4
  <2> QED BY <1>3, <1>15, <2>1, <2>2, <2>3 DEF TurnedReds, o
<1>18. t.child[Other(s)][parent] # NULL BY <1>3, <1>6 DEF o
<1>19. Even(r, members, NULL, "left", {})
  BY <1>3, <1>4, <1>6, <1>11, <1>16, <1>17, <1>18, RotateEven
<1>20. Good(r, members)
  <2>1. k.child[Other(s)][parent] # NULL BY <1>11, <1>18
  <2> QED BY <1>3, <1>6, <1>11, <2>1, RotateTurned
<1> HIDE DEF r
<1>21. /\ r.root \in members \cup {NULL} /\ (Red(r, r.root) => r.parent[r.root] = NULL)
       /\ "left" \in Sides
  BY <1>20, Around DEF Red, Sides
<1>22. Even(Paint(r, {r.root}, {}), members, NULL, "left", {})
  BY <1>6, <1>19, <1>20, <1>21, PaintEven
<1> QED BY <1>1, <1>2, <1>22, Settled

-----------------------------------------------------------------------------
(* Every step *)

LEMMA ColorStep == ColorInv /\ [Next]_vars => ColorInv'
<1> SUFFICES ASSUME ColorInv, [Next]_vars PROVE ColorInv'
  OBVIOUS
<1>1. LinkInv' BY LinkStep DEF ColorInv
<1>2. CASE Turn
  <2>1. CASE Descend \/ InsertRefused \/ SearchEnd \/ Successor
    <3>1. UNCHANGED <<t, members>> /\ pc \notin {"insert_color", "erase_color"}
          /\ pc' \notin {"insert_color", "erase_color"}
      BY <2>1 DEF Descend, InsertRefused, SearchEnd, Successor, Return
    <3> QED BY <1>1, <3>1, ColorKept
  <2> QED BY <1>2, <2>1, ColorInsertLink, ColorInsertDone, ColorInsertRecolor,
             ColorInsertRotateInner, ColorInsertRotate, ColorEraseSplice, ColorEraseDone,
             ColorEraseRedSibling, ColorEraseUp, ColorEraseRedNear, ColorEraseRotate DEF Turn
<1>3. CASE Caller
  <2>1. CASE Leave \/ EraseInner \/ \E n \in Nodes : InsertCall(n) \/ SearchCall(n)
    <3>1. UNCHANGED <<t, members>> /\ pc \notin {"insert_color", "erase_color"}
          /\ pc' \notin {"insert_color", "erase_color"}
      BY <2>1 DEF Leave, EraseInner, InsertCall, SearchCall, Call, Return
    <3> QED BY <1>1, <3>1, ColorKept
  <2> QED BY <1>3, <2>1, ColorErase, ColorReplace DEF Caller
<1>4. CASE UNCHANGED vars BY <1>1, <1>4 DEF vars, ColorInv, Colors, Excused
<1> QED BY <1>2, <1>3, <1>4 DEF Next

LEMMA ColorAlways == Spec => []ColorInv
<1> QED BY ColorInit, ColorStep, PTL DEF Spec

-----------------------------------------------------------------------------
(* The black nodes on the way up *)

Ups(up) ==
  up = [d \in 0..Cardinality(Nodes) |-> [p \in Pointer |->
          IF d = 0 \/ p = NULL THEN 0
          ELSE up[d-1][t.parent[p]] + (IF t.black[p] THEN 1 ELSE 0)]]

LEMMA UpExists ==
  ASSUME t \in Tree
  PROVE  \E u \in [0..Cardinality(Nodes) -> [Pointer -> Nat]] : Ups(u)
<1> DEFINE V == [Pointer -> Nat]
           More(e) == [p \in Pointer |->
                         IF p = NULL THEN 0
                         ELSE e[t.parent[p]] + (IF t.black[p] THEN 1 ELSE 0)]
           step == [e \in V |-> More(e)]
           none == [p \in Pointer |-> 0]
           C == Cardinality(Nodes)
<1>1. \A p \in Pointer : p # NULL => t.parent[p] \in Pointer
  BY DEF Tree, Pointer
<1>2. step \in [V -> V]
  <2> SUFFICES ASSUME NEW e \in V PROVE More(e) \in V
    OBVIOUS
  <2> SUFFICES ASSUME NEW p \in Pointer, p # NULL
               PROVE  e[t.parent[p]] + (IF t.black[p] THEN 1 ELSE 0) \in Nat
    OBVIOUS
  <2>1. e[t.parent[p]] \in Nat BY <1>1
  <2> QED BY <2>1
<1>3. none \in V OBVIOUS
<1> HIDE DEF V, step, none
<1>4. PICK f : Climbs(f, V, none, step, C) BY <1>2, <1>3, NodesCounted, Levels
<1>5. ASSUME NEW d \in 0..C
      PROVE  f[d] = [p \in Pointer |->
                       IF d = 0 \/ p = NULL THEN 0
                       ELSE f[d-1][t.parent[p]] + (IF t.black[p] THEN 1 ELSE 0)]
  <2>1. CASE d = 0 BY <1>4, <2>1 DEF none, Climbs
  <2>2. CASE d # 0
    <3>1. d \in 1..C /\ d-1 \in 0..C BY <2>2, NodesCounted
    <3>2. f[d] = More(f[d-1]) BY <1>4, <3>1 DEF step, Climbs
    <3> QED BY <2>2, <3>2
  <2> QED BY <2>1, <2>2
<1>6. f = [d \in 0..C |-> f[d]] /\ f \in [0..C -> V] BY <1>4 DEF Climbs
<1>7. Ups(f) BY <1>5, <1>6 DEF Ups
<1> QED BY <1>6, <1>7 DEF V

LEMMA UpSteps ==
  ASSUME t \in Tree, members \subseteq Nodes, NEW u, Ups(u), NEW d \in 0..Cardinality(Nodes)
  PROVE  /\ \A p \in Pointer : d = 0 => u[d][p] = 0
         /\ u[d][NULL] = 0
         /\ d # 0 => \A p \in Nodes : u[d][p] = u[d-1][t.parent[p]] + Tint(t, p)
<1>1. u[d] = [p \in Pointer |->
                IF d = 0 \/ p = NULL THEN 0
                ELSE u[d-1][t.parent[p]] + (IF t.black[p] THEN 1 ELSE 0)]
  BY DEF Ups
<1>2. NULL \notin Nodes /\ NULL \in Pointer /\ Nodes \subseteq Pointer
  BY ConstantsAssumption DEF Pointer
<1> QED BY <1>1, <1>2 DEF Tint

\* The black nodes on at most d levels from a member up are u[d] of it.
Counts(u) ==
  /\ u \in [0..Cardinality(Nodes) -> [Pointer -> Nat]]
  /\ \A d \in 1..Cardinality(Nodes), p \in members :
       u[d][p] = u[d-1][t.parent[p]] + Tint(t, p)
  /\ \A d \in 0..Cardinality(Nodes) : u[d][NULL] = 0

LEMMA UpBlack ==
  ASSUME t \in Tree, members \subseteq Nodes
  PROVE  \E u : Counts(u) /\ \A n \in members : BlackAbove[n] = u[Cardinality(Nodes)][n]
<1> DEFINE u == CHOOSE u : Ups(u)
           C == Cardinality(Nodes)
<1>1. BlackAbove = [n \in members |-> u[C][n]] BY DEF BlackAbove, Ups
<1>2. Ups(u) BY UpExists
<1>3. PICK f \in [0..C -> [Pointer -> Nat]] : Ups(f) BY UpExists
<1> HIDE DEF u
<1>4. \A p \in Pointer : p = NULL \/ (p \in Nodes /\ t.parent[p] \in Pointer)
  BY DEF Pointer, Tree
<1>5. C \in Nat BY NodesCounted
<1> DEFINE S == {d \in Nat : d \in 0..C => \A p \in Pointer : u[d][p] = f[d][p]}
<1>6. 0 \in S
  <2>1. 0 \in 0..C BY <1>5
  <2>2. \A p \in Pointer : 0 = 0 => u[0][p] = 0 BY <1>2, <2>1, UpSteps
  <2>3. \A p \in Pointer : 0 = 0 => f[0][p] = 0 BY <1>3, <2>1, UpSteps
  <2> QED BY <2>2, <2>3
<1>7. ASSUME NEW d \in Nat, d \in S PROVE d+1 \in S
  <2> SUFFICES ASSUME d+1 \in 0..C, NEW p \in Pointer PROVE u[d+1][p] = f[d+1][p]
    OBVIOUS
  <2>1. d \in 0..C /\ d+1 # 0 /\ (d+1)-1 = d BY <1>5
  <2>2. CASE p = NULL
    <3>1. u[d+1][NULL] = 0 BY <1>2, UpSteps
    <3>2. f[d+1][NULL] = 0 BY <1>3, UpSteps
    <3> QED BY <2>2, <3>1, <3>2
  <2>3. CASE p # NULL
    <3>1. p \in Nodes /\ u[d][t.parent[p]] = f[d][t.parent[p]] BY <1>4, <1>7, <2>1, <2>3
    <3>2. d+1 # 0 => \A q \in Nodes : u[d+1][q] = u[(d+1)-1][t.parent[q]] + Tint(t, q)
      BY <1>2, UpSteps
    <3>3. d+1 # 0 => \A q \in Nodes : f[d+1][q] = f[(d+1)-1][t.parent[q]] + Tint(t, q)
      BY <1>3, UpSteps
    <3> QED BY <2>1, <3>1, <3>2, <3>3
  <2> QED BY <2>2, <2>3
<1> HIDE DEF S
<1>8. C \in S BY <1>5, <1>6, <1>7, NatSet
<1>9. \A n \in members : BlackAbove[n] = f[C][n]
  <2>1. C \in 0..C /\ members \subseteq Pointer BY <1>5 DEF Pointer
  <2> QED BY <1>1, <1>8, <2>1 DEF S
<1>10. \A d \in 1..C, p \in members : f[d][p] = f[d-1][t.parent[p]] + Tint(t, p)
  <2> SUFFICES ASSUME NEW d \in 1..C PROVE \A p \in members : f[d][p] = f[d-1][t.parent[p]] + Tint(t, p)
    OBVIOUS
  <2>1. d \in 0..C /\ d # 0 BY <1>5
  <2>2. d # 0 => \A p \in Nodes : f[d][p] = f[d-1][t.parent[p]] + Tint(t, p)
    BY <1>3, <2>1, UpSteps
  <2> QED BY <2>1, <2>2
<1>11. \A d \in 0..C : f[d][NULL] = 0 BY <1>3, UpSteps
<1> QED BY <1>3, <1>9, <1>10, <1>11 DEF Counts

\* The way up from x leads to y along Y, and what it passes and what is left
\* of the height make up the same at x and at y.
Climbing(u, h, x, Y, y) ==
  /\ Y \subseteq members /\ y \in Y
  /\ \A z \in Y \ {y} : t.parent[z] \in Y
  /\ u[Cardinality(Nodes)][x] + h[x] + Tint(t, y)
       = u[Cardinality(Nodes)+1-Cardinality(Y)][y] + h[y] + Tint(t, x)

\* The black nodes above x and its height make up the height of the root.
LEMMA UpHeight ==
  ASSUME LinkInv, NEW x \in members,
         NEW u, Counts(u), NEW h, Heights(t, members, h, NULL, "left")
  PROVE  u[Cardinality(Nodes)][x] + h[x] = h[t.root] + Tint(t, x)
<1> DEFINE C == Cardinality(Nodes)
           Goal == u[C][x] + h[x] = h[t.root] + Tint(t, x)
           Chain(n) == \E Y \in SUBSET members, y \in members :
                         Cardinality(Y) = n /\ Climbing(u, h, x, Y, y)
           S == {n \in Nat : n+1 \in 1..C => Goal \/ Chain(n+1)}
<1>1. /\ members \subseteq Nodes /\ NULL \notin members /\ IsFiniteSet(Nodes)
      /\ \A n \in members : t.parent[n] \in members \cup {NULL} /\ Hangs(t, n)
      /\ Rooted(t, members) /\ Good(t, members)
  BY Around, ConstantsAssumption DEF LinkInv, Good
<1>2. /\ C \in Nat /\ \A Y \in SUBSET members : IsFiniteSet(Y) /\ Cardinality(Y) \in Nat
                                                /\ Cardinality(Y) <= C
  BY <1>1, FS_Subset, FS_CardinalityType
<1>3. C > 0 /\ Cardinality({x}) = 1
  <2>1. Cardinality({x}) = 1 /\ {x} \in SUBSET members BY FS_Singleton
  <2> QED BY <1>2, <2>1
<1>4. /\ members \subseteq Pointer /\ NULL \in Pointer
      /\ \A n \in Pointer : h[n] \in Nat /\ \A d \in 0..C : u[d][n] \in Nat
      /\ \A n \in members, d \in Sides :
           h[n] = h[t.child[d][n]] + Tint(t, n) + (IF n = NULL /\ d = "left" THEN 1 ELSE 0)
  BY <1>1, HeightFacts DEF Counts
<1>5. \A n : Tint(t, n) \in Nat BY DEF Tint
<1>6. 0 \in S
  <2>1. Climbing(u, h, x, {x}, x)
    <3>1. C + 1 - 1 = C BY <1>2
    <3> QED BY <1>3, <3>1 DEF Climbing
  <2>2. {x} \in SUBSET members /\ Cardinality({x}) = 0 + 1 BY <1>3
  <2>3. Chain(0+1) BY <2>1, <2>2
  <2> QED BY <2>3
<1>7. \A n \in 1..C : Chain(n) => Goal \/ (n+1 \in 1..C /\ Chain(n+1))
  <2> SUFFICES ASSUME NEW n \in 1..C, NEW Y \in SUBSET members, NEW y \in members,
                      Cardinality(Y) = n, Climbing(u, h, x, Y, y)
               PROVE  Goal \/ (n+1 \in 1..C /\ Chain(n+1))
    OBVIOUS
  <2> DEFINE e == C+1-n
             z == t.parent[y]
  <2>1. /\ y \in Y /\ \A v \in Y \ {y} : t.parent[v] \in Y
        /\ u[C][x] + h[x] + Tint(t, y) = u[e][y] + h[y] + Tint(t, x)
    BY DEF Climbing
  <2>2. z \notin Y BY <1>1, <2>1 DEF Rooted
  <2>3. e \in 1..C /\ e \in 0..C /\ e-1 \in 0..C /\ C \in 0..C BY <1>2
  <2>4. u[e][y] = u[e-1][z] + Tint(t, y) BY <2>3 DEF Counts
  <2>5. /\ u[C][x] \in Nat /\ h[x] \in Nat /\ h[y] \in Nat /\ u[e][y] \in Nat
        /\ z \in Pointer /\ h[z] \in Nat /\ u[e-1][z] \in Nat
    <3>1. z \in Pointer /\ x \in Pointer /\ y \in Pointer BY <1>1, <1>4
    <3> HIDE DEF z, e
    <3> QED BY <1>4, <2>3, <3>1
  <2>6. Tint(t, x) \in Nat /\ Tint(t, y) \in Nat /\ Tint(t, z) \in Nat BY <1>5
  <2>7. u[C][x] + h[x] = u[e-1][z] + h[y] + Tint(t, x)
    <3> HIDE DEF z, e, Tint
    <3> QED BY <2>1, <2>4, <2>5, <2>6
  <2>8. CASE z = NULL
    <3>1. t.root = y BY <1>1, <2>8 DEF Hangs
    <3>2. u[e-1][z] = 0 BY <2>3, <2>8 DEF Counts
    <3> HIDE DEF z, e, Tint
    <3> QED BY <2>5, <2>6, <2>7, <3>1, <3>2
  <2>9. CASE z # NULL
    <3> DEFINE Z == Y \cup {z}
    <3>1. z \in members /\ z \notin Y BY <1>1, <2>2, <2>9
    <3>2. PICK s \in Sides : t.child[s][z] = y BY <1>1, <2>9 DEF Hangs
    <3>3. h[z] = h[y] + Tint(t, z) + 0 BY <1>4, <2>9, <3>1, <3>2
    <3>4. IsFiniteSet(Y) BY <1>2
    <3>5. Cardinality(Z) = n+1 BY <3>1, <3>4, FS_AddElement
    <3>6. Z \in SUBSET members BY <3>1
    <3>7. n+1 \in 1..C /\ C+1-Cardinality(Z) = e-1 BY <1>2, <3>5, <3>6
    <3>8. u[C][x] + h[x] + Tint(t, z) = u[e-1][z] + h[z] + Tint(t, x)
      <4> HIDE DEF z, e, Tint
      <4> QED BY <2>5, <2>6, <2>7, <3>3
    <3>9. \A v \in Z \ {z} : t.parent[v] \in Z BY <2>1
    <3>10. Climbing(u, h, x, Z, z) BY <3>6, <3>7, <3>8, <3>9 DEF Climbing
    <3>11. Chain(n+1) BY <3>1, <3>5, <3>6, <3>10
    <3> QED BY <3>7, <3>11
  <2> QED BY <2>8, <2>9
<1> HIDE DEF Goal, Chain
<1>8. ASSUME NEW n \in Nat, n \in S PROVE n+1 \in S
  <2> SUFFICES ASSUME (n+1)+1 \in 1..C PROVE Goal \/ Chain((n+1)+1)
    OBVIOUS
  <2>1. n+1 \in 1..C BY <1>2
  <2> QED BY <1>7, <1>8, <2>1
<1> HIDE DEF S
<1>9. C-1 \in S BY <1>2, <1>3, <1>6, <1>8, NatSet
<1>10. Goal \/ Chain((C-1)+1) BY <1>2, <1>3, <1>9 DEF S
<1>11. (C-1)+1 = C /\ C \in 1..C /\ ~(C+1 \in 1..C) BY <1>2, <1>3
<1>12. Goal BY <1>7, <1>10, <1>11
<1> QED BY <1>12 DEF Goal

LEMMA BalancedTree == ColorInv => Balanced
<1> SUFFICES ASSUME ColorInv, pc = "idle"
             PROVE  /\ Black(t, t.root)
                    /\ \A n \in members : ~t.black[n] => \A s \in Sides : Black(t, t.child[s][n])
                    /\ LET ends == {n \in members : \E s \in Sides : t.child[s][n] = NULL}
                       IN  \A n, k \in ends : BlackAbove[n] = BlackAbove[k]
  BY DEF Balanced
<1>1. Reds(t, members, {}) /\ \E h : Heights(t, members, h, NULL, "left")
  BY DEF ColorInv, Colors, Even
<1>2. PICK h : Heights(t, members, h, NULL, "left") BY <1>1
<1>3. /\ LinkInv /\ Good(t, members) /\ t \in Tree /\ members \subseteq Nodes
      /\ NULL \notin members
      /\ t.root \in members \cup {NULL} /\ (t.root # NULL => t.parent[t.root] = NULL)
      /\ \A x \in members, d \in Sides :
           /\ t.child[d][x] \in members \cup {NULL}
           /\ t.child[d][x] # NULL => t.parent[t.child[d][x]] = x
  BY Around DEF ColorInv, LinkInv
<1>4. Black(t, t.root) BY <1>1, <1>3 DEF Black, Reds
<1>5. \A n \in members : ~t.black[n] => \A s \in Sides : Black(t, t.child[s][n])
  BY <1>1, <1>3 DEF Black, Reds
<1>6. PICK u : Counts(u) /\ \A n \in members : BlackAbove[n] = u[Cardinality(Nodes)][n]
  BY <1>3, UpBlack
<1>7. ASSUME NEW n \in members, NEW s \in Sides, t.child[s][n] = NULL
      PROVE  BlackAbove[n] = h[t.root]
  <2>1. u[Cardinality(Nodes)][n] + h[n] = h[t.root] + Tint(t, n)
    BY <1>2, <1>3, <1>6, UpHeight
  <2>2. /\ h[NULL] = 0 /\ members \subseteq Pointer /\ NULL \in Pointer
        /\ \A x \in Pointer : h[x] \in Nat
        /\ \A x \in members, d \in Sides :
             h[x] = h[t.child[d][x]] + Tint(t, x) + (IF x = NULL /\ d = "left" THEN 1 ELSE 0)
    BY <1>2, <1>3, HeightFacts
  <2>3. Tint(t, n) \in Nat /\ h[n] = 0 + Tint(t, n) + 0 BY <1>3, <1>7, <2>2 DEF Tint
  <2>4. h[t.root] \in Nat /\ u[Cardinality(Nodes)][n] \in Nat
    BY <1>3, <1>6, <2>2, NodesCounted DEF Counts
  <2> HIDE DEF Tint
  <2> QED BY <1>6, <2>1, <2>3, <2>4
<1> QED BY <1>4, <1>5, <1>7

\* When a call returns the tree is balanced, for any nodes and keys: the root
\* is black, no red node has a red child, and all ways to a missing child
\* pass the same number of black nodes.  rb_insert_color and __rb_erase_color
\* make up for what the call linked or took out.
THEOREM BalancedHolds == Spec => []Balanced
<1>1. ColorInv => Balanced BY BalancedTree
<1> QED BY <1>1, ColorAlways, PTL
=============================================================================
