---------------------------- MODULE RBTreeProofs ----------------------------
(***************************************************************************)
(* The red-black tree for any nodes and keys.                              *)
(***************************************************************************)
EXTENDS RBTree, TLAPS

LEMMA OtherSide ==
  \A s \in Sides : /\ Other(s) \in Sides /\ Other(s) # s /\ Other(Other(s)) = s
                   /\ \A d \in Sides : d = s \/ d = Other(s)
  BY DEF Sides, Other

-----------------------------------------------------------------------------
(* What the writes of the code change, pointer by pointer. *)

LEMMA PutChild ==
  ASSUME NEW m \in Tree, NEW s \in Sides, NEW n \in Nodes, NEW c \in Pointer
  PROVE  LET r == [m EXCEPT !.child[s][n] = c]
         IN  /\ r \in Tree
             /\ r.root = m.root /\ r.parent = m.parent /\ r.black = m.black
             /\ \A d \in Sides, x \in Nodes :
                  r.child[d][x] = IF d = s /\ x = n THEN c ELSE m.child[d][x]
<1> DEFINE r == [m EXCEPT !.child[s][n] = c]
           k == [m.child EXCEPT ![s] = [m.child[s] EXCEPT ![n] = c]]
<1>1. m.child \in [Sides -> [Nodes -> Pointer]] /\ m.child[s] \in [Nodes -> Pointer]
  BY DEF Tree
<1>2. k \in [Sides -> [Nodes -> Pointer]] BY <1>1
<1>3. \A d \in Sides, x \in Nodes : k[d][x] = IF d = s /\ x = n THEN c ELSE m.child[d][x]
  BY <1>1
<1>4. r = [m EXCEPT !.child = k] BY DEF Tree
<1> HIDE DEF k, r
<1>5. r \in Tree /\ r.child = k /\ r.root = m.root /\ r.parent = m.parent /\ r.black = m.black
  BY <1>2, <1>4 DEF Tree
<1> QED BY <1>3, <1>5 DEF r

LEMMA PutParent ==
  ASSUME NEW m \in Tree, NEW n \in Nodes, NEW p \in Pointer
  PROVE  LET r == [m EXCEPT !.parent[n] = p]
         IN  /\ r \in Tree
             /\ r.root = m.root /\ r.child = m.child /\ r.black = m.black
             /\ \A x \in Nodes : r.parent[x] = IF x = n THEN p ELSE m.parent[x]
  BY DEF Tree

LEMMA PutRoot ==
  ASSUME NEW m \in Tree, NEW n \in Pointer
  PROVE  LET r == [m EXCEPT !.root = n]
         IN  /\ r \in Tree /\ r.root = n
             /\ r.parent = m.parent /\ r.child = m.child /\ r.black = m.black
  BY DEF Tree

LEMMA SetParentWrites ==
  ASSUME NEW m \in Tree, NEW c \in Pointer, NEW p \in Pointer
  PROVE  /\ SetParent(m, c, p) \in Tree
         /\ SetParent(m, c, p).root = m.root /\ SetParent(m, c, p).child = m.child
         /\ SetParent(m, c, p).black = m.black
         /\ \A x \in Nodes : SetParent(m, c, p).parent[x] = IF x = c THEN p ELSE m.parent[x]
<1>1. CASE c = NULL BY <1>1, ConstantsAssumption DEF SetParent
<1>2. CASE c # NULL
  <2>1. c \in Nodes BY <1>2 DEF Pointer
  <2> QED BY <1>2, <2>1, PutParent DEF SetParent
<1> QED BY <1>1, <1>2

\* Where p has old on one side, or old is the root.
LEMMA HangWrites ==
  ASSUME NEW m \in Tree, NEW s \in Sides, NEW p \in Pointer, NEW old, NEW new \in Pointer,
         p # NULL => \E d \in Sides : m.child[d][p] = old /\ m.child[Other(d)][p] # old
  PROVE  LET r == Hang(m, s, p, old, new)
         IN  /\ r \in Tree /\ r.parent = m.parent /\ r.black = m.black
             /\ r.root = IF p = NULL THEN new ELSE m.root
             /\ \A d \in Sides, x \in Nodes :
                  r.child[d][x] = IF x = p /\ m.child[d][x] = old THEN new ELSE m.child[d][x]
<1> DEFINE r == Hang(m, s, p, old, new)
<1>1. CASE p = NULL BY <1>1, PutRoot, ConstantsAssumption DEF Hang
<1>2. CASE p # NULL
  <2> DEFINE e == IF m.child[s][p] = old THEN s ELSE Other(s)
  <2>1. p \in Nodes BY <1>2 DEF Pointer
  <2>2. e \in Sides /\ m.child[e][p] = old /\ m.child[Other(e)][p] # old
    BY <1>2, OtherSide
  <2>3. r = [m EXCEPT !.child[e][p] = new] BY <1>2 DEF Hang
  <2> HIDE DEF e, r
  <2>4. /\ r \in Tree /\ r.root = m.root /\ r.parent = m.parent /\ r.black = m.black
        /\ \A d \in Sides, x \in Nodes :
             r.child[d][x] = IF d = e /\ x = p THEN new ELSE m.child[d][x]
    BY <2>1, <2>2, <2>3, PutChild
  <2>5. \A d \in Sides : d = e <=> m.child[d][p] = old BY <2>2, OtherSide
  <2> QED BY <1>2, <2>4, <2>5 DEF r
<1> QED BY <1>1, <1>2

LEMMA PaintWrites ==
  ASSUME NEW m \in Tree, NEW blacks, NEW reds
  PROVE  LET r == Paint(m, blacks, reds)
         IN  /\ r \in Tree /\ r.root = m.root /\ r.parent = m.parent /\ r.child = m.child
             /\ \A x \in Nodes :
                  r.black[x] = ((x \in blacks \/ m.black[x]) /\ x \notin reds)
  BY DEF Paint, Tree

-----------------------------------------------------------------------------
(* The shape of a tree *)

\* What leads to n: the root's variable, or one child pointer of its parent.
Hangs(m, n) ==
  IF m.parent[n] = NULL THEN m.root = n
  ELSE \E s \in Sides : /\ m.child[s][m.parent[n]] = n
                       /\ m.child[Other(s)][m.parent[n]] # n

\* Linked, of any tree m with the nodes M, and that the root is the top.
Shape(m, M) ==
  /\ m.root \in M \cup {NULL}
  /\ m.root # NULL => m.parent[m.root] = NULL
  /\ \A n \in M, s \in Sides :
       m.child[s][n] # NULL => m.child[s][n] \in M /\ m.parent[m.child[s][n]] = n
  /\ \A n \in M : m.parent[n] \in M \cup {NULL} /\ Hangs(m, n)

\* The parents form no cycle: no set of members has all its parents in it.
Rooted(m, M) == \A S \in SUBSET M : S # {} => \E n \in S : m.parent[n] \notin S

Good(m, M) == m \in Tree /\ M \subseteq Nodes /\ Shape(m, M) /\ Rooted(m, M)

LEMMA NoCycle ==
  ASSUME NEW m, NEW M, Rooted(m, M), NEW a \in M, NEW b \in M, NEW c \in M,
         m.parent[a] = b, m.parent[b] = c
  PROVE  m.parent[c] # a
<1> SUFFICES ASSUME m.parent[c] = a PROVE FALSE
  OBVIOUS
<1> QED BY {a, b, c} \in SUBSET M DEF Rooted

LEMMA NoLoop ==
  ASSUME NEW m, NEW M, Rooted(m, M), NEW a \in M
  PROVE  m.parent[a] # a
  BY {a} \in SUBSET M DEF Rooted

LEMMA NoPair ==
  ASSUME NEW m, NEW M, Rooted(m, M), NEW a \in M, NEW b \in M, m.parent[a] = b
  PROVE  m.parent[b] # a /\ a # b
  BY {a, b} \in SUBSET M, NoLoop DEF Rooted

\* What Rotate writes, where c is the child that goes up and b the one that
\* changes parents.
LEMMA RotateWrites ==
  ASSUME NEW m, NEW M, Good(m, M), NEW s \in Sides, NEW n \in M,
         m.child[Other(s)][n] # NULL
  PROVE  LET r == Rotate(m, s, n)
             o == Other(s)
             c == m.child[o][n]
             b == m.child[s][c]
             p == m.parent[n]
         IN  /\ r \in Tree /\ r.black = m.black
             /\ c \in M /\ m.parent[c] = n
             /\ p # NULL => p \in M
             /\ b # NULL => b \in M /\ m.parent[b] = c
             /\ c # n /\ c # p /\ c # b /\ b # n /\ p # n /\ (p # NULL => p # b)
             /\ r.root = IF p = NULL THEN c ELSE m.root
             /\ \A x \in Nodes : r.parent[x] = IF x = n THEN c ELSE IF x = c THEN p
                                               ELSE IF x = b THEN n ELSE m.parent[x]
             /\ \A d \in Sides, x \in Nodes :
                  r.child[d][x] = IF x = n /\ d = o THEN b
                                  ELSE IF x = c /\ d = s THEN n
                                  ELSE IF x = p /\ m.child[d][x] = n THEN c
                                  ELSE m.child[d][x]
<1> DEFINE o == Other(s)
           c == m.child[o][n]
           b == m.child[s][c]
           p == m.parent[n]
           m0 == [m EXCEPT !.child[o][n] = b]
           m1 == SetParent(m0, b, n)
           m2 == [m1 EXCEPT !.child[s][c] = n]
           m3 == [m2 EXCEPT !.parent[c] = p]
           m4 == Hang(m3, s, p, n, c)
           m5 == [m4 EXCEPT !.parent[n] = c]
<1>1. o \in Sides /\ o # s /\ \A d \in Sides : d = s \/ d = o BY OtherSide
<1>2. m \in Tree /\ n \in Nodes /\ M \subseteq Nodes /\ NULL \notin Nodes
  BY ConstantsAssumption DEF Good
<1>3. c \in M /\ m.parent[c] = n BY <1>1 DEF Good, Shape
<1>4. (p # NULL => p \in M) /\ (b # NULL => b \in M /\ m.parent[b] = c)
  BY <1>3 DEF Good, Shape
<1>5. c # n /\ p # n /\ c # p /\ c # b /\ b # n
  BY <1>2, <1>3, <1>4, NoPair, NoLoop DEF Good
<1>6. p # NULL => p # b
  BY <1>2, <1>3, <1>4, NoCycle DEF Good
<1>7. c \in Nodes /\ b \in Pointer /\ p \in Pointer /\ c \in Pointer /\ n \in Pointer
  BY <1>2, <1>3, <1>4 DEF Pointer
<1>8. p # NULL => \E d \in Sides : m.child[d][p] = n /\ m.child[Other(d)][p] # n
  BY DEF Good, Shape, Hangs
<1>9. Rotate(m, s, n) = m5
  BY DEF Rotate
<1> HIDE DEF o, c, b, p
<1>10. /\ m0 \in Tree /\ m0.root = m.root /\ m0.parent = m.parent /\ m0.black = m.black
       /\ \A d \in Sides, x \in Nodes :
            m0.child[d][x] = IF d = o /\ x = n THEN b ELSE m.child[d][x]
  BY <1>1, <1>2, <1>7, PutChild
<1> HIDE DEF m0
<1>11. /\ m1 \in Tree /\ m1.root = m.root /\ m1.child = m0.child /\ m1.black = m.black
       /\ \A x \in Nodes : m1.parent[x] = IF x = b THEN n ELSE m.parent[x]
  <2>1. m0 \in Tree /\ b \in Pointer /\ n \in Pointer BY <1>7, <1>10
  <2>2. /\ SetParent(m0, b, n) \in Tree /\ SetParent(m0, b, n).root = m0.root
        /\ SetParent(m0, b, n).child = m0.child /\ SetParent(m0, b, n).black = m0.black
        /\ \A x \in Nodes : SetParent(m0, b, n).parent[x] = IF x = b THEN n ELSE m0.parent[x]
    BY <2>1, SetParentWrites
  <2> QED BY <1>10, <2>2
<1> HIDE DEF m1
<1>12. /\ m2 \in Tree /\ m2.root = m.root /\ m2.parent = m1.parent /\ m2.black = m.black
       /\ \A d \in Sides, x \in Nodes :
            m2.child[d][x] = IF d = s /\ x = c THEN n ELSE m0.child[d][x]
  BY <1>1, <1>7, <1>11, PutChild
<1> HIDE DEF m2
<1>13. /\ m3 \in Tree /\ m3.root = m.root /\ m3.child = m2.child /\ m3.black = m.black
       /\ \A x \in Nodes : m3.parent[x] = IF x = c THEN p ELSE m1.parent[x]
  BY <1>7, <1>12, PutParent
<1> HIDE DEF m3
<1>14. p # NULL => \A d \in Sides : m3.child[d][p] = m.child[d][p]
  BY <1>2, <1>4, <1>5, <1>10, <1>12, <1>13
<1>15. p # NULL => \E d \in Sides : m3.child[d][p] = n /\ m3.child[Other(d)][p] # n
  BY <1>8, <1>14, OtherSide
<1>16. /\ m4 \in Tree /\ m4.parent = m3.parent /\ m4.black = m.black
       /\ m4.root = IF p = NULL THEN c ELSE m.root
       /\ \A d \in Sides, x \in Nodes :
            m4.child[d][x] = IF x = p /\ m3.child[d][x] = n THEN c ELSE m3.child[d][x]
  BY <1>7, <1>13, <1>15, HangWrites
<1> HIDE DEF m4
<1>17. /\ m5 \in Tree /\ m5.root = m4.root /\ m5.child = m4.child /\ m5.black = m.black
       /\ \A x \in Nodes : m5.parent[x] = IF x = n THEN c ELSE m4.parent[x]
  BY <1>2, <1>7, <1>16, PutParent
<1> HIDE DEF m5
<1>18. \A x \in Nodes : m5.parent[x] = IF x = n THEN c ELSE IF x = c THEN p
                                       ELSE IF x = b THEN n ELSE m.parent[x]
  BY <1>11, <1>13, <1>16, <1>17
<1>19. \A d \in Sides, x \in Nodes :
          m5.child[d][x] = IF x = n /\ d = o THEN b
                           ELSE IF x = c /\ d = s THEN n
                           ELSE IF x = p /\ m.child[d][x] = n THEN c
                           ELSE m.child[d][x]
  <2> SUFFICES ASSUME NEW d \in Sides, NEW x \in Nodes
               PROVE  m5.child[d][x] = IF x = n /\ d = o THEN b
                                       ELSE IF x = c /\ d = s THEN n
                                       ELSE IF x = p /\ m.child[d][x] = n THEN c
                                       ELSE m.child[d][x]
    OBVIOUS
  <2>1. m3.child[d][x] = IF d = s /\ x = c THEN n
                         ELSE IF d = o /\ x = n THEN b ELSE m.child[d][x]
    BY <1>10, <1>12, <1>13
  <2>2. m5.child[d][x] = IF x = p /\ m3.child[d][x] = n THEN c ELSE m3.child[d][x]
    BY <1>16, <1>17
  <2> QED BY <1>5, <2>1, <2>2
<1> QED
  BY <1>3, <1>4, <1>5, <1>6, <1>9, <1>16, <1>17, <1>18, <1>19 DEF o, c, b, p

\* A rotation leaves a tree of the same nodes.
LEMMA RotateGood ==
  ASSUME NEW m, NEW M, Good(m, M), NEW s \in Sides, NEW n \in M,
         m.child[Other(s)][n] # NULL
  PROVE  Good(Rotate(m, s, n), M)
<1> DEFINE r == Rotate(m, s, n)
           o == Other(s)
           c == m.child[o][n]
           b == m.child[s][c]
           p == m.parent[n]
<1>1. o \in Sides /\ o # s /\ o = Other(s) /\ Other(o) = s /\ \A d \in Sides : d = s \/ d = o BY OtherSide
<1>2. m \in Tree /\ n \in Nodes /\ M \subseteq Nodes /\ NULL \notin Nodes
  BY ConstantsAssumption DEF Good
<1>3. /\ r \in Tree
      /\ c \in M /\ m.parent[c] = n
      /\ p # NULL => p \in M
      /\ b # NULL => b \in M /\ m.parent[b] = c
      /\ c # n /\ c # p /\ c # b /\ b # n /\ p # n /\ (p # NULL => p # b)
      /\ r.root = IF p = NULL THEN c ELSE m.root
  BY RotateWrites
<1>4. \A x \in Nodes : r.parent[x] = IF x = n THEN c ELSE IF x = c THEN p
                                     ELSE IF x = b THEN n ELSE m.parent[x]
  BY RotateWrites
<1>5. \A d \in Sides, x \in Nodes :
        r.child[d][x] = IF x = n /\ d = o THEN b
                        ELSE IF x = c /\ d = s THEN n
                        ELSE IF x = p /\ m.child[d][x] = n THEN c
                        ELSE m.child[d][x]
  BY RotateWrites
<1>6. m.child[o][n] = c /\ m.child[s][c] = b /\ m.parent[n] = p
  OBVIOUS
<1> HIDE DEF r, o, c, b, p
\* What m says of the pointers around a member.
<1>7. \A x \in M, d \in Sides :
        m.child[d][x] # NULL => m.child[d][x] \in M /\ m.parent[m.child[d][x]] = x
  BY DEF Good, Shape
<1>8. \A x \in M : m.parent[x] \in M \cup {NULL} /\ Hangs(m, x) BY DEF Good, Shape
<1>9. m.root \in M \cup {NULL} /\ (m.root # NULL => m.parent[m.root] = NULL)
  BY DEF Good, Shape
<1>10. /\ m.child[s][n] # c
       /\ m.child[o][c] # b \/ b = NULL
  <2>1. n # NULL /\ c # NULL BY <1>2, <1>3
  <2>2. m.child[s][n] # c
    <3>1. PICK d \in Sides : m.child[d][n] = c /\ m.child[Other(d)][n] # c
      BY <1>3, <1>8, <2>1 DEF Hangs
    <3> QED BY <1>1, <1>6, <3>1
  <2>3. ASSUME b # NULL PROVE m.child[o][c] # b
    <3>1. PICK d \in Sides : m.child[d][c] = b /\ m.child[Other(d)][c] # b
      BY <1>3, <1>8, <2>1, <2>3 DEF Hangs
    <3> QED BY <1>1, <1>6, <3>1
  <2> QED BY <2>2, <2>3
<1>11. r.root \in M \cup {NULL} /\ (r.root # NULL => r.parent[r.root] = NULL)
  <2>1. p = NULL => m.root = n BY <1>6, <1>8 DEF Hangs
  <2>2. p # NULL => m.root # n /\ m.root # c /\ (b # NULL => m.root # b)
    BY <1>2, <1>3, <1>6, <1>9, ConstantsAssumption
  <2> QED BY <1>2, <1>3, <1>4, <1>9, <2>1, <2>2
<1>12. \A x \in M, d \in Sides :
         r.child[d][x] # NULL => r.child[d][x] \in M /\ r.parent[r.child[d][x]] = x
  <2> SUFFICES ASSUME NEW x \in M, NEW d \in Sides, r.child[d][x] # NULL
               PROVE  r.child[d][x] \in M /\ r.parent[r.child[d][x]] = x
    OBVIOUS
  <2>1. CASE x = n /\ d = o BY <1>2, <1>3, <1>4, <1>5, <2>1
  <2>2. CASE x = c /\ d = s BY <1>1, <1>2, <1>3, <1>4, <1>5, <2>2
  <2>3. CASE x = p /\ m.child[d][x] = n BY <1>2, <1>3, <1>4, <1>5, <2>3
  <2>4. CASE ~(x = n /\ d = o) /\ ~(x = c /\ d = s) /\ ~(x = p /\ m.child[d][x] = n)
    <3>1. r.child[d][x] = m.child[d][x] BY <1>2, <1>5, <2>4
    <3>2. m.child[d][x] \in M /\ m.parent[m.child[d][x]] = x BY <1>7, <3>1
    <3>3. m.child[d][x] # n BY <1>6, <2>4, <3>2
    <3>4. m.child[d][x] # c BY <1>1, <1>3, <1>10, <2>4, <3>2
    <3>5. m.child[d][x] # b BY <1>1, <1>3, <1>10, <2>4, <3>1, <3>2
    <3> QED BY <1>2, <1>4, <3>1, <3>2, <3>3, <3>4, <3>5
  <2> QED BY <2>1, <2>2, <2>3, <2>4
<1>13. \A x \in M : r.parent[x] \in M \cup {NULL} BY <1>2, <1>3, <1>4, <1>8
<1>14. ASSUME NEW x \in M PROVE Hangs(r, x)
  <2>1. CASE x = n
    <3>1. r.parent[x] = c /\ c \in Nodes /\ c # NULL BY <1>2, <1>3, <1>4, <2>1
    <3>2. r.child[s][c] = n BY <1>1, <1>3, <1>5, <3>1
    <3>3. r.child[o][c] = m.child[o][c] BY <1>1, <1>3, <1>5, <3>1
    <3>4. m.child[o][c] # n
      BY <1>1, <1>2, <1>3, <1>6, <1>7
    <3> QED BY <1>1, <2>1, <3>1, <3>2, <3>3, <3>4, OtherSide DEF Hangs, o
  <2>2. CASE x = c
    <3>1. r.parent[x] = p BY <1>2, <1>3, <1>4, <2>2
    <3>2. CASE p = NULL BY <1>3, <2>2, <3>1, <3>2 DEF Hangs
    <3>3. CASE p # NULL
      <4>1. p \in Nodes /\ p # n /\ p # c BY <1>2, <1>3, <3>3
      <4>2. \A d \in Sides : r.child[d][p] = IF m.child[d][p] = n THEN c ELSE m.child[d][p]
        BY <1>5, <4>1
      <4>3. PICK d \in Sides : m.child[d][p] = n /\ m.child[Other(d)][p] # n
        BY <1>6, <1>8, <3>3 DEF Hangs
      <4>4. m.child[Other(d)][p] # c
        BY <1>2, <1>3, <1>7, <3>3, OtherSide, ConstantsAssumption
      <4> QED BY <2>2, <3>1, <3>3, <4>2, <4>3, <4>4, OtherSide DEF Hangs
    <3> QED BY <3>2, <3>3
  <2>3. CASE x = b
    <3>1. r.parent[x] = n /\ n # NULL BY <1>2, <1>3, <1>4, <2>3
    <3>2. r.child[o][n] = b BY <1>1, <1>2, <1>5
    <3>3. r.child[s][n] = m.child[s][n] BY <1>1, <1>2, <1>3, <1>5
    <3>4. m.child[s][n] # b
      BY <1>1, <1>2, <1>3, <1>7, <2>3, ConstantsAssumption
    <3> QED BY <1>1, <2>3, <3>1, <3>2, <3>3, <3>4, OtherSide DEF Hangs, o
  <2>4. CASE x # n /\ x # c /\ x # b
    <3>1. r.parent[x] = m.parent[x] BY <1>2, <1>4, <2>4
    <3>2. CASE m.parent[x] = NULL
      <4>1. m.root = x /\ p # NULL BY <1>2, <1>6, <1>8, <2>4, <3>2 DEF Hangs
      <4> QED BY <1>3, <3>1, <3>2, <4>1 DEF Hangs
    <3>3. CASE m.parent[x] # NULL
      <4> DEFINE q == m.parent[x]
      <4>1. q \in Nodes BY <1>2, <1>8, <3>3
      <4>2. \A d \in Sides : r.child[d][q] = x <=> m.child[d][q] = x
        <5> SUFFICES ASSUME NEW d \in Sides PROVE r.child[d][q] = x <=> m.child[d][q] = x
          OBVIOUS
        <5> HIDE DEF q
        <5> QED BY <1>1, <1>2, <1>3, <1>5, <1>6, <2>4, <4>1
      <4>3. PICK d \in Sides : m.child[d][q] = x /\ m.child[Other(d)][q] # x
        BY <1>8, <3>3 DEF Hangs
      <4> QED BY <3>1, <3>3, <4>2, <4>3, OtherSide DEF Hangs
    <3> QED BY <3>2, <3>3
  <2> QED BY <2>1, <2>2, <2>3, <2>4
<1>15. Rooted(r, M)
  <2> SUFFICES ASSUME NEW S \in SUBSET M, S # {}, \A x \in S : r.parent[x] \in S
               PROVE  FALSE
    BY DEF Rooted
  <2>1. NULL \notin S BY <1>2
  <2>2. n \in S => c \in S BY <1>2, <1>4
  <2>3. c \in S => p \in S BY <1>2, <1>3, <1>4
  \* With n, if c is in it, the parents in m stay in it too.
  <2> DEFINE T == IF c \in S THEN S \cup {n} ELSE S
  <2>4. \A x \in T : m.parent[x] \in T
    <3> SUFFICES ASSUME NEW x \in T PROVE m.parent[x] \in T
      OBVIOUS
    <3>1. CASE x = n BY <1>6, <2>2, <2>3, <3>1
    <3>2. CASE x = c BY <1>3, <3>2
    <3>3. CASE x = b /\ x # n
      <4>1. b \in Nodes /\ b \in S BY <1>2, <3>3
      <4>2. n \in S BY <1>3, <1>4, <3>3, <4>1
      <4> QED BY <1>3, <2>1, <2>2, <3>3, <4>1, <4>2
    <3>4. CASE x # n /\ x # b /\ x # c BY <1>2, <1>4, <3>4
    <3> QED BY <3>1, <3>2, <3>3, <3>4
  <2>5. T \in SUBSET M /\ T # {} OBVIOUS
  <2> QED BY <2>4, <2>5 DEF Good, Rooted
<1> QED BY <1>2, <1>3, <1>11, <1>12, <1>13, <1>14, <1>15 DEF Good, Shape, r

-----------------------------------------------------------------------------
(* What else is done to a tree: only colours change, a leaf is linked, a     *)
(* node with one child at most is removed, a node takes another's place.     *)

SamePointers(m, r) == r \in Tree /\ r.root = m.root /\ r.parent = m.parent /\ r.child = m.child

\* r is m with the red leaf a under p on the side s.
Links(m, r, M, p, s, a) ==
  /\ r \in Tree
  /\ r.root = IF p = NULL THEN a ELSE m.root
  /\ \A x \in M : r.parent[x] = m.parent[x]
  /\ r.parent[a] = p
  /\ \A d \in Sides, x \in M :
       r.child[d][x] = IF x = p /\ d = s THEN a ELSE m.child[d][x]
  /\ \A d \in Sides : r.child[d][a] = NULL
  /\ \A x \in M : r.black[x] = m.black[x]
  /\ r.black[a] = FALSE

\* r is m without v, whose child c takes its place.
Removes(m, r, M, v, c) ==
  /\ r \in Tree
  /\ r.root = IF m.parent[v] = NULL THEN c ELSE m.root
  /\ \A x \in M \ {v} : r.parent[x] = IF x = c THEN m.parent[v] ELSE m.parent[x]
  /\ \A d \in Sides, x \in M \ {v} :
       r.child[d][x] = IF m.child[d][x] = v THEN c ELSE m.child[d][x]

\* r is m with n in the place of v, and with its colour.
Renames(m, r, M, v, n) ==
  /\ r \in Tree
  /\ r.root = IF m.root = v THEN n ELSE m.root
  /\ \A x \in M \ {v} : r.parent[x] = IF m.parent[x] = v THEN n ELSE m.parent[x]
  /\ r.parent[n] = m.parent[v]
  /\ \A d \in Sides, x \in M \ {v} :
       r.child[d][x] = IF m.child[d][x] = v THEN n ELSE m.child[d][x]
  /\ \A d \in Sides : r.child[d][n] = m.child[d][v]
  /\ \A x \in M \ {v} : r.black[x] = m.black[x]
  /\ r.black[n] = m.black[v]

LEMMA SamePointersGood ==
  ASSUME NEW m, NEW r, NEW M, Good(m, M), SamePointers(m, r)
  PROVE  Good(r, M)
  BY DEF Good, SamePointers, Shape, Rooted, Hangs

\* A tree without a root has no nodes.
LEMMA NoRoot ==
  ASSUME NEW m, NEW M, Good(m, M), m.root = NULL
  PROVE  M = {}
<1> SUFFICES ASSUME M # {} PROVE FALSE
  OBVIOUS
<1>1. PICK n \in M : m.parent[n] \notin M BY DEF Good, Rooted
<1>2. m.parent[n] = NULL /\ Hangs(m, n) BY <1>1 DEF Good, Shape
<1> QED BY <1>2, ConstantsAssumption DEF Hangs, Good

LEMMA LinkGood ==
  ASSUME NEW m, NEW r, NEW M, Good(m, M), NEW p \in M \cup {NULL}, NEW s \in Sides,
         NEW a \in Nodes \ M, Links(m, r, M, p, s, a),
         IF p = NULL THEN m.root = NULL ELSE m.child[s][p] = NULL
  PROVE  Good(r, M \cup {a})
<1> DEFINE N == M \cup {a}
<1>1. M \subseteq Nodes /\ NULL \notin Nodes /\ a # NULL /\ a \notin M /\ N \subseteq Nodes
  BY ConstantsAssumption DEF Good
<1>2. /\ r.root = IF p = NULL THEN a ELSE m.root
      /\ \A x \in M : r.parent[x] = m.parent[x]
      /\ r.parent[a] = p
      /\ \A d \in Sides, x \in M :
           r.child[d][x] = IF x = p /\ d = s THEN a ELSE m.child[d][x]
      /\ \A d \in Sides : r.child[d][a] = NULL
      /\ r \in Tree
  BY DEF Links
<1>3. /\ m.root \in M \cup {NULL} /\ (m.root # NULL => m.parent[m.root] = NULL)
      /\ \A n \in M, d \in Sides :
           m.child[d][n] # NULL => m.child[d][n] \in M /\ m.parent[m.child[d][n]] = n
      /\ \A n \in M : m.parent[n] \in M \cup {NULL} /\ Hangs(m, n)
  BY DEF Good, Shape
<1>4. p = NULL => M = {} BY NoRoot
<1>5. r.root \in N \cup {NULL} /\ (r.root # NULL => r.parent[r.root] = NULL)
  BY <1>1, <1>2, <1>3
<1>6. \A x \in N, d \in Sides :
        r.child[d][x] # NULL => r.child[d][x] \in N /\ r.parent[r.child[d][x]] = x
  BY <1>1, <1>2, <1>3
<1>7. \A x \in N : r.parent[x] \in N \cup {NULL} BY <1>2, <1>3
<1>8. ASSUME NEW x \in M PROVE Hangs(r, x)
  <2>1. p # NULL /\ r.root = m.root /\ r.parent[x] = m.parent[x] /\ Hangs(m, x)
    BY <1>2, <1>3, <1>4
  <2>2. CASE m.parent[x] = NULL BY <2>1, <2>2 DEF Hangs
  <2>3. CASE m.parent[x] # NULL
    <3>1. PICK d \in Sides : /\ m.child[d][m.parent[x]] = x
                             /\ m.child[Other(d)][m.parent[x]] # x
      BY <2>1, <2>3 DEF Hangs
    <3>2. m.parent[x] \in M /\ x # NULL /\ x # a BY <1>1, <1>3, <2>3
    <3>3. r.child[d][m.parent[x]] = x BY <1>2, <2>1, <3>1, <3>2
    <3>4. r.child[Other(d)][m.parent[x]] # x BY <1>2, <3>1, <3>2, OtherSide
    <3> QED BY <2>1, <2>3, <3>3, <3>4 DEF Hangs
  <2> QED BY <2>2, <2>3
<1>9. Hangs(r, a)
  <2>1. CASE p = NULL BY <1>2, <2>1 DEF Hangs
  <2>2. CASE p # NULL
    <3>1. r.child[s][p] = a BY <1>2, <2>2
    <3>2. r.child[Other(s)][p] # a BY <1>1, <1>2, <1>3, <2>2, OtherSide
    <3> QED BY <1>2, <2>2, <3>1, <3>2 DEF Hangs
  <2> QED BY <2>1, <2>2
<1>10. Rooted(r, N)
  <2> SUFFICES ASSUME NEW S \in SUBSET N, S # {}, \A x \in S : r.parent[x] \in S
               PROVE  FALSE
    BY DEF Rooted
  <2>1. a \in S => p \in M /\ p \in S BY <1>1, <1>2
  <2>2. S \ {a} # {} BY <1>1, <2>1
  <2>3. \A x \in S \ {a} : m.parent[x] \in S /\ m.parent[x] # a BY <1>1, <1>2, <1>3
  <2>4. S \ {a} \in SUBSET M OBVIOUS
  <2> QED BY <2>2, <2>3, <2>4 DEF Good, Rooted
<1> QED BY <1>1, <1>2, <1>5, <1>6, <1>7, <1>8, <1>9, <1>10 DEF Good, Shape

LEMMA RemoveGood ==
  ASSUME NEW m, NEW r, NEW M, Good(m, M), NEW v \in M, NEW s \in Sides,
         m.child[Other(s)][v] = NULL, Removes(m, r, M, v, m.child[s][v])
  PROVE  Good(r, M \ {v})
<1> DEFINE N == M \ {v}
           c == m.child[s][v]
           p == m.parent[v]
<1>1. N \subseteq Nodes /\ NULL \notin M /\ v # NULL BY ConstantsAssumption DEF Good
<1>2. /\ r \in Tree
      /\ r.root = IF p = NULL THEN c ELSE m.root
      /\ \A x \in N : r.parent[x] = IF x = c THEN p ELSE m.parent[x]
      /\ \A d \in Sides, x \in N :
           r.child[d][x] = IF m.child[d][x] = v THEN c ELSE m.child[d][x]
  BY DEF Removes
<1>3. /\ m.root \in M \cup {NULL} /\ (m.root # NULL => m.parent[m.root] = NULL)
      /\ \A n \in M, d \in Sides :
           m.child[d][n] # NULL => m.child[d][n] \in M /\ m.parent[m.child[d][n]] = n
      /\ \A n \in M : m.parent[n] \in M \cup {NULL} /\ Hangs(m, n)
  BY DEF Good, Shape
<1>4. (c # NULL => c \in M /\ m.parent[c] = v) /\ p \in M \cup {NULL} /\ p # v /\ c # v
  <2>1. p # v BY NoLoop DEF Good
  <2> QED BY <1>1, <1>3, <2>1
<1>5. \A x \in M : m.parent[x] = v => x = c
  <2> SUFFICES ASSUME NEW x \in M, m.parent[x] = v PROVE x = c
    OBVIOUS
  <2>1. PICK d \in Sides : m.child[d][v] = x BY <1>1, <1>3 DEF Hangs
  <2>2. x # NULL BY <1>1
  <2> QED BY <2>1, <2>2, OtherSide
<1> HIDE DEF c, p
<1>6. c # p \/ c = NULL BY <1>3, <1>4, NoPair DEF Good, p
<1>7. p = NULL => m.root = v BY <1>3 DEF Hangs, p
<1>8. p # NULL => m.root # v BY <1>1, <1>3 DEF p
<1>9. r.root \in N \cup {NULL} /\ (r.root # NULL => r.parent[r.root] = NULL)
  BY <1>1, <1>2, <1>3, <1>4, <1>7, <1>8
<1>10. ASSUME NEW x \in N, NEW d \in Sides, r.child[d][x] # NULL
       PROVE  r.child[d][x] \in N /\ r.parent[r.child[d][x]] = x
  <2>1. CASE m.child[d][x] = v
    <3>1. x = p BY <1>1, <1>3, <2>1 DEF p
    <3> QED BY <1>2, <1>4, <1>10, <2>1, <3>1
  <2>2. CASE m.child[d][x] # v
    <3>1. r.child[d][x] = m.child[d][x] BY <1>2, <2>2
    <3>2. m.child[d][x] \in N /\ m.parent[m.child[d][x]] = x BY <1>3, <1>10, <2>2, <3>1
    <3>3. m.child[d][x] # c BY <1>4, <1>10, <3>1, <3>2
    <3> QED BY <1>2, <3>1, <3>2, <3>3
  <2> QED BY <2>1, <2>2
<1>11. \A x \in N : r.parent[x] \in N \cup {NULL}
  BY <1>2, <1>3, <1>4, <1>5
<1>12. ASSUME NEW x \in N PROVE Hangs(r, x)
  <2>1. CASE x = c
    <3>1. r.parent[x] = p BY <1>2, <2>1
    <3>2. CASE p = NULL BY <1>2, <2>1, <3>1, <3>2 DEF Hangs
    <3>3. CASE p # NULL
      <4>1. PICK d \in Sides : m.child[d][p] = v /\ m.child[Other(d)][p] # v
        BY <1>3, <3>3 DEF Hangs, p
      <4>2. m.child[Other(d)][p] # c BY <1>1, <1>3, <1>4, <2>1, <3>3, OtherSide
      <4>3. r.child[d][p] = c /\ r.child[Other(d)][p] # c
        BY <1>2, <1>4, <3>3, <4>1, <4>2, OtherSide
      <4> QED BY <2>1, <3>1, <3>3, <4>3 DEF Hangs
    <3> QED BY <3>2, <3>3
  <2>2. CASE x # c
    <3>1. r.parent[x] = m.parent[x] /\ Hangs(m, x) BY <1>2, <1>3, <2>2
    <3>2. CASE m.parent[x] = NULL
      <4>1. m.root = x /\ p # NULL BY <1>7, <3>1, <3>2 DEF Hangs
      <4> QED BY <1>2, <3>1, <3>2, <4>1 DEF Hangs
    <3>3. CASE m.parent[x] # NULL
      <4>1. PICK d \in Sides : /\ m.child[d][m.parent[x]] = x
                               /\ m.child[Other(d)][m.parent[x]] # x
        BY <3>1, <3>3 DEF Hangs
      <4>2. m.parent[x] \in N BY <1>3, <1>5, <2>2, <3>3
      <4>3. r.child[d][m.parent[x]] = x BY <1>2, <4>1, <4>2
      <4>4. r.child[Other(d)][m.parent[x]] # x BY <1>2, <2>2, <4>1, <4>2, OtherSide
      <4> QED BY <3>1, <3>3, <4>3, <4>4 DEF Hangs
    <3> QED BY <3>2, <3>3
  <2> QED BY <2>1, <2>2
<1>13. Rooted(r, N)
  <2> SUFFICES ASSUME NEW S \in SUBSET N, S # {}, \A x \in S : r.parent[x] \in S
               PROVE  FALSE
    BY DEF Rooted
  <2> DEFINE T == IF c \in S THEN S \cup {v} ELSE S
  <2>1. \A x \in T : m.parent[x] \in T
    <3> SUFFICES ASSUME NEW x \in T PROVE m.parent[x] \in T
      OBVIOUS
    <3>1. CASE x = v BY <1>2, <3>1 DEF p
    <3>2. CASE x = c /\ x # v BY <1>1, <1>4, <3>2
    <3>3. CASE x # c /\ x # v BY <1>2, <3>3
    <3> QED BY <3>1, <3>2, <3>3
  <2>2. T \in SUBSET M /\ T # {} OBVIOUS
  <2> QED BY <2>1, <2>2 DEF Good, Rooted
<1> QED BY <1>1, <1>2, <1>9, <1>10, <1>11, <1>12, <1>13 DEF Good, Shape

LEMMA RenameGood ==
  ASSUME NEW m, NEW r, NEW M, Good(m, M), NEW v \in M, NEW n \in Nodes \ M,
         Renames(m, r, M, v, n)
  PROVE  Good(r, (M \ {v}) \cup {n})
<1> DEFINE N == (M \ {v}) \cup {n}
           F(x) == IF x = v THEN n ELSE x
<1>1. /\ N \subseteq Nodes /\ NULL \notin N /\ v # NULL /\ n # NULL /\ n \notin M /\ n # v
      /\ M \subseteq Nodes /\ NULL \notin M
  BY ConstantsAssumption DEF Good
<1>2. /\ r \in Tree /\ r.root = F(m.root)
      /\ \A x \in M \ {v} : r.parent[x] = F(m.parent[x])
      /\ \A d \in Sides, x \in M \ {v} : r.child[d][x] = F(m.child[d][x])
  BY DEF Renames
<1>3. /\ m.root \in M \cup {NULL} /\ (m.root # NULL => m.parent[m.root] = NULL)
      /\ \A x \in M, d \in Sides :
           m.child[d][x] # NULL => m.child[d][x] \in M /\ m.parent[m.child[d][x]] = x
      /\ \A x \in M : m.parent[x] \in M \cup {NULL} /\ Hangs(m, x)
  BY DEF Good, Shape
<1>4. m.parent[v] # v /\ \A d \in Sides : m.child[d][v] # v
  <2>1. m.parent[v] # v BY NoLoop DEF Good
  <2> QED BY <1>1, <1>3, <2>1
\* n holds what v held, and nothing of that is v itself.
<1>5. r.parent[n] = F(m.parent[v]) /\ \A d \in Sides : r.child[d][n] = F(m.child[d][v])
  BY <1>4 DEF Renames
<1>6. \A x \in M : /\ F(x) \in N /\ r.parent[F(x)] = F(m.parent[x])
                   /\ \A d \in Sides : r.child[d][F(x)] = F(m.child[d][x])
  BY <1>2, <1>5
<1>7. \A y \in N : \E x \in M : y = F(x) OBVIOUS
<1>8. \A x, y \in M \cup {NULL} : F(x) = F(y) => x = y BY <1>1
<1>9. F(NULL) = NULL /\ \A x \in M : F(x) # NULL BY <1>1
<1> HIDE DEF F
<1>10. r.root \in N \cup {NULL} /\ (r.root # NULL => r.parent[r.root] = NULL)
  BY <1>2, <1>3, <1>6, <1>9
<1>11. ASSUME NEW y \in N, NEW d \in Sides, r.child[d][y] # NULL
       PROVE  r.child[d][y] \in N /\ r.parent[r.child[d][y]] = y
  <2>1. PICK x \in M : y = F(x) BY <1>7
  <2>2. r.child[d][y] = F(m.child[d][x]) BY <1>6, <2>1
  <2>3. m.child[d][x] \in M /\ m.parent[m.child[d][x]] = x
    BY <1>3, <1>9, <1>11, <2>2
  <2> QED BY <1>6, <2>1, <2>2, <2>3
<1>12. ASSUME NEW y \in N PROVE r.parent[y] \in N \cup {NULL} /\ Hangs(r, y)
  <2>1. PICK x \in M : y = F(x) BY <1>7
  <2>2. r.parent[y] = F(m.parent[x]) /\ Hangs(m, x) /\ m.parent[x] \in M \cup {NULL}
    BY <1>3, <1>6, <2>1
  <2>3. CASE m.parent[x] = NULL
    BY <1>2, <1>9, <2>1, <2>2, <2>3 DEF Hangs
  <2>4. CASE m.parent[x] # NULL
    <3>1. PICK d \in Sides : /\ m.child[d][m.parent[x]] = x
                             /\ m.child[Other(d)][m.parent[x]] # x
      BY <2>2, <2>4 DEF Hangs
    <3>2. m.parent[x] \in M BY <2>2, <2>4
    <3>3. r.child[d][r.parent[y]] = y BY <1>6, <2>1, <2>2, <3>1, <3>2
    <3>4. r.child[Other(d)][r.parent[y]] # y
      <4>1. m.child[Other(d)][m.parent[x]] \in M \cup {NULL} BY <1>3, <3>2, OtherSide
      <4>2. r.child[Other(d)][r.parent[y]] = F(m.child[Other(d)][m.parent[x]])
        BY <1>6, <2>2, <3>2, OtherSide
      <4> QED BY <1>8, <2>1, <3>1, <4>1, <4>2
    <3>5. r.parent[y] \in N /\ r.parent[y] # NULL BY <1>6, <1>9, <2>2, <3>2
    <3> QED BY <3>3, <3>4, <3>5 DEF Hangs
  <2> QED BY <1>6, <1>9, <2>2, <2>3, <2>4
<1>13. Rooted(r, N)
  <2> SUFFICES ASSUME NEW S \in SUBSET N, S # {}, \A x \in S : r.parent[x] \in S
               PROVE  FALSE
    BY DEF Rooted
  <2> DEFINE T == {x \in M : F(x) \in S}
  <2>1. T # {} BY <1>7
  <2>2. \A x \in T : m.parent[x] \in T
    <3> SUFFICES ASSUME NEW x \in M, F(x) \in S PROVE m.parent[x] \in T
      OBVIOUS
    <3>1. F(m.parent[x]) \in S BY <1>6
    <3>2. m.parent[x] \in M BY <1>1, <1>3, <1>9, <3>1
    <3> QED BY <3>1, <3>2
  <2> QED BY <2>1, <2>2 DEF Good, Rooted
<1> QED BY <1>1, <1>2, <1>10, <1>11, <1>12, <1>13 DEF Good, Shape

-----------------------------------------------------------------------------
(* Where each call is *)

\* The way from arg's right child down to node, always to the left.
LeftPath(P) ==
  /\ P \subseteq members /\ node \in P /\ arg \notin P
  /\ \A x \in P : \/ x = t.child["right"][arg] /\ t.parent[x] = arg
                  \/ t.parent[x] \in P /\ x = t.child["left"][t.parent[x]]
  /\ \A x \in P \ {node} : t.child["left"][x] \in P

Control ==
  /\ pc \in PC /\ node \in Pointer /\ parent \in Pointer /\ arg \in Pointer
  /\ pc \in {"insert", "search"} =>
       /\ arg \in Nodes /\ parent \in members \cup {NULL}
       /\ node = IF parent = NULL THEN t.root ELSE t.child[SideOf(parent)][parent]
  /\ pc = "insert" => arg \notin members
  /\ pc = "found" => arg \in Nodes /\ node \in members \cup {NULL}
  /\ pc = "insert_color" => node \in members
  /\ pc = "successor" =>
       /\ arg \in members /\ \A s \in Sides : t.child[s][arg] # NULL
       /\ \E P \in SUBSET Nodes : LeftPath(P)
  /\ pc = "erase_color" => node \in members \cup {NULL} /\ parent \in members \cup {NULL}

LinkInv == Good(t, members) /\ Control

LEMMA LinkInit == Init => LinkInv
  BY ConstantsAssumption
     DEF Init, LinkInv, Good, Control, Tree, Shape, Rooted, Pointer, PC, Sides

\* What Good says of the pointers of a member.
LEMMA Around ==
  ASSUME NEW m, NEW M, Good(m, M)
  PROVE  /\ m \in Tree /\ M \subseteq Nodes /\ NULL \notin M
         /\ m.root \in M \cup {NULL} /\ (m.root # NULL => m.parent[m.root] = NULL)
         /\ \A n \in M, s \in Sides :
              /\ m.child[s][n] \in M \cup {NULL}
              /\ m.child[s][n] # NULL => m.parent[m.child[s][n]] = n
         /\ \A n \in M : m.parent[n] \in M \cup {NULL} /\ Hangs(m, n)
  BY ConstantsAssumption DEF Good, Shape

\* A return leaves a tree.
LEMMA Returned == Good(t, members)' /\ Return => LinkInv'
  BY DEF LinkInv, Return, Locals, Control, PC, Pointer

LEMMA LinkCalls ==
  ASSUME LinkInv, NEW n \in Nodes, InsertCall(n) \/ SearchCall(n)
  PROVE  LinkInv'
<1>1. UNCHANGED <<t, members>> /\ node' = t.root /\ parent' = NULL /\ arg' = n
      /\ ((pc' = "insert" /\ n \notin members) \/ (pc' = "search"))
  BY DEF InsertCall, SearchCall, Call, Locals
<1>2. t.root \in Pointer BY DEF LinkInv, Good, Tree
<1> QED BY <1>1, <1>2 DEF LinkInv, Control, PC, Pointer

LEMMA LinkDescend ==
  ASSUME LinkInv, Descend
  PROVE  LinkInv'
<1>1. /\ UNCHANGED <<t, members, pc, arg>> /\ pc \in {"insert", "search"}
      /\ node # NULL /\ node' = t.child[SideOf(node)][node] /\ parent' = node
  BY DEF Descend, Locals
<1>2. node \in members /\ SideOf(node) \in Sides
  BY <1>1, Around DEF LinkInv, Control, SideOf, Sides
<1>3. node' \in Pointer BY <1>1, <1>2, Around DEF LinkInv, Pointer
<1>4. SideOf(node) = SideOf(parent)' BY <1>1 DEF SideOf
<1> QED BY <1>1, <1>2, <1>3, <1>4, ConstantsAssumption DEF LinkInv, Control

LEMMA LinkSearchEnd == LinkInv /\ SearchEnd => LinkInv'
<1> SUFFICES ASSUME LinkInv, SearchEnd PROVE LinkInv'
  OBVIOUS
<1>1. UNCHANGED <<t, members, node, parent, arg>> /\ pc = "search" /\ pc' = "found"
  BY DEF SearchEnd
<1>2. arg \in Nodes /\ node \in members \cup {NULL}
  BY <1>1, Around DEF LinkInv, Control, SideOf, Sides
<1> QED BY <1>1, <1>2 DEF LinkInv, Control, PC

\* The way to the successor begins at arg's right child and goes on to the
\* left child of node.
LEMMA EraseInnerPath ==
  ASSUME LinkInv, EraseInner, NEW P, P = {t.child["right"][node]}
  PROVE  LeftPath(P)'
<1>1. /\ UNCHANGED <<t, members>> /\ pc = "found" /\ node # NULL
      /\ \A s \in Sides : t.child[s][node] # NULL
      /\ node' = t.child["right"][node] /\ arg' = node
  BY DEF EraseInner, Locals
<1>2. node \in members /\ "right" \in Sides BY <1>1 DEF LinkInv, Control, Sides
<1>3. node' \in members /\ t.parent[node'] = node /\ node' # node
  BY <1>1, <1>2, Around, NoLoop DEF LinkInv, Good
<1> QED BY <1>1, <1>3 DEF LeftPath

LEMMA SuccessorPath ==
  ASSUME LinkInv, Successor, NEW P, LeftPath(P), NEW Q, Q = P \cup {t.child["left"][node]}
  PROVE  LeftPath(Q)' /\ Q \subseteq members
<1>1. /\ UNCHANGED <<t, members, arg>> /\ pc = "successor"
      /\ t.child["left"][node] # NULL /\ node' = t.child["left"][node]
  BY DEF Successor, Locals
<1>2. node \in members /\ node' \in members /\ t.parent[node'] = node
  BY <1>1, Around DEF LinkInv, LeftPath, Sides
<1>3. node' # arg
  <2> SUFFICES ASSUME node' = arg PROVE FALSE
    OBVIOUS
  <2>1. \A x \in P \cup {arg} : t.parent[x] \in P \cup {arg}
    BY <1>2 DEF LeftPath
  <2> QED BY <1>2, <2>1 DEF LinkInv, Good, Rooted, LeftPath
<1>4. \A x \in Q :
         \/ x = t.child["right"][arg] /\ t.parent[x] = arg
         \/ t.parent[x] \in Q /\ x = t.child["left"][t.parent[x]]
  BY <1>1, <1>2 DEF LeftPath
<1>5. \A x \in Q \ {node'} : t.child["left"][x] \in Q
  BY <1>1 DEF LeftPath
<1> QED BY <1>1, <1>2, <1>3, <1>4, <1>5 DEF LeftPath

LEMMA LinkEraseInner == LinkInv /\ EraseInner => LinkInv'
<1> SUFFICES ASSUME LinkInv, EraseInner PROVE LinkInv'
  OBVIOUS
<1>1. /\ UNCHANGED <<t, members>> /\ pc = "found" /\ node # NULL
      /\ \A s \in Sides : t.child[s][node] # NULL
      /\ pc' = "successor" /\ node' = t.child["right"][node] /\ parent' = NULL /\ arg' = node
  BY DEF EraseInner, Locals
<1>2. node \in members /\ "right" \in Sides BY <1>1 DEF LinkInv, Control, Sides
<1>3. node' \in members BY <1>1, <1>2, Around DEF LinkInv
<1> PICK P : P = {t.child["right"][node]}
  OBVIOUS
<1>4. LeftPath(P)' BY EraseInnerPath
<1>5. P \in SUBSET Nodes /\ node' \in Pointer /\ arg' \in Pointer /\ parent' \in Pointer
  BY <1>1, <1>2, <1>3, Around DEF LinkInv, Pointer
<1> QED BY <1>1, <1>2, <1>4, <1>5 DEF LinkInv, Control, PC

LEMMA LinkSuccessor == LinkInv /\ Successor => LinkInv'
<1> SUFFICES ASSUME LinkInv, Successor PROVE LinkInv'
  OBVIOUS
<1>1. /\ UNCHANGED <<t, members, pc, arg>> /\ pc = "successor"
      /\ node' = t.child["left"][node] /\ parent' = NULL
  BY DEF Successor, Locals
<1>2. PICK P \in SUBSET Nodes : LeftPath(P) BY <1>1 DEF LinkInv, Control
<1> PICK Q : Q = P \cup {t.child["left"][node]}
  OBVIOUS
<1>3. LeftPath(Q)' /\ Q \subseteq members BY <1>2, SuccessorPath
<1>4. members \subseteq Nodes BY DEF LinkInv, Good
<1>5. node' \in Pointer /\ parent' \in Pointer BY <1>1, <1>3, <1>4 DEF Pointer
<1> QED BY <1>1, <1>3, <1>4, <1>5 DEF LinkInv, Control

LEMMA InsertLinks ==
  ASSUME LinkInv, InsertLink
  PROVE  Links(t, t', members, parent, SideOf(parent), arg)
<1> DEFINE m2 == Leaf(t, arg, parent)
           s == SideOf(parent)
<1>1. /\ pc = "insert" /\ node = NULL /\ members' = members \cup {arg}
      /\ t' = (IF parent = NULL THEN [m2 EXCEPT !.root = arg]
                                ELSE [m2 EXCEPT !.child[s][parent] = arg])
      /\ pc' = "insert_color" /\ node' = arg /\ parent' = parent /\ arg' = arg
  BY DEF InsertLink, Locals
<1>2. /\ Good(t, members) /\ arg \in Nodes \ members /\ parent \in members \cup {NULL}
      /\ s \in Sides
      /\ IF parent = NULL THEN t.root = NULL ELSE t.child[s][parent] = NULL
  BY <1>1 DEF LinkInv, Control, SideOf, Sides
<1>3. t \in Tree /\ members \subseteq Nodes /\ NULL \notin Nodes /\ parent \in Pointer
  BY <1>2, ConstantsAssumption DEF Good, Pointer
<1>4. /\ m2 \in Tree /\ m2.root = t.root
      /\ \A x \in Nodes : m2.parent[x] = IF x = arg THEN parent ELSE t.parent[x]
      /\ \A x \in Nodes : m2.black[x] = IF x = arg THEN FALSE ELSE t.black[x]
      /\ \A d \in Sides, x \in Nodes :
           m2.child[d][x] = IF x = arg THEN NULL ELSE t.child[d][x]
  <2>1. t \in Tree /\ arg \in Nodes /\ parent \in Pointer BY <1>2, <1>3
  <2>2. t.child \in [Sides -> [Nodes -> Pointer]] /\ NULL \in Pointer
    BY <2>1 DEF Tree, Pointer
  <2>3. m2 \in Tree /\ m2.root = t.root BY <2>1, <2>2 DEF Leaf, Tree
  <2>4. /\ \A x \in Nodes : m2.parent[x] = IF x = arg THEN parent ELSE t.parent[x]
        /\ \A x \in Nodes : m2.black[x] = IF x = arg THEN FALSE ELSE t.black[x]
    BY <2>1, <2>2 DEF Leaf, Tree
  <2>5. \A d \in Sides, x \in Nodes :
          m2.child[d][x] = IF x = arg THEN NULL ELSE t.child[d][x]
    BY <2>1, <2>2 DEF Leaf, Tree
  <2> HIDE DEF m2
  <2> QED BY <2>3, <2>4, <2>5
<1> HIDE DEF m2, s
<1>5. /\ t' \in Tree /\ t'.root = (IF parent = NULL THEN arg ELSE t.root)
      /\ t'.parent = m2.parent /\ t'.black = m2.black
      /\ \A d \in Sides, x \in Nodes :
           t'.child[d][x] = IF x = parent /\ d = s THEN arg ELSE m2.child[d][x]
  <2>1. CASE parent = NULL
    BY <1>1, <1>2, <1>3, <1>4, <2>1, PutRoot DEF Pointer
  <2>2. CASE parent # NULL
    <3>1. parent \in Nodes /\ arg \in Pointer BY <1>2, <1>3, <2>2 DEF Pointer
    <3>2. t' = [m2 EXCEPT !.child[s][parent] = arg] BY <1>1, <2>2
    <3> QED BY <1>2, <1>4, <2>2, <3>1, <3>2, PutChild
  <2> QED BY <2>1, <2>2
<1>6. t'.black[arg] = FALSE /\ \A x \in members : t'.black[x] = t.black[x]
  <2>1. t'.black = m2.black BY <1>5
  <2>2. \A x \in Nodes : t'.black[x] = IF x = arg THEN FALSE ELSE t.black[x] BY <1>4, <2>1
  <2> QED BY <1>2, <1>3, <2>2
<1>7. t'.parent[arg] = parent /\ \A x \in members : t'.parent[x] = t.parent[x]
  BY <1>2, <1>3, <1>4, <1>5
<1>8. /\ \A d \in Sides, x \in members :
           t'.child[d][x] = IF x = parent /\ d = s THEN arg ELSE t.child[d][x]
      /\ \A d \in Sides : t'.child[d][arg] = NULL
  BY <1>2, <1>3, <1>4, <1>5
<1> QED BY <1>5, <1>6, <1>7, <1>8 DEF Links, s

LEMMA LinkInsertLink == LinkInv /\ InsertLink => LinkInv'
<1> SUFFICES ASSUME LinkInv, InsertLink PROVE LinkInv'
  OBVIOUS
<1>1. /\ pc = "insert" /\ node = NULL /\ members' = members \cup {arg}
      /\ pc' = "insert_color" /\ node' = arg /\ parent' = parent /\ arg' = arg
  BY DEF InsertLink, Locals
<1>2. /\ Good(t, members) /\ arg \in Nodes \ members /\ parent \in members \cup {NULL}
      /\ SideOf(parent) \in Sides
      /\ IF parent = NULL THEN t.root = NULL ELSE t.child[SideOf(parent)][parent] = NULL
  BY <1>1 DEF LinkInv, Control, SideOf, Sides
<1>3. parent \in Pointer BY <1>2 DEF Good, Pointer
<1>4. Good(t', members \cup {arg}) BY <1>2, InsertLinks, LinkGood
<1>5. Good(t, members)' BY <1>1, <1>4
<1> QED BY <1>1, <1>2, <1>3, <1>5 DEF LinkInv, Control, PC, Pointer

\* Steps that only paint.
LEMMA Painted ==
  ASSUME NEW m, NEW M, Good(m, M), NEW blacks, NEW reds
  PROVE  Good(Paint(m, blacks, reds), M) /\ SamePointers(m, Paint(m, blacks, reds))
<1>1. SamePointers(m, Paint(m, blacks, reds)) BY PaintWrites DEF SamePointers, Good
<1> QED BY <1>1, SamePointersGood

LEMMA LinkPaints ==
  ASSUME LinkInv, InsertDone \/ EraseDone \/ InsertRecolor \/ EraseUp
  PROVE  LinkInv'
<1>1. CASE InsertDone
  BY <1>1, Painted, Returned DEF InsertDone, LinkInv
<1>2. CASE EraseDone
  BY <1>2, Painted, Returned DEF EraseDone, LinkInv
<1>3. CASE InsertRecolor
  <2> DEFINE p == t.parent[node]
             g == t.parent[p]
             uncle == t.child[Other(SideUnder(t, g, p))][g]
  <2>1. /\ pc = "insert_color" /\ p # NULL /\ g # NULL
        /\ t' = Paint(t, {uncle, p}, {g})
        /\ node' = g /\ parent' = p /\ UNCHANGED <<members, pc, arg>>
    BY <1>3 DEF InsertRecolor, RedRed, Locals
  <2>2. node \in members BY <2>1 DEF LinkInv, Control
  <2>3. p \in members BY <2>1, <2>2, Around DEF LinkInv
  <2>4. g \in members BY <2>1, <2>3, Around DEF LinkInv
  <2> HIDE DEF p, g, uncle
  <2>5. Good(t, members)' BY <2>1, Painted DEF LinkInv
  <2> QED BY <2>1, <2>3, <2>4, <2>5, Around DEF LinkInv, Control, Pointer
<1>4. CASE EraseUp
  <2>1. /\ pc = "erase_color" /\ parent # NULL
        /\ t' = Paint(t, {}, {Sibling})
        /\ node' = parent /\ parent' = t.parent[parent] /\ arg' = NULL
        /\ UNCHANGED <<members, pc>>
    BY <1>4 DEF EraseUp, Short, Locals
  <2>2. parent \in members BY <2>1 DEF LinkInv, Control
  <2>3. t.parent[parent] \in members \cup {NULL} BY <2>2, Around DEF LinkInv
  <2>4. Good(t, members)' BY <2>1, Painted DEF LinkInv
  <2>5. members \subseteq Nodes BY DEF LinkInv, Good
  <2> QED BY <2>1, <2>2, <2>3, <2>4, <2>5 DEF LinkInv, Control, Pointer
<1> QED BY <1>1, <1>2, <1>3, <1>4

\* A side on which p hangs under g.
LEMMA SideUnderHangs ==
  ASSUME NEW m, NEW M, Good(m, M), NEW p \in M, NEW g \in M, m.parent[p] = g
  PROVE  /\ SideUnder(m, g, p) \in Sides
         /\ m.child[SideUnder(m, g, p)][g] = p
<1>1. Hangs(m, p) /\ g # NULL BY Around
<1> QED BY <1>1 DEF Hangs, SideUnder, Sides, Other

\* r is t after one rotation, but for colours.
Turned(r) ==
  \E k \in Tree, s \in Sides, n \in members :
    SamePointers(t, k) /\ k.child[Other(s)][n] # NULL /\ SamePointers(Rotate(k, s, n), r)

LEMMA TurnedGood ==
  ASSUME Good(t, members), NEW r, Turned(r)
  PROVE  Good(r, members)
<1>1. PICK k \in Tree, s \in Sides, n \in members :
        SamePointers(t, k) /\ k.child[Other(s)][n] # NULL /\ SamePointers(Rotate(k, s, n), r)
  BY DEF Turned
<1>2. Good(k, members) BY <1>1, SamePointersGood
<1>3. Good(Rotate(k, s, n), members) BY <1>1, <1>2, RotateGood
<1> QED BY <1>1, <1>3, SamePointersGood

\* A rotation of what Paint or a colour alone has changed.
LEMMA RotateTurned ==
  ASSUME Good(t, members), NEW k, SamePointers(t, k), NEW s \in Sides, NEW n \in members,
         k.child[Other(s)][n] # NULL
  PROVE  Turned(Rotate(k, s, n)) /\ Good(Rotate(k, s, n), members)
<1>1. Good(k, members) BY SamePointersGood
<1>2. Good(Rotate(k, s, n), members) BY <1>1, RotateGood
<1>3. SamePointers(Rotate(k, s, n), Rotate(k, s, n)) BY <1>2 DEF SamePointers, Good
<1>4. k \in Tree BY <1>1 DEF Good
<1> QED BY <1>2, <1>3, <1>4 DEF Turned

LEMMA InsertRotateInnerTurns ==
  ASSUME LinkInv, InsertRotateInner
  PROVE  /\ Turned(t') /\ t.parent[node] \in members /\ node \in members
         /\ node' = t.parent[node] /\ parent' = node
<1> DEFINE p == t.parent[node]
           s == SideUnder(t, t.parent[p], p)
<1>1. /\ pc = "insert_color" /\ p # NULL
      /\ t.child[Other(s)][p] = node /\ t' = Rotate(t, s, p)
      /\ node' = p /\ parent' = node
  BY DEF InsertRotateInner, RedRed, Locals
<1>2. node \in members BY <1>1 DEF LinkInv, Control
<1>3. p \in members BY <1>1, <1>2, Around DEF LinkInv
<1>4. s \in Sides BY DEF SideUnder, Sides
<1> HIDE DEF p, s
<1>5. node # NULL /\ SamePointers(t, t) BY <1>2, Around DEF LinkInv, SamePointers
<1>6. Turned(t') BY <1>1, <1>3, <1>4, <1>5, RotateTurned DEF LinkInv
<1> QED BY <1>1, <1>2, <1>3, <1>6 DEF p

LEMMA InsertRotateTurns ==
  ASSUME LinkInv, InsertRotate
  PROVE  /\ Turned(t') /\ t.parent[node] \in members /\ node \in members
         /\ node' = node /\ parent' = t.parent[node]
<1> DEFINE p == t.parent[node]
           g == t.parent[p]
           s == SideUnder(t, g, p)
           m == Paint(t, {p}, {g})
<1>1. /\ pc = "insert_color" /\ p # NULL /\ g # NULL
      /\ t' = Rotate(m, Other(s), g) /\ node' = node /\ parent' = p
  BY DEF InsertRotate, RedRed, Locals
<1>2. node \in members BY <1>1 DEF LinkInv, Control
<1>3. p \in members BY <1>1, <1>2, Around DEF LinkInv
<1>4. g \in members BY <1>1, <1>3, Around DEF LinkInv
<1>5. s \in Sides /\ t.child[s][g] = p BY <1>3, <1>4, SideUnderHangs DEF LinkInv
<1>6. SamePointers(t, m) /\ m.child = t.child BY Painted DEF LinkInv, SamePointers
<1> HIDE DEF p, g, s, m
<1>7. Other(s) \in Sides /\ m.child[Other(Other(s))][g] # NULL
  BY <1>1, <1>5, <1>6, OtherSide
<1>8. Turned(t') BY <1>1, <1>4, <1>6, <1>7, RotateTurned DEF LinkInv
<1> QED BY <1>1, <1>2, <1>3, <1>8 DEF p

LEMMA LinkInsertRotates ==
  ASSUME LinkInv, InsertRotateInner \/ InsertRotate
  PROVE  LinkInv'
<1>1. /\ Turned(t') /\ node' \in members /\ parent' \in members
  BY InsertRotateInnerTurns, InsertRotateTurns
<1>2. UNCHANGED <<members, pc, arg>> /\ pc = "insert_color"
  BY DEF InsertRotateInner, InsertRotate, RedRed, Locals
<1>3. Good(t, members)' BY <1>1, <1>2, TurnedGood DEF LinkInv
<1>4. members \subseteq Nodes BY DEF LinkInv, Good
<1> QED BY <1>1, <1>2, <1>3, <1>4 DEF LinkInv, Control, Pointer

\* The nodes around node in __rb_erase_color.
LEMMA ShortAround ==
  ASSUME LinkInv, Short(Sibling)
  PROVE  /\ pc = "erase_color" /\ Sibling \in members /\ parent \in members
         /\ node \in members \cup {NULL}
         /\ SideOfNode \in Sides /\ Sibling = t.child[Other(SideOfNode)][parent]
<1>1. pc = "erase_color" /\ parent # NULL /\ Sibling # NULL BY DEF Short
<1>2. SideOfNode \in Sides BY DEF SideOfNode, SideUnder, Sides
<1>3. node \in members \cup {NULL} /\ parent \in members BY <1>1 DEF LinkInv, Control
<1>4. Sibling \in members BY <1>1, <1>2, <1>3, Around, OtherSide DEF LinkInv, Sibling
<1> QED BY <1>1, <1>2, <1>3, <1>4 DEF Sibling

LEMMA EraseRedSiblingTurns ==
  ASSUME LinkInv, EraseRedSibling
  PROVE  Turned(t')
<1> DEFINE m == Paint(t, {Sibling}, {parent})
<1>1. Short(Sibling) /\ t' = Rotate(m, SideOfNode, parent)
  BY DEF EraseRedSibling
<1>2. SamePointers(t, m) /\ m.child = t.child BY Painted DEF LinkInv, SamePointers
<1> HIDE DEF m
<1>3. /\ SideOfNode \in Sides /\ parent \in members
      /\ m.child[Other(SideOfNode)][parent] # NULL
  BY <1>1, <1>2, ShortAround, Around DEF LinkInv
<1> QED BY <1>1, <1>2, <1>3, RotateTurned DEF LinkInv

LEMMA EraseRedNearTurns ==
  ASSUME LinkInv, EraseRedNear
  PROVE  Turned(t')
<1> DEFINE s == SideOfNode
           m == Paint(t, {t.child[s][Sibling]}, {Sibling})
<1>1. /\ Short(Sibling) /\ ~Childless(Sibling) /\ Black(t, t.child[Other(s)][Sibling])
      /\ t' = Rotate(m, Other(s), Sibling)
  BY DEF EraseRedNear
<1>2. SamePointers(t, m) /\ m.child = t.child BY Painted DEF LinkInv, SamePointers
<1> HIDE DEF m
<1>3. s \in Sides /\ Sibling \in members BY <1>1, ShortAround
<1>4. t.child[s][Sibling] # NULL
  BY <1>1, <1>3, OtherSide DEF Childless, Black
<1> HIDE DEF s
<1>5. Other(s) \in Sides /\ m.child[Other(Other(s))][Sibling] # NULL
  BY <1>2, <1>3, <1>4, OtherSide
<1> QED BY <1>1, <1>2, <1>3, <1>5, RotateTurned DEF LinkInv

LEMMA EraseRotateTurns ==
  ASSUME LinkInv, EraseRotate
  PROVE  Turned(t')
<1> DEFINE s == SideOfNode
           far == t.child[Other(s)][Sibling]
           k == [t EXCEPT !.black[Sibling] = t.black[parent]]
           m == Paint(k, {parent, far}, {})
           m1 == Rotate(m, s, parent)
<1>1. Short(Sibling) /\ t' = Paint(m1, {m1.root}, {})
  BY DEF EraseRotate
<1>2. /\ s \in Sides /\ Sibling \in members /\ parent \in members
      /\ t.child[Other(s)][parent] = Sibling
  BY <1>1, ShortAround
<1>3. t \in Tree /\ members \subseteq Nodes /\ Sibling # NULL BY <1>2, Around DEF LinkInv
<1>4. SamePointers(t, k) BY <1>2, <1>3 DEF SamePointers, Tree
<1>5. Good(k, members) BY <1>4, SamePointersGood DEF LinkInv
<1> HIDE DEF s, k
<1>6. SamePointers(t, m) /\ m \in Tree BY <1>4, <1>5, Painted DEF SamePointers
<1> HIDE DEF m
<1>7. m.child[Other(s)][parent] # NULL BY <1>2, <1>3, <1>6 DEF SamePointers
<1>8. Good(m1, members) BY <1>2, <1>6, <1>7, RotateTurned DEF LinkInv
<1>9. SamePointers(m1, t') BY <1>1, <1>8, Painted
<1> QED BY <1>2, <1>6, <1>7, <1>9 DEF Turned

LEMMA LinkEraseRotates ==
  ASSUME LinkInv, EraseRedSibling \/ EraseRedNear \/ EraseRotate
  PROVE  LinkInv'
<1>1. UNCHANGED members /\ Short(Sibling)
  BY DEF EraseRedSibling, EraseRedNear, EraseRotate
<1>2. Turned(t') BY EraseRedSiblingTurns, EraseRedNearTurns, EraseRotateTurns
<1>3. Good(t, members)' BY <1>1, <1>2, TurnedGood DEF LinkInv
<1>4. CASE Return BY <1>3, <1>4, Returned
<1>5. CASE UNCHANGED <<members, pc, node, parent, arg>>
  <2>1. pc = "erase_color" BY <1>1 DEF Short
  <2> QED BY <1>3, <1>5, <2>1 DEF LinkInv, Control
<1> QED BY <1>4, <1>5 DEF EraseRedSibling, EraseRedNear, EraseRotate

LEMMA LinkReturns ==
  ASSUME LinkInv, InsertRefused \/ Leave
  PROVE  LinkInv'
<1>1. Return /\ UNCHANGED <<t, members>> BY DEF InsertRefused, Leave
<1>2. Good(t, members)' BY <1>1 DEF LinkInv
<1> QED BY <1>1, <1>2, Returned

\* The last write of rb_replace_node, `*new = *node`.
Copy(m, k, v, n) ==
  [m EXCEPT !.child = [s \in Sides |-> [@[s] EXCEPT ![n] = k.child[s][v]]],
            !.parent[n] = k.parent[v], !.black[n] = k.black[v]]

LEMMA CopyWrites ==
  ASSUME NEW m \in Tree, NEW k \in Tree, NEW n \in Nodes, NEW v \in Nodes
  PROVE  /\ Copy(m, k, v, n) \in Tree /\ Copy(m, k, v, n).root = m.root
         /\ \A x \in Nodes :
              Copy(m, k, v, n).parent[x] = IF x = n THEN k.parent[v] ELSE m.parent[x]
         /\ \A d \in Sides, x \in Nodes :
              Copy(m, k, v, n).child[d][x] = IF x = n THEN k.child[d][v] ELSE m.child[d][x]
         /\ \A x \in Nodes :
              Copy(m, k, v, n).black[x] = IF x = n THEN k.black[v] ELSE m.black[x]
<1> DEFINE ch == [s \in Sides |-> [m.child[s] EXCEPT ![n] = k.child[s][v]]]
           pa == [m.parent EXCEPT ![n] = k.parent[v]]
           bl == [m.black EXCEPT ![n] = k.black[v]]
<1>1. /\ k.parent[v] \in Pointer /\ k.black[v] \in BOOLEAN
      /\ \A s \in Sides : k.child[s][v] \in Pointer
  BY DEF Tree
<1>2. /\ m.parent \in [Nodes -> Pointer] /\ m.black \in [Nodes -> BOOLEAN]
      /\ \A s \in Sides : m.child[s] \in [Nodes -> Pointer]
  BY DEF Tree
<1>3. /\ ch \in [Sides -> [Nodes -> Pointer]]
      /\ \A d \in Sides, x \in Nodes :
           ch[d][x] = IF x = n THEN k.child[d][v] ELSE m.child[d][x]
  BY <1>1, <1>2
<1>4. /\ pa \in [Nodes -> Pointer]
      /\ \A x \in Nodes : pa[x] = IF x = n THEN k.parent[v] ELSE m.parent[x]
  BY <1>1, <1>2
<1>5. /\ bl \in [Nodes -> BOOLEAN]
      /\ \A x \in Nodes : bl[x] = IF x = n THEN k.black[v] ELSE m.black[x]
  BY <1>1, <1>2
<1>6. Copy(m, k, v, n) = [m EXCEPT !.child = ch, !.parent = pa, !.black = bl]
  BY DEF Copy, Tree
<1> DEFINE r == Copy(m, k, v, n)
<1> HIDE DEF ch, pa, bl, r
<1>7. r \in Tree /\ r.root = m.root /\ r.parent = pa /\ r.child = ch /\ r.black = bl
  BY <1>3, <1>4, <1>5, <1>6 DEF Tree, r
<1> QED BY <1>3, <1>4, <1>5, <1>7 DEF r

LEMMA ReplaceRenames ==
  ASSUME LinkInv, NEW n \in Nodes, Replace(n)
  PROVE  Renames(t, t', members, node, n)
<1> DEFINE p == t.parent[node]
           l == t.child["left"][node]
           r == t.child["right"][node]
           m1 == Hang(t, "left", p, node, n)
           m2 == SetParent(m1, l, n)
           m3 == SetParent(m2, r, n)
           m4 == Copy(m3, t, node, n)
<1>1. /\ pc = "found" /\ node # NULL /\ n \notin members
      /\ t' = m4 /\ members' = (members \ {node}) \cup {n} /\ Return
  BY DEF Replace, Copy
<1>2. Good(t, members) /\ node \in members BY <1>1 DEF LinkInv, Control
<1>3. /\ t \in Tree /\ members \subseteq Nodes /\ NULL \notin Nodes
      /\ "left" \in Sides /\ "right" \in Sides /\ n \in Pointer /\ node \in Nodes
      /\ n # node
  BY <1>1, <1>2, ConstantsAssumption DEF Good, Pointer, Sides
<1>4. /\ t.root \in members \cup {NULL} /\ (t.root # NULL => t.parent[t.root] = NULL)
      /\ \A x \in members, d \in Sides :
           t.child[d][x] # NULL => t.child[d][x] \in members /\ t.parent[t.child[d][x]] = x
      /\ \A x \in members : t.parent[x] \in members \cup {NULL} /\ Hangs(t, x)
  BY <1>2 DEF Good, Shape
<1>5. p \in members \cup {NULL} /\ l \in members \cup {NULL} /\ r \in members \cup {NULL}
  BY <1>2, <1>3, <1>4
<1>6. p # node /\ l # node /\ r # node
  BY <1>2, <1>3, <1>4, NoLoop DEF Good
<1>7. p # NULL => \E d \in Sides : t.child[d][p] = node /\ t.child[Other(d)][p] # node
  BY <1>2, <1>4 DEF Hangs
<1>8. \A x \in members : t.parent[x] = node <=> x = l \/ x = r
  <2> SUFFICES ASSUME NEW x \in members PROVE t.parent[x] = node <=> x = l \/ x = r
    OBVIOUS
  <2>1. ASSUME t.parent[x] = node PROVE x = l \/ x = r
    BY <1>3, <1>4, <2>1 DEF Hangs, Sides
  <2>2. ASSUME x = l \/ x = r PROVE t.parent[x] = node
    <3>1. x # NULL BY <1>3
    <3> QED BY <1>2, <1>3, <1>4, <2>2, <3>1
  <2> QED BY <2>1, <2>2
<1>9. p = NULL <=> t.root = node
  BY <1>2, <1>3, <1>4 DEF Hangs
<1>10. \A d \in Sides : t.child[d][node] = IF d = "left" THEN l ELSE r BY DEF Sides
<1>11. \A d \in Sides, x \in members : t.child[d][x] = node => x = p
  BY <1>3, <1>4
<1> HIDE DEF p, l, r
<1>12. /\ m1 \in Tree /\ m1.parent = t.parent /\ m1.black = t.black
       /\ m1.root = IF p = NULL THEN n ELSE t.root
       /\ \A d \in Sides, x \in Nodes :
            m1.child[d][x] = IF x = p /\ t.child[d][x] = node THEN n ELSE t.child[d][x]
  BY <1>3, <1>5, <1>7, HangWrites DEF Pointer
<1> HIDE DEF m1
<1>13. /\ m2 \in Tree /\ m2.root = m1.root /\ m2.child = m1.child /\ m2.black = t.black
       /\ \A x \in Nodes : m2.parent[x] = IF x = l THEN n ELSE t.parent[x]
  <2>1. l \in Pointer BY <1>3, <1>5 DEF Pointer
  <2> QED BY <1>3, <1>12, <2>1, SetParentWrites
<1> HIDE DEF m2
<1>14. /\ m3 \in Tree /\ m3.root = m1.root /\ m3.child = m1.child /\ m3.black = t.black
       /\ \A x \in Nodes : m3.parent[x] = IF x = r THEN n ELSE m2.parent[x]
  <2>1. r \in Pointer BY <1>3, <1>5 DEF Pointer
  <2> QED BY <1>3, <1>13, <2>1, SetParentWrites
<1> HIDE DEF m3
<1>15. /\ m4 \in Tree /\ m4.root = m1.root
       /\ \A x \in Nodes : m4.parent[x] = IF x = n THEN t.parent[node] ELSE m3.parent[x]
       /\ \A d \in Sides, x \in Nodes :
            m4.child[d][x] = IF x = n THEN t.child[d][node] ELSE m1.child[d][x]
       /\ \A x \in Nodes : m4.black[x] = IF x = n THEN t.black[node] ELSE t.black[x]
  <2>1. m3 \in Tree /\ t \in Tree /\ n \in Nodes /\ node \in Nodes BY <1>3, <1>14
  <2>2. /\ m4 \in Tree /\ m4.root = m3.root
        /\ \A x \in Nodes : m4.parent[x] = IF x = n THEN t.parent[node] ELSE m3.parent[x]
        /\ \A d \in Sides, x \in Nodes :
             m4.child[d][x] = IF x = n THEN t.child[d][node] ELSE m3.child[d][x]
        /\ \A x \in Nodes : m4.black[x] = IF x = n THEN t.black[node] ELSE m3.black[x]
    <3> HIDE DEF m4
    <3>1. m4 = Copy(m3, t, node, n) BY DEF m4
    <3>2. /\ Copy(m3, t, node, n) \in Tree /\ Copy(m3, t, node, n).root = m3.root
      BY <2>1, CopyWrites
    <3>3. \A x \in Nodes : Copy(m3, t, node, n).parent[x] = IF x = n THEN t.parent[node] ELSE m3.parent[x]
      BY <2>1, CopyWrites
    <3>4. \A d \in Sides, x \in Nodes :
             Copy(m3, t, node, n).child[d][x] = IF x = n THEN t.child[d][node] ELSE m3.child[d][x]
      BY <2>1, CopyWrites
    <3>5. \A x \in Nodes : Copy(m3, t, node, n).black[x] = IF x = n THEN t.black[node] ELSE m3.black[x]
      BY <2>1, CopyWrites
    <3> QED BY <3>1, <3>2, <3>3, <3>4, <3>5
  <2> QED BY <1>14, <2>2
<1>16. t' = m4 BY <1>1
<1> HIDE DEF m4
<1>17. t'.root = IF t.root = node THEN n ELSE t.root BY <1>9, <1>12, <1>15, <1>16
<1>18. ASSUME NEW x \in members \ {node}
      PROVE  t'.parent[x] = IF t.parent[x] = node THEN n ELSE t.parent[x]
  BY <1>1, <1>3, <1>8, <1>13, <1>14, <1>15, <1>16
<1>19. t'.parent[n] = t.parent[node] BY <1>3, <1>15, <1>16
<1>20. ASSUME NEW d \in Sides, NEW x \in members \ {node}
      PROVE  t'.child[d][x] = IF t.child[d][x] = node THEN n ELSE t.child[d][x]
  BY <1>1, <1>3, <1>11, <1>12, <1>15, <1>16
<1>21. \A d \in Sides : t'.child[d][n] = t.child[d][node] BY <1>3, <1>15, <1>16
<1>22. t'.black[n] = t.black[node] /\ \A x \in members \ {node} : t'.black[x] = t.black[x]
  BY <1>1, <1>3, <1>15, <1>16
<1> QED BY <1>15, <1>16, <1>17, <1>18, <1>19, <1>20, <1>21, <1>22 DEF Renames

LEMMA LinkReplace ==
  ASSUME LinkInv, NEW n \in Nodes, Replace(n)
  PROVE  LinkInv'
<1>1. /\ pc = "found" /\ node # NULL /\ n \notin members
      /\ members' = (members \ {node}) \cup {n} /\ Return
  BY DEF Replace
<1>2. Good(t, members) /\ node \in members BY <1>1 DEF LinkInv, Control
<1>3. Good(t', members') BY <1>1, <1>2, ReplaceRenames, RenameGood
<1>4. Good(t, members)' BY <1>3
<1> QED BY <1>1, <1>4, Returned

\* The tree without the member v, which has no child on one side.
Cut(m, v, c) == Hang(SetParent(m, c, m.parent[v]), "left", m.parent[v], v, c)

LEMMA CutWrites ==
  ASSUME NEW m, NEW M, Good(m, M), NEW v \in M, NEW s \in Sides,
         m.child[Other(s)][v] = NULL
  PROVE  LET c == m.child[s][v]
             p == m.parent[v]
             r == Cut(m, v, c)
         IN  /\ r \in Tree /\ r.root = IF p = NULL THEN c ELSE m.root
             /\ \A x \in Nodes \ {v} : r.parent[x] = IF x = c THEN p ELSE m.parent[x]
             /\ \A d \in Sides, x \in Nodes \ {v} :
                  r.child[d][x] = IF x = p /\ m.child[d][x] = v THEN c ELSE m.child[d][x]
             /\ \A x \in Nodes \ {v} : r.black[x] = m.black[x]
<1> DEFINE c == m.child[s][v]
           p == m.parent[v]
           m1 == SetParent(m, c, p)
           m2 == Hang(m1, "left", p, v, c)
<1>1. m \in Tree /\ v \in Nodes /\ c \in Pointer /\ p \in Pointer /\ "left" \in Sides
  BY Around DEF Pointer, Sides
<1>2. p # NULL => \E d \in Sides : m.child[d][p] = v /\ m.child[Other(d)][p] # v
  BY Around DEF Hangs
<1>3. Cut(m, v, c) = m2 BY DEF Cut
<1> HIDE DEF c, p
<1>4. /\ m1 \in Tree /\ m1.root = m.root /\ m1.child = m.child /\ m1.black = m.black
      /\ \A x \in Nodes : m1.parent[x] = IF x = c THEN p ELSE m.parent[x]
  BY <1>1, SetParentWrites
<1> HIDE DEF m1
<1>5. /\ m2 \in Tree /\ m2.parent = m1.parent /\ m2.black = m.black
      /\ m2.root = IF p = NULL THEN c ELSE m.root
      /\ \A d \in Sides, x \in Nodes :
           m2.child[d][x] = IF x = p /\ m.child[d][x] = v THEN c ELSE m.child[d][x]
  BY <1>1, <1>2, <1>4, HangWrites
<1> HIDE DEF m2
<1>6. \A x \in Nodes \ {v} : m2.parent[x] = IF x = c THEN p ELSE m.parent[x] BY <1>4, <1>5
<1>7. \A d \in Sides, x \in Nodes \ {v} :
        m2.child[d][x] = IF x = p /\ m.child[d][x] = v THEN c ELSE m.child[d][x]
  BY <1>4, <1>5
<1> QED BY <1>3, <1>5, <1>6, <1>7 DEF c, p

LEMMA CutGood ==
  ASSUME NEW m, NEW M, Good(m, M), NEW v \in M, NEW s \in Sides,
         m.child[Other(s)][v] = NULL
  PROVE  Good(Cut(m, v, m.child[s][v]), M \ {v})
<1> DEFINE c == m.child[s][v]
           r == Cut(m, v, c)
<1>1. /\ r \in Tree /\ r.root = IF m.parent[v] = NULL THEN c ELSE m.root
      /\ \A x \in Nodes \ {v} : r.parent[x] = IF x = c THEN m.parent[v] ELSE m.parent[x]
      /\ \A d \in Sides, x \in Nodes \ {v} :
           r.child[d][x] = IF x = m.parent[v] /\ m.child[d][x] = v THEN c ELSE m.child[d][x]
  BY CutWrites
<1>2. /\ M \subseteq Nodes /\ NULL \notin M
      /\ \A d \in Sides, x \in M : m.child[d][x] = v => x = m.parent[v]
  BY Around
<1> HIDE DEF r, c
<1>3. Removes(m, r, M, v, c) BY <1>1, <1>2 DEF Removes
<1> QED BY <1>3, RemoveGood DEF r, c

LEMMA LinkErase == LinkInv /\ Erase => LinkInv'
<1> SUFFICES ASSUME LinkInv, Erase PROVE LinkInv'
  OBVIOUS
<1> DEFINE s == IF t.child["left"][node] = NULL THEN "right" ELSE "left"
           c == t.child[s][node]
           p == t.parent[node]
<1>1. /\ pc = "found" /\ node # NULL /\ t.child[Other(s)][node] = NULL
      /\ t' = Cut(t, node, c) /\ members' = members \ {node}
      /\ Recolor(t.black[node], c, p)
  BY DEF Erase, Cut
<1>2. Good(t, members) /\ node \in members /\ s \in Sides
  BY <1>1 DEF LinkInv, Control, Sides
<1>3. Good(t', members') BY <1>1, <1>2, CutGood
<1>4. Good(t, members)' BY <1>3
<1>5. /\ members \subseteq Nodes /\ c \in members \cup {NULL} /\ p \in members \cup {NULL}
      /\ c # NULL => t.parent[c] = node
  BY <1>2, Around
<1>6. c # node /\ p # node
  BY <1>2, <1>5, Around, NoLoop DEF Good
<1> HIDE DEF s, c, p
<1>7. CASE Return BY <1>4, <1>7, Returned
<1>8. CASE pc' = "erase_color" /\ Locals(c, p, NULL)
  <2>1. pc' = "erase_color" /\ node' = c /\ parent' = p /\ arg' = NULL BY <1>8 DEF Locals
  <2> QED BY <1>1, <1>4, <1>5, <1>6, <2>1 DEF LinkInv, Control, PC, Pointer
<1> QED BY <1>1, <1>7, <1>8 DEF Recolor

\* The successor is below arg, but not where arg hangs.
LEMMA SuccessorAround ==
  ASSUME LinkInv, pc = "successor"
  PROVE  /\ node \in members /\ arg \in members /\ node # arg
         /\ t.parent[node] \in members
         /\ \A s \in Sides : t.child[s][arg] \in members
         /\ t.child["left"][arg] # node /\ t.child["left"][arg] # t.child["right"][arg]
         /\ t.parent[node] = arg <=> t.child["right"][arg] = node
         /\ t.parent[node] = arg \/ t.child["left"][t.parent[node]] = node
         /\ t.parent[arg] # node /\ t.parent[arg] # t.parent[node]
         /\ \A x \in members : t.parent[x] = node => x # arg
<1> USE DEF Sides
<1>1. /\ Good(t, members) /\ arg \in members /\ \A s \in Sides : t.child[s][arg] # NULL
  BY DEF LinkInv, Control
<1>2. PICK P \in SUBSET Nodes : LeftPath(P) BY DEF LinkInv, Control
<1>3. /\ P \subseteq members /\ node \in P /\ arg \notin P
      /\ \A x \in P : \/ x = t.child["right"][arg] /\ t.parent[x] = arg
                      \/ t.parent[x] \in P /\ x = t.child["left"][t.parent[x]]
  BY <1>2 DEF LeftPath
<1>4. t.parent[arg] \notin P \cup {arg}
  <2> SUFFICES ASSUME t.parent[arg] \in P \cup {arg} PROVE FALSE
    OBVIOUS
  <2>1. P \cup {arg} \in SUBSET members /\ \A x \in P \cup {arg} : t.parent[x] \in P \cup {arg}
    BY <1>1, <1>3
  <2> QED BY <1>1, <2>1 DEF Good, Rooted
<1>5. \A s \in Sides : t.child[s][arg] \in members /\ t.parent[t.child[s][arg]] = arg
  BY <1>1, Around
<1>6. t.child["left"][arg] # t.child["right"][arg]
  <2>1. Hangs(t, t.child["left"][arg]) /\ arg # NULL BY <1>1, <1>5, Around
  <2> QED BY <1>1, <1>5, <2>1, OtherSide DEF Hangs
<1>7. t.parent[node] = arg <=> t.child["right"][arg] = node BY <1>3, <1>5
<1>8. t.child["left"][arg] # node BY <1>5, <1>6, <1>7
<1>9. t.parent[node] \in P \cup {arg} BY <1>3
<1>10. t.parent[node] = arg \/ t.child["left"][t.parent[node]] = node BY <1>3
<1>11. \A x \in members : t.parent[x] = node => x # arg BY <1>3, <1>4
<1> QED BY <1>1, <1>3, <1>4, <1>5, <1>6, <1>7, <1>8, <1>9, <1>10, <1>11

LEMMA PutBlack ==
  ASSUME NEW m \in Tree, NEW n \in Nodes, NEW b \in BOOLEAN
  PROVE  LET r == [m EXCEPT !.black[n] = b]
         IN  /\ SamePointers(m, r)
             /\ \A x \in Nodes : r.black[x] = IF x = n THEN b ELSE m.black[x]
  BY DEF Tree, SamePointers

\* All that the splice writes, where c is the successor's child, p its
\* parent, q arg's parent and l and r are arg's children.
LEMMA SpliceWrites ==
  ASSUME LinkInv, EraseSplice
  PROVE  LET c == t.child["right"][node]
             p == t.parent[node]
             q == t.parent[arg]
             l == t.child["left"][arg]
             r == t.child["right"][arg]
         IN  /\ t' \in Tree
             /\ t'.root = IF q = NULL THEN node ELSE t.root
             /\ \A x \in Nodes \ {arg} :
                  t'.parent[x] = IF x = l THEN node ELSE IF x = node THEN q
                                 ELSE IF p # arg /\ x = r THEN node
                                 ELSE IF p # arg /\ x = c THEN p ELSE t.parent[x]
             /\ \A d \in Sides, x \in Nodes \ {arg} :
                  t'.child[d][x] =
                    IF x = node THEN (IF d = "left" THEN l ELSE IF p = arg THEN c ELSE r)
                    ELSE IF p # arg /\ d = "left" /\ x = p THEN c
                    ELSE IF x = q /\ t.child[d][x] = arg THEN node ELSE t.child[d][x]
             /\ \A x \in Nodes \ {arg} :
                  t'.black[x] = IF x = node THEN t.black[arg] ELSE t.black[x]
<1> DEFINE c == t.child["right"][node]
           p == t.parent[node]
           q == t.parent[arg]
           l == t.child["left"][arg]
           r == t.child["right"][arg]
           m == Hang(t, "left", q, arg, node)
           k1 == SetParent(m, c, p)
           k2 == [k1 EXCEPT !.child["left"][p] = c]
           k3 == [k2 EXCEPT !.child["right"][node] = r]
           k4 == [k3 EXCEPT !.parent[r] = node]
           m1 == IF p = arg THEN m ELSE k4
           n1 == [m1 EXCEPT !.parent[node] = q]
           n2 == [n1 EXCEPT !.parent[l] = node]
           n3 == [n2 EXCEPT !.black[node] = t.black[arg]]
           n4 == [n3 EXCEPT !.child["left"][node] = l]
<1>1. pc = "successor" /\ t' = n4 BY DEF EraseSplice
<1>2. "left" \in Sides /\ "right" \in Sides /\ \A d \in Sides : d = "left" \/ d = "right"
  BY DEF Sides
<1>3. /\ node \in members /\ arg \in members /\ node # arg /\ p \in members
      /\ l \in members /\ r \in members /\ l # node /\ l # r
      /\ q # node /\ q # p
  BY <1>1, <1>2, SuccessorAround
<1>4. t \in Tree /\ members \subseteq Nodes BY Around DEF LinkInv
<1>5. /\ node \in Nodes /\ arg \in Nodes /\ p \in Nodes /\ l \in Nodes /\ r \in Nodes
      /\ c \in Pointer /\ q \in Pointer /\ node \in Pointer /\ l \in Pointer /\ r \in Pointer
      /\ p \in Pointer /\ t.black[arg] \in BOOLEAN
  BY <1>2, <1>3, <1>4 DEF Pointer, Tree
<1>6. q # NULL => \E d \in Sides : t.child[d][q] = arg /\ t.child[Other(d)][q] # arg
  BY <1>3, Around DEF LinkInv, Hangs
<1> HIDE DEF c, p, q, l, r
<1>7. /\ m \in Tree /\ m.parent = t.parent /\ m.root = IF q = NULL THEN node ELSE t.root
      /\ m.black = t.black
      /\ \A d \in Sides, x \in Nodes :
           m.child[d][x] = IF x = q /\ t.child[d][x] = arg THEN node ELSE t.child[d][x]
  BY <1>2, <1>4, <1>5, <1>6, HangWrites
<1> HIDE DEF m
<1>8. /\ k1 \in Tree /\ k1.root = m.root /\ k1.child = m.child /\ k1.black = m.black
      /\ \A x \in Nodes : k1.parent[x] = IF x = c THEN p ELSE m.parent[x]
  <2>1. m \in Tree /\ c \in Pointer /\ p \in Pointer BY <1>5, <1>7
  <2> QED BY <2>1, SetParentWrites
<1> HIDE DEF k1
<1>9. /\ k2 \in Tree /\ k2.root = k1.root /\ k2.parent = k1.parent /\ k2.black = k1.black
      /\ \A d \in Sides, x \in Nodes :
           k2.child[d][x] = IF d = "left" /\ x = p THEN c ELSE k1.child[d][x]
  BY <1>2, <1>5, <1>8, PutChild
<1> HIDE DEF k2
<1>10. /\ k3 \in Tree /\ k3.root = k2.root /\ k3.parent = k2.parent /\ k3.black = k2.black
       /\ \A d \in Sides, x \in Nodes :
            k3.child[d][x] = IF d = "right" /\ x = node THEN r ELSE k2.child[d][x]
  BY <1>2, <1>5, <1>9, PutChild
<1> HIDE DEF k3
<1>11. /\ k4 \in Tree /\ k4.root = k3.root /\ k4.child = k3.child /\ k4.black = k3.black
       /\ \A x \in Nodes : k4.parent[x] = IF x = r THEN node ELSE k3.parent[x]
  BY <1>5, <1>10, PutParent
<1> HIDE DEF k4
<1>12. /\ m1 \in Tree /\ m1.root = m.root /\ m1.black = t.black
       /\ \A x \in Nodes : m1.parent[x] = IF p # arg /\ x = r THEN node
                                          ELSE IF p # arg /\ x = c THEN p ELSE t.parent[x]
       /\ \A d \in Sides, x \in Nodes :
            m1.child[d][x] = IF p # arg /\ d = "right" /\ x = node THEN r
                             ELSE IF p # arg /\ d = "left" /\ x = p THEN c ELSE m.child[d][x]
  <2>1. CASE p = arg
    <3>1. m1 = m BY <2>1
    <3> HIDE DEF m1
    <3> QED BY <1>7, <2>1, <3>1
  <2>2. CASE p # arg
    <3>1. m1 = k4 BY <2>2
    <3> HIDE DEF m1
    <3> QED BY <1>7, <1>8, <1>9, <1>10, <1>11, <2>2, <3>1
  <2> QED BY <2>1, <2>2
<1> HIDE DEF m1
<1>13. /\ n1 \in Tree /\ n1.root = m1.root /\ n1.child = m1.child /\ n1.black = t.black
       /\ \A x \in Nodes : n1.parent[x] = IF x = node THEN q ELSE m1.parent[x]
  BY <1>5, <1>12, PutParent
<1> HIDE DEF n1
<1>14. /\ n2 \in Tree /\ n2.root = n1.root /\ n2.child = n1.child /\ n2.black = t.black
       /\ \A x \in Nodes : n2.parent[x] = IF x = l THEN node ELSE n1.parent[x]
  BY <1>5, <1>13, PutParent
<1> HIDE DEF n2
<1>15. /\ n3 \in Tree /\ n3.root = n2.root /\ n3.child = n2.child /\ n3.parent = n2.parent
       /\ \A x \in Nodes : n3.black[x] = IF x = node THEN t.black[arg] ELSE t.black[x]
  BY <1>5, <1>14, PutBlack DEF SamePointers
<1> HIDE DEF n3
<1>16. /\ n4 \in Tree /\ n4.root = n3.root /\ n4.parent = n3.parent /\ n4.black = n3.black
       /\ \A d \in Sides, x \in Nodes :
            n4.child[d][x] = IF d = "left" /\ x = node THEN l ELSE n3.child[d][x]
  <2>1. n3 \in Tree /\ "left" \in Sides /\ node \in Nodes /\ l \in Pointer BY <1>2, <1>5, <1>15
  <2> QED BY <2>1, PutChild
<1>17. t' = n4 BY <1>1
<1> HIDE DEF n4
<1>18. \A x \in Nodes \ {arg} :
         t'.parent[x] = IF x = l THEN node ELSE IF x = node THEN q
                        ELSE IF p # arg /\ x = r THEN node
                        ELSE IF p # arg /\ x = c THEN p ELSE t.parent[x]
  BY <1>12, <1>13, <1>14, <1>15, <1>16, <1>17
<1>19. ASSUME NEW d \in Sides, NEW x \in Nodes \ {arg}
       PROVE  t'.child[d][x] =
                IF x = node THEN (IF d = "left" THEN l ELSE IF p = arg THEN c ELSE r)
                ELSE IF p # arg /\ d = "left" /\ x = p THEN c
                ELSE IF x = q /\ t.child[d][x] = arg THEN node ELSE t.child[d][x]
  <2>1. t'.child[d][x] = IF d = "left" /\ x = node THEN l ELSE m1.child[d][x]
    BY <1>13, <1>14, <1>15, <1>16, <1>17
  <2>2. m1.child[d][x] = IF p # arg /\ d = "right" /\ x = node THEN r
                         ELSE IF p # arg /\ d = "left" /\ x = p THEN c
                         ELSE IF x = q /\ t.child[d][x] = arg THEN node ELSE t.child[d][x]
    BY <1>7, <1>12
  <2> QED BY <1>2, <1>3, <2>1, <2>2 DEF c
<1>20. \A x \in Nodes \ {arg} : t'.black[x] = IF x = node THEN t.black[arg] ELSE t.black[x]
  <2>1. \A x \in Nodes : n4.black[x] = IF x = node THEN t.black[arg] ELSE t.black[x]
    BY <1>15, <1>16
  <2>2. \A x \in Nodes \ {arg} : t'.black[x] = n4.black[x] BY <1>17
  <2> QED BY <2>1, <2>2
<1>21. t' \in Tree /\ t'.root = IF q = NULL THEN node ELSE t.root
  BY <1>7, <1>12, <1>13, <1>14, <1>15, <1>16, <1>17
<1> QED BY <1>18, <1>19, <1>20, <1>21 DEF c, p, q, l, r

\* The splice takes node out of the tree, and then puts it in arg's place.
LEMMA SpliceRenames ==
  ASSUME LinkInv, EraseSplice
  PROVE  LET m == Cut(t, node, t.child["right"][node])
             M == members \ {node}
         IN  /\ Good(m, M) /\ Renames(m, t', M, arg, node)
             /\ arg \in M /\ node \in members
             /\ members' = (M \ {arg}) \cup {node}
<1> DEFINE c == t.child["right"][node]
           p == t.parent[node]
           q == t.parent[arg]
           l == t.child["left"][arg]
           r == t.child["right"][arg]
           m == Cut(t, node, c)
           M == members \ {node}
<1>1. /\ pc = "successor" /\ t.child["left"][node] = NULL /\ members' = members \ {arg}
  BY DEF EraseSplice
<1>2. "left" \in Sides /\ "right" \in Sides /\ \A d \in Sides : d = "left" \/ d = "right"
  BY DEF Sides
<1>3. Other("right") = "left" BY DEF Other
<1>4. /\ node \in members /\ arg \in members /\ node # arg /\ p \in members
      /\ l \in members /\ r \in members /\ l # node /\ l # r
      /\ p = arg <=> r = node
      /\ p = arg \/ t.child["left"][p] = node
      /\ q # node /\ q # p
      /\ \A x \in members : t.parent[x] = node => x # arg
  BY <1>1, <1>2, SuccessorAround
<1>5. /\ Good(t, members) /\ t \in Tree /\ members \subseteq Nodes /\ NULL \notin members
      /\ \A x \in members, d \in Sides :
           /\ t.child[d][x] \in members \cup {NULL}
           /\ t.child[d][x] # NULL => t.parent[t.child[d][x]] = x
      /\ \A x \in members : t.parent[x] \in members \cup {NULL} /\ Hangs(t, x)
  BY Around DEF LinkInv
<1>6. Good(m, M) BY <1>1, <1>2, <1>3, <1>4, <1>5, CutGood
<1>7. /\ m.root = t.root
      /\ \A x \in Nodes \ {node} : m.parent[x] = IF x = c THEN p ELSE t.parent[x]
      /\ \A x \in Nodes \ {node} : m.black[x] = t.black[x]
      /\ \A d \in Sides, x \in Nodes \ {node} :
           m.child[d][x] = IF x = p /\ t.child[d][x] = node THEN c ELSE t.child[d][x]
  BY <1>1, <1>2, <1>3, <1>4, <1>5, CutWrites
<1>8. /\ t' \in Tree
      /\ t'.root = IF q = NULL THEN node ELSE t.root
      /\ \A x \in Nodes \ {arg} :
           t'.parent[x] = IF x = l THEN node ELSE IF x = node THEN q
                          ELSE IF p # arg /\ x = r THEN node
                          ELSE IF p # arg /\ x = c THEN p ELSE t.parent[x]
      /\ \A x \in Nodes \ {arg} : t'.black[x] = IF x = node THEN t.black[arg] ELSE t.black[x]
      /\ \A d \in Sides, x \in Nodes \ {arg} :
           t'.child[d][x] =
             IF x = node THEN (IF d = "left" THEN l ELSE IF p = arg THEN c ELSE r)
             ELSE IF p # arg /\ d = "left" /\ x = p THEN c
             ELSE IF x = q /\ t.child[d][x] = arg THEN node ELSE t.child[d][x]
  BY SpliceWrites
<1>9. q = NULL <=> t.root = arg
  <2>1. t.root # NULL => t.parent[t.root] = NULL BY Around DEF LinkInv
  <2> QED BY <1>4, <1>5, <2>1 DEF Hangs
<1>10. c # NULL => c \in members /\ t.parent[c] = node BY <1>2, <1>4, <1>5
<1>11. c # arg /\ c # node /\ c # l /\ (c = NULL \/ c # r)
  <2>1. t.parent[l] = arg /\ t.parent[r] = arg BY <1>2, <1>4, <1>5
  <2>2. t.parent[node] # node BY <1>4, <1>5, NoLoop DEF Good
  <2> QED BY <1>4, <1>5, <1>10, <2>1, <2>2
<1>12. \A x \in members : t.parent[x] = arg <=> x = l \/ x = r
  <2>1. t.parent[l] = arg /\ t.parent[r] = arg BY <1>2, <1>4, <1>5
  <2>2. ASSUME NEW x \in members, t.parent[x] = arg PROVE x = l \/ x = r
    BY <1>2, <1>4, <1>5, <2>2 DEF Hangs
  <2> QED BY <2>1, <2>2
<1>13. \A d \in Sides, x \in members :
         /\ t.child[d][x] = arg => x = q
         /\ t.child[d][x] = node => x = p
  BY <1>4, <1>5
<1>14. p # arg => t.child["right"][p] # node
  <2>1. Hangs(t, node) /\ p # NULL BY <1>4, <1>5
  <2> QED BY <1>2, <1>4, <2>1, OtherSide DEF Hangs, Other
<1>15. t.child["left"][arg] = l /\ t.child["right"][arg] = r
       /\ t.parent[arg] = q /\ t.parent[node] = p
  OBVIOUS
<1> HIDE DEF c, p, q, l, r, m
<1>16. Renames(m, t', M, arg, node)
  <2>1. t'.root = IF m.root = arg THEN node ELSE m.root BY <1>7, <1>8, <1>9
  <2>2. ASSUME NEW x \in M \ {arg}
        PROVE  t'.parent[x] = IF m.parent[x] = arg THEN node ELSE m.parent[x]
    <3>1. m.parent[x] = (IF x = c THEN p ELSE t.parent[x]) /\ x \in Nodes /\ x # NULL
      BY <1>5, <1>7
    <3>2. t'.parent[x] = IF x = l THEN node
                         ELSE IF p # arg /\ x = r THEN node
                         ELSE IF p # arg /\ x = c THEN p ELSE t.parent[x]
      BY <1>8, <3>1
    <3>3. t.parent[x] = arg <=> x = l \/ x = r BY <1>12
    <3>4. x = c => t.parent[x] = node BY <1>10, <3>1
    <3> QED BY <1>4, <1>11, <3>1, <3>2, <3>3, <3>4
  <2>3. t'.parent[node] = m.parent[arg]
    BY <1>4, <1>5, <1>7, <1>8, <1>11, <1>15
  <2>4. ASSUME NEW d \in Sides, NEW x \in M \ {arg}
        PROVE  t'.child[d][x] = IF m.child[d][x] = arg THEN node ELSE m.child[d][x]
    <3>1. m.child[d][x] = (IF x = p /\ t.child[d][x] = node THEN c ELSE t.child[d][x])
      BY <1>5, <1>7
    <3>2. t'.child[d][x] = IF p # arg /\ d = "left" /\ x = p THEN c
                           ELSE IF x = q /\ t.child[d][x] = arg THEN node ELSE t.child[d][x]
      BY <1>5, <1>8
    <3>3. t.child[d][x] = arg => x = q BY <1>13
    <3>4. x = p => (t.child[d][x] = node <=> d = "left") BY <1>2, <1>4, <1>14
    <3> QED BY <1>4, <1>11, <3>1, <3>2, <3>3, <3>4
  <2>5. ASSUME NEW d \in Sides PROVE t'.child[d][node] = m.child[d][arg]
    <3>1. m.child[d][arg] = (IF arg = p /\ t.child[d][arg] = node THEN c ELSE t.child[d][arg])
      BY <1>4, <1>5, <1>7
    <3>2. t'.child[d][node] = IF d = "left" THEN l ELSE IF p = arg THEN c ELSE r
      BY <1>4, <1>5, <1>8
    <3> QED BY <1>2, <1>4, <1>15, <3>1, <3>2
  <2>6. t'.black[node] = m.black[arg] /\ \A x \in M \ {arg} : t'.black[x] = m.black[x]
    BY <1>4, <1>5, <1>7, <1>8
  <2> QED BY <1>8, <2>1, <2>2, <2>3, <2>4, <2>5, <2>6 DEF Renames
<1>17. arg \in M /\ (M \ {arg}) \cup {node} = members \ {arg} BY <1>4
<1> QED BY <1>1, <1>4, <1>6, <1>16, <1>17 DEF m, c

LEMMA SpliceGood == LinkInv /\ EraseSplice => Good(t, members)'
<1> SUFFICES ASSUME LinkInv, EraseSplice PROVE Good(t', members')
  OBVIOUS
<1> DEFINE m == Cut(t, node, t.child["right"][node])
           M == members \ {node}
<1>1. /\ Good(m, M) /\ Renames(m, t', M, arg, node)
      /\ arg \in M /\ node \in members
      /\ members' = (M \ {arg}) \cup {node}
  BY SpliceRenames
<1> HIDE DEF m
<1>2. node \in Nodes \ M BY <1>1 DEF LinkInv, Good
<1> QED BY <1>1, <1>2, RenameGood

LEMMA LinkEraseSplice == LinkInv /\ EraseSplice => LinkInv'
<1> SUFFICES ASSUME LinkInv, EraseSplice PROVE LinkInv'
  OBVIOUS
<1> DEFINE c == t.child["right"][node]
           p == t.parent[node]
<1>1. /\ pc = "successor" /\ members' = members \ {arg}
      /\ Recolor(t.black[node], c, IF p = arg THEN node ELSE p)
  BY DEF EraseSplice
<1>2. Good(t, members)' BY SpliceGood
<1>3. /\ node \in members /\ node # arg /\ p \in members
      /\ \A x \in members : t.parent[x] = node => x # arg
  BY <1>1, SuccessorAround
<1>4. members \subseteq Nodes /\ c \in members \cup {NULL} /\ (c # NULL => t.parent[c] = node)
  BY <1>3, Around DEF LinkInv, Sides
<1> HIDE DEF c, p
<1>5. CASE Return BY <1>2, <1>5, Returned
<1>6. CASE pc' = "erase_color" /\ Locals(c, IF p = arg THEN node ELSE p, NULL)
  <2>1. /\ pc' = "erase_color" /\ node' = c /\ arg' = NULL
        /\ parent' = IF p = arg THEN node ELSE p
    BY <1>6 DEF Locals
  <2> QED BY <1>1, <1>2, <1>3, <1>4, <2>1 DEF LinkInv, Control, PC, Pointer
<1> QED BY <1>1, <1>5, <1>6 DEF Recolor

LEMMA LinkStutter == LinkInv /\ UNCHANGED vars => LinkInv'
<1> SUFFICES ASSUME LinkInv, UNCHANGED vars PROVE LinkInv'
  OBVIOUS
<1>1. UNCHANGED <<t, members, pc, node, parent, arg>> BY DEF vars
<1>2. Good(t, members)' BY <1>1 DEF LinkInv
<1>3. ASSUME NEW P, LeftPath(P) PROVE LeftPath(P)' BY <1>1, <1>3 DEF LeftPath
<1>4. SideOf(parent)' = SideOf(parent) BY <1>1 DEF SideOf
<1> QED BY <1>1, <1>2, <1>3, <1>4 DEF LinkInv, Control

LEMMA LinkStep == LinkInv /\ [Next]_vars => LinkInv'
<1> SUFFICES ASSUME LinkInv, [Next]_vars PROVE LinkInv'
  OBVIOUS
<1>1. CASE Turn
  BY <1>1, LinkDescend, LinkReturns, LinkInsertLink, LinkPaints, LinkInsertRotates,
     LinkSearchEnd, LinkSuccessor, LinkEraseSplice, LinkEraseRotates DEF Turn
<1>2. CASE Caller
  BY <1>2, LinkReturns, LinkErase, LinkEraseInner, LinkCalls, LinkReplace DEF Caller
<1>3. CASE UNCHANGED vars BY <1>3, LinkStutter
<1> QED BY <1>1, <1>2, <1>3 DEF Next

LEMMA LinkAlways == Spec => []LinkInv
BY LinkInit, LinkStep, PTL DEF Spec

\* The pointers agree in every state of every call, also between two turns
\* of its loops: the members are closed under them, a child leads back to
\* its parent, and one pointer leads to each.
THEOREM LinkedHolds == Spec => []Linked
<1>1. LinkInv => Linked BY DEF LinkInv, Good, Shape, Hangs, Linked
<1> QED BY <1>1, LinkAlways, PTL

\* Every variable has its type, and the root has no parent: where
\* __rb_erase_color stops at the root, no parent is left to be short.
THEOREM TypeCorrect == Spec => []TypeOK
<1>1. LinkInv => TypeOK BY DEF LinkInv, Control, Good, Shape, TypeOK
<1> QED BY <1>1, LinkAlways, PTL

\* No node is its own ancestor: the loops that go up end.
THEOREM RootedHolds == Spec => []Rooted(t, members)
<1>1. LinkInv => Rooted(t, members) BY DEF LinkInv, Good
<1> QED BY <1>1, LinkAlways, PTL
=============================================================================
