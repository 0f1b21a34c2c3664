------------------------------- MODULE RBTree -------------------------------
(***************************************************************************)
(* The red-black tree of src/src/rbtree.c, which the graph and the         *)
(* configuration search by name: nodes with a parent, two children and a   *)
(* colour, NULL for a child that is missing.                               *)
(*                                                                         *)
(* One step is one turn of a loop: of the descent to a key, of the walk to *)
(* the successor, of rb_insert_color and of __rb_erase_color; a turn with  *)
(* two or three rotations takes a step for each, after which the tests of  *)
(* the loop lead to the next.  The code writes each turn twice, for left   *)
(* and for right; here the side is a parameter.  A turn that would go      *)
(* through NULL has no step: the call then never returns.                  *)
(*                                                                         *)
(* The caller's side.  A node is inserted or put in another's place when   *)
(* it is not in the tree.  A new node is zeroed (calloc); one that leaves  *)
(* the tree keeps the pointers and the colour it had.                      *)
(***************************************************************************)
EXTENDS Naturals, Sequences, FiniteSets, Functions

CONSTANTS
  Nodes,  \* struct rb_node, as many as there can be
  Key,    \* the key of each, in the order of the caller's comparison
  NULL

ASSUME ConstantsAssumption ==
  /\ NULL \notin Nodes
  /\ Key \in [Nodes -> Nat]
  /\ IsFiniteSet(Nodes)

VARIABLES
  t,        \* the tree
  members,  \* the nodes the caller has in it
  pc,       \* where the call is
  node,     \* the local variables of the call: node, parent, and the node
  parent,   \* to be inserted, the one to be erased or one with the key
  arg       \* that is looked for

vars == <<t, members, pc, node, parent, arg>>

Sides == {"left", "right"}
Pointer == Nodes \cup {NULL}
PC == {"idle", "insert", "insert_color", "search", "found", "successor",
       "erase_color"}
Tree == [root : Pointer, child : [Sides -> [Nodes -> Pointer]],
         parent : [Nodes -> Pointer], black : [Nodes -> BOOLEAN]]

Other(s) == IF s = "left" THEN "right" ELSE "left"

\* The colour tests read `!p || rb_is_black(p)`.
Black(m, p) == p # NULL => m.black[p]
Red(m, p) == p # NULL /\ ~m.black[p]

\* rb_set_parent of a child that may be missing.
SetParent(m, c, p) == IF c = NULL THEN m ELSE [m EXCEPT !.parent[c] = p]

Paint(m, blacks, reds) ==
  [m EXCEPT !.black = [n \in Nodes |-> (n \in blacks \/ @[n]) /\ n \notin reds]]

\* What led from p to old, p's child on the side s if it is old, leads to new.
Hang(m, s, p, old, new) ==
  IF p = NULL THEN [m EXCEPT !.root = new]
  ELSE [m EXCEPT !.child[IF m.child[s][p] = old THEN s ELSE Other(s)][p] = new]

\* Faulty: the node between the two keeps its parent.
RotateKeepsParent(m, s, n) ==
  LET c == m.child[Other(s)][n]
      m1 == [m EXCEPT !.child[Other(s)][n] = m.child[s][c],
                      !.child[s][c] = n, !.parent[c] = m.parent[n]]
  IN  [Hang(m1, s, m.parent[n], n, c) EXCEPT !.parent[n] = c]

\* Faulty: the pointer that led to n is not moved when n is the root.
RotateBelowRoot(m, s, n) ==
  LET c == m.child[Other(s)][n]
      b == m.child[s][c]
      m1 == SetParent([m EXCEPT !.child[Other(s)][n] = b], b, n)
      m2 == [m1 EXCEPT !.child[s][c] = n, !.parent[c] = m.parent[n]]
  IN  [IF m.parent[n] = NULL THEN m2 ELSE Hang(m2, s, m.parent[n], n, c)
         EXCEPT !.parent[n] = c]

\* __rb_rotate_left and __rb_rotate_right: the child of n on the other side
\* takes n's place, and n goes down on the side s.
Rotate(m, s, n) ==
  LET c == m.child[Other(s)][n]
      b == m.child[s][c]
      m1 == SetParent([m EXCEPT !.child[Other(s)][n] = b], b, n)
      m2 == [m1 EXCEPT !.child[s][c] = n, !.parent[c] = m.parent[n]]
  IN  [Hang(m2, s, m.parent[n], n, c) EXCEPT !.parent[n] = c]

\* The fields that rb_link_node writes of n: a red leaf under p.
Leaf(m, n, p) ==
  [m EXCEPT !.child = [s \in Sides |-> [@[s] EXCEPT ![n] = NULL]],
            !.parent[n] = p, !.black[n] = FALSE]

-----------------------------------------------------------------------------

Init ==
  /\ t = [root |-> NULL, child |-> [s \in Sides |-> [n \in Nodes |-> NULL]],
          parent |-> [n \in Nodes |-> NULL], black |-> [n \in Nodes |-> FALSE]]
  /\ members = {}
  /\ pc = "idle" /\ node = NULL /\ parent = NULL /\ arg = NULL

Locals(n, p, a) == node' = n /\ parent' = p /\ arg' = a
Return == pc' = "idle" /\ Locals(NULL, NULL, NULL)

\* The side of p the key of arg belongs to.
SideOf(p) == IF Key[arg] < Key[p] THEN "left" ELSE "right"

\* The descent of rb_tree_insert and rb_tree_search (and of the callers that
\* have their own): one turn of `while(*n)`.
Call(p, a) ==
  /\ pc = "idle"
  /\ pc' = p /\ Locals(t.root, NULL, a)
  /\ UNCHANGED <<t, members>>

InsertCall(n) == n \notin members /\ Call("insert", n)

SearchCall(n) == Call("search", n)

Descend ==
  /\ pc \in {"insert", "search"} /\ node # NULL /\ Key[node] # Key[arg]
  /\ Locals(t.child[SideOf(node)][node], node, arg)
  /\ UNCHANGED <<t, members, pc>>

\* Faulty: a node with the key of another is put to its right.
InsertTwice ==
  /\ pc = "insert" /\ node # NULL /\ Key[node] = Key[arg]
  /\ Locals(t.child["right"][node], node, arg)
  /\ UNCHANGED <<t, members, pc>>

\* The key is there already: 0 is returned.
InsertRefused ==
  /\ pc = "insert" /\ node # NULL /\ Key[node] = Key[arg]
  /\ Return
  /\ UNCHANGED <<t, members>>

\* rb_link_node.
InsertLink ==
  /\ pc = "insert" /\ node = NULL
  /\ LET m == Leaf(t, arg, parent)
     IN  t' = IF parent = NULL THEN [m EXCEPT !.root = arg]
              ELSE [m EXCEPT !.child[SideOf(parent)][parent] = arg]
  /\ members' = members \cup {arg}
  /\ pc' = "insert_color" /\ Locals(arg, parent, arg)

-----------------------------------------------------------------------------
(* rb_insert_color *)

\* The loop ends at the root or under a black parent.
InsertDone ==
  /\ pc = "insert_color" /\ Black(t, t.parent[node])
  /\ t' = Paint(t, {t.root}, {})
  /\ Return
  /\ UNCHANGED members

\* The side of the grandparent g on which the parent p is.
SideUnder(m, g, p) == IF m.child["left"][g] = p THEN "left" ELSE "right"

\* node is red under a red parent p, and the grandparent is g.
RedRed(p, g) == pc = "insert_color" /\ p # NULL /\ ~t.black[p] /\ g # NULL

\* A red uncle: recolour and go on from the grandparent.
InsertRecolor ==
  LET p == t.parent[node]
      g == t.parent[p]
      uncle == t.child[Other(SideUnder(t, g, p))][g]
  IN  /\ RedRed(p, g) /\ Red(t, uncle)
      /\ t' = Paint(t, {uncle, p}, {g})
      /\ Locals(g, p, arg)
      /\ UNCHANGED <<members, pc>>

\* A black uncle, and node is on its side: node changes places with p.
InsertRotateInner ==
  LET p == t.parent[node]
      g == t.parent[p]
      s == SideUnder(t, g, p)
  IN  /\ RedRed(p, g) /\ Black(t, t.child[Other(s)][g])
      /\ t.child[Other(s)][p] = node
      /\ t' = Rotate(t, s, p)
      /\ Locals(p, node, arg)
      /\ UNCHANGED <<members, pc>>

\* A black uncle, and node is on the far side: the grandparent goes down on
\* the side of the uncle.
InsertRotate ==
  LET p == t.parent[node]
      g == t.parent[p]
      s == SideUnder(t, g, p)
  IN  /\ RedRed(p, g) /\ Black(t, t.child[Other(s)][g])
      /\ t.child[Other(s)][p] # node
      /\ t' = Rotate(Paint(t, {p}, {g}), Other(s), g)
      /\ Locals(node, p, arg)
      /\ UNCHANGED <<members, pc>>

-----------------------------------------------------------------------------
(* rb_tree_search, and what the caller does with the answer *)

\* Faulty: the last node on the way is taken for the answer.
SearchEndNear ==
  /\ pc = "search"
  /\ \/ node # NULL /\ Key[node] = Key[arg] /\ UNCHANGED node
     \/ node = NULL /\ node' = parent
  /\ pc' = "found"
  /\ UNCHANGED <<t, members, parent, arg>>

SearchEnd ==
  /\ pc = "search" /\ (node # NULL => Key[node] = Key[arg])
  /\ pc' = "found"
  /\ UNCHANGED <<t, members, node, parent, arg>>

\* It wanted no more, or there is nothing to erase.
Leave == pc = "found" /\ Return /\ UNCHANGED <<t, members>>

\* rb_replace_node: n takes the place of the node that was found.
Replace(n) ==
  /\ pc = "found" /\ node # NULL /\ n \notin members /\ Key[n] = Key[node]
  /\ LET m1 == Hang(t, "left", t.parent[node], node, n)
         m2 == SetParent(m1, t.child["left"][node], n)
         m3 == SetParent(m2, t.child["right"][node], n)
     IN  t' = [m3 EXCEPT !.child = [s \in Sides |-> [@[s] EXCEPT ![n] = t.child[s][node]]],
                         !.parent[n] = t.parent[node], !.black[n] = t.black[node]]
  /\ members' = (members \ {node}) \cup {n}
  /\ Return

-----------------------------------------------------------------------------
(* rb_erase *)

\* The end of rb_erase: a black node that is missing is made up for.
Recolor(black, c, p) ==
  IF black THEN pc' = "erase_color" /\ Locals(c, p, NULL) ELSE Return

\* A node with one child at most: the child takes its place.
Erase ==
  LET s == IF t.child["left"][node] = NULL THEN "right" ELSE "left"
      c == t.child[s][node]
      p == t.parent[node]
  IN  /\ pc = "found" /\ node # NULL /\ t.child[Other(s)][node] = NULL
      /\ t' = Hang(SetParent(t, c, p), "left", p, node, c)
      /\ members' = members \ {node}
      /\ Recolor(t.black[node], c, p)

\* Otherwise its successor does: to the right, then to the left.
EraseInner ==
  /\ pc = "found" /\ node # NULL
  /\ \A s \in Sides : t.child[s][node] # NULL
  /\ pc' = "successor" /\ Locals(t.child["right"][node], NULL, node)
  /\ UNCHANGED <<t, members>>

\* Faulty: `while ((left = node->rb_left) != NULL);`.
SuccessorSpins ==
  /\ pc = "successor" /\ t.child["left"][node] # NULL
  /\ UNCHANGED vars

\* One turn of `while ((left = node->rb_left) != NULL)`.
Successor ==
  /\ pc = "successor" /\ t.child["left"][node] # NULL
  /\ Locals(t.child["left"][node], NULL, arg)
  /\ UNCHANGED <<t, members, pc>>

\* The successor leaves its place to its child and takes that of arg, with
\* arg's colour.
EraseSplice ==
  LET c == t.child["right"][node]
      p == t.parent[node]
      m == Hang(t, "left", t.parent[arg], arg, node)
      m1 == IF p = arg THEN m
            ELSE [SetParent(m, c, p) EXCEPT
                    !.child["left"][p] = c,
                    !.child["right"][node] = t.child["right"][arg],
                    !.parent[t.child["right"][arg]] = node]
  IN  /\ pc = "successor" /\ t.child["left"][node] = NULL
      /\ t' = [m1 EXCEPT !.parent[node] = t.parent[arg],
                         !.parent[t.child["left"][arg]] = node,
                         !.black[node] = t.black[arg],
                         !.child["left"][node] = t.child["left"][arg]]
      /\ members' = members \ {arg}
      /\ Recolor(t.black[node], c, IF p = arg THEN node ELSE p)

-----------------------------------------------------------------------------
(* __rb_erase_color: what is under node has one black node too few. *)

EraseDone ==
  /\ pc = "erase_color" /\ (Red(t, node) \/ node = t.root)
  /\ t' = Paint(t, {node}, {})
  /\ Return
  /\ UNCHANGED members

\* other, the sibling of node, is there.
Short(other) ==
  /\ pc = "erase_color" /\ Black(t, node) /\ node # t.root
  /\ parent # NULL /\ other # NULL

SideOfNode == SideUnder(t, parent, node)
Sibling == t.child[Other(SideOfNode)][parent]

\* A red sibling is rotated above parent, and the new one is black.
EraseRedSibling ==
  /\ Short(Sibling) /\ Red(t, Sibling)
  /\ t' = Rotate(Paint(t, {Sibling}, {parent}), SideOfNode, parent)
  /\ UNCHANGED <<members, pc, node, parent, arg>>

Childless(other) == \A s \in Sides : Black(t, t.child[s][other])

\* Faulty: it goes on with the parent before the sibling is painted.
EraseUpUnpainted ==
  /\ Short(Sibling) /\ Black(t, Sibling) /\ Childless(Sibling)
  /\ Locals(parent, t.parent[parent], NULL)
  /\ UNCHANGED <<t, members, pc>>

\* The sibling has no red child: it turns red, and parent is short now.
EraseUp ==
  /\ Short(Sibling) /\ Black(t, Sibling) /\ Childless(Sibling)
  /\ t' = Paint(t, {}, {Sibling})
  /\ Locals(parent, t.parent[parent], NULL)
  /\ UNCHANGED <<members, pc>>

\* Its near child alone is red: it is rotated above the sibling.
EraseRedNear ==
  LET s == SideOfNode
  IN  /\ Short(Sibling) /\ Black(t, Sibling) /\ ~Childless(Sibling)
      /\ Black(t, t.child[Other(s)][Sibling])
      /\ t' = Rotate(Paint(t, {t.child[s][Sibling]}, {Sibling}), Other(s), Sibling)
      /\ UNCHANGED <<members, pc, node, parent, arg>>

\* Its far child is red: the sibling takes the place and the colour of
\* parent, which goes down on the side of node, and the loop ends.
EraseRotate ==
  LET s == SideOfNode
      far == t.child[Other(s)][Sibling]
      m == Paint([t EXCEPT !.black[Sibling] = t.black[parent]], {parent, far}, {})
      m1 == Rotate(m, s, parent)
  IN  /\ Short(Sibling) /\ Black(t, Sibling) /\ Red(t, far)
      /\ t' = Paint(m1, {m1.root}, {})
      /\ Return
      /\ UNCHANGED members

-----------------------------------------------------------------------------
(* rb_first, rb_last, rb_next and rb_prev, which change nothing. *)

\* The last node from p on, going to the side s.
Furthest(s, p) ==
  LET go[d \in 0..Cardinality(Nodes)] == [q \in Pointer |->
        IF d = 0 \/ q = NULL \/ t.child[s][q] = NULL THEN q
        ELSE go[d-1][t.child[s][q]]]
  IN  go[Cardinality(Nodes)][p]

\* Faulty: only one step up.
AscendOnce(s, n) ==
  LET p == t.parent[n] IN IF p = NULL \/ t.child[s][p] # n THEN p ELSE t.parent[p]

\* The first parent, from n up, that is reached from the other side than s.
Ascend(s, n) ==
  LET go[d \in 0..Cardinality(Nodes)] == [q \in Nodes |->
        LET p == t.parent[q]
        IN  IF d = 0 \/ p = NULL \/ t.child[s][p] # q THEN p ELSE go[d-1][p]]
  IN  go[Cardinality(Nodes)][n]

\* rb_next (s is "right") and rb_prev (s is "left").
Neighbour(s, n) ==
  IF t.child[s][n] # NULL THEN Furthest(Other(s), t.child[s][n]) ELSE Ascend(s, n)

-----------------------------------------------------------------------------
(* The walks of src/src/graph.c over its trees of nodes and of links: one    *)
(* frees what it visits, the others call back.  They change nothing before. *)

\* Faulty: a node is visited, and may be freed, before its children are read.
VisitParentFirst(start, deep) ==
  LET visit[d \in 0..deep] == [p \in Pointer |->
        IF d = 0 \/ p = NULL THEN <<>>
        ELSE <<p>> \o visit[d-1][t.child["left"][p]] \o visit[d-1][t.child["right"][p]]]
  IN  visit[deep][start]

\* What is visited of the tree under start, at most deep levels of it.
Visit(start, deep) ==
  LET visit[d \in 0..deep] == [p \in Pointer |->
        IF d = 0 \/ p = NULL THEN <<>>
        ELSE visit[d-1][t.child["left"][p]] \o visit[d-1][t.child["right"][p]] \o <<p>>]
  IN  visit[deep][start]

\* iterate_graph_nodes, which looks for a node with the name of start, and
\* then walks from start.
Iterate(start, deep) ==
  IF \E n \in members : Key[n] = Key[start] THEN Visit(start, deep) ELSE <<>>

-----------------------------------------------------------------------------

Turn ==
  \/ Descend \/ InsertRefused \/ InsertLink
  \/ InsertDone \/ InsertRecolor \/ InsertRotateInner \/ InsertRotate
  \/ SearchEnd \/ Successor \/ EraseSplice
  \/ EraseDone \/ EraseRedSibling \/ EraseUp \/ EraseRedNear \/ EraseRotate

\* What the caller decides.
Caller ==
  \/ Leave \/ Erase \/ EraseInner
  \/ \E n \in Nodes : InsertCall(n) \/ SearchCall(n) \/ Replace(n)

Next == Turn \/ Caller

Spec == Init /\ [][Next]_vars

\* A call goes on until it returns.
FairSpec == Spec /\ WF_vars(Turn)

-----------------------------------------------------------------------------
(* Properties *)

\* Every variable has its type; the root has no parent.
TypeOK ==
  /\ t \in Tree /\ members \subseteq Nodes
  /\ pc \in PC /\ node \in Pointer /\ parent \in Pointer /\ arg \in Pointer
  /\ t.root # NULL => t.parent[t.root] = NULL

\* The pointers agree in every state, also between two turns: the members
\* are closed under them, a child leads back to its parent, and a parent, or
\* the root, leads to the node by one pointer.
Linked ==
  /\ t.root \in members \cup {NULL}
  /\ \A n \in members :
       /\ \A s \in Sides : LET c == t.child[s][n]
                          IN  c # NULL => c \in members /\ t.parent[c] = n
       /\ IF t.parent[n] = NULL THEN t.root = n
          ELSE /\ t.parent[n] \in members
               /\ \E s \in Sides : /\ t.child[s][t.parent[n]] = n
                                  /\ t.child[Other(s)][t.parent[n]] # n

\* The nodes under p from left to right, where p is at most d levels deep.
InOrder ==
  LET walk[d \in 0..Cardinality(Nodes)] == [p \in Pointer |->
        IF d = 0 \/ p = NULL THEN <<>>
        ELSE walk[d-1][t.child["left"][p]] \o <<p>> \o walk[d-1][t.child["right"][p]]]
  IN  walk[Cardinality(Nodes)][t.root]

Reached == Range(InOrder)

\* In every state, also between two turns, the tree leads to what the caller
\* has in it, in the order of the keys: rotations and the move of a successor
\* lose nothing, double nothing and keep the order searches rely on.
Ordered ==
  LET w == InOrder
  IN  /\ Range(w) = members
      /\ \A i \in 1..Len(w)-1 : Key[w[i]] < Key[w[i+1]]

\* The black nodes from n up to the root.
BlackAbove ==
  LET up[d \in 0..Cardinality(Nodes)] == [p \in Pointer |->
        IF d = 0 \/ p = NULL THEN 0
        ELSE up[d-1][t.parent[p]] + (IF t.black[p] THEN 1 ELSE 0)]
  IN  [n \in members |-> up[Cardinality(Nodes)][n]]

\* When a call returns the tree is balanced: the root is black, no red node
\* has a red child, and all the ways from the root to a missing child pass
\* the same number of black nodes.
Balanced ==
  pc = "idle" =>
    /\ Black(t, t.root)
    /\ \A n \in members : ~t.black[n] => \A s \in Sides : Black(t, t.child[s][n])
    /\ LET ends == {n \in members : \E s \in Sides : t.child[s][n] = NULL}
       IN  \A n, k \in ends : BlackAbove[n] = BlackAbove[k]

\* A search finds a node with the key exactly when the tree has one.
Found ==
  pc = "found" =>
    IF node = NULL THEN \A n \in members : Key[n] # Key[arg]
                   ELSE node \in members /\ Key[node] = Key[arg]

\* rb_first and rb_next visit the nodes in the order of their keys, rb_last
\* and rb_prev in the reverse order, and each ends with NULL.
WalksInOrder ==
  pc = "idle" /\ members # {} =>
    LET w == InOrder
        at(i) == IF i \in DOMAIN w THEN w[i] ELSE NULL
    IN  /\ Furthest("left", t.root) = w[1] /\ Furthest("right", t.root) = w[Len(w)]
        /\ \A i \in DOMAIN w : /\ Neighbour("right", w[i]) = at(i+1)
                              /\ Neighbour("left", w[i]) = at(i-1)

\* The members less than deep levels below start, by the parents.
Below(start, deep) ==
  LET below[d \in 0..deep] ==
        IF d = 0 THEN {}
        ELSE LET above == below[d-1]
             IN  {start} \cup {n \in members : t.parent[n] \in above}
  IN  below[deep]

\* A walk from a member visits what is less than deep levels below it, each
\* node once and after its children, so that the visit may free it; from the
\* root it visits, and frees, all members.
Iterates ==
  pc = "idle" =>
    /\ Range(Visit(t.root, Cardinality(Nodes))) = members
    /\ \A start \in members, deep \in 0..Cardinality(Nodes) :
         LET w == Iterate(start, deep)
         IN  /\ IsInjective(w)
             /\ \A i \in DOMAIN w : \A j \in 1..i : t.parent[w[i]] # w[j]
             /\ Range(w) = Below(start, deep)

\* The tree implements OrderedSet.
Set == INSTANCE OrderedSet WITH set <- Reached
SetSpec == Set!Spec

\* Every call returns: the loops end, and none of them reads a missing
\* sibling or grandparent.
CallEnds == pc \notin {"idle", "found"} ~> pc \in {"idle", "found"}
=============================================================================
