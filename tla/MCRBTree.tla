----------------------------- MODULE MCRBTree -----------------------------
(***************************************************************************)
(* Instances of RBTree for TLC.                                            *)
(***************************************************************************)
EXTENDS RBTree

\* The nodes are numbers and are their own keys, but for node 0, whose key is
\* that of node 2.
MCKey == [n \in Nodes |-> IF n = 0 THEN 2 ELSE n]

CONSTANT Few  \* the nodes that are inserted in any order

\* All that can be done with a few nodes, and, so that trees are met whose
\* erasures climb more than one level, a larger tree that is built in order
\* and then taken down in any order (where only what is there is looked for).
Chosen(n) == members \cup {n} \subseteq Few \/ members = 1..n-1

MCCaller ==
  \/ Leave \/ Erase \/ EraseInner
  \/ \E n \in Nodes : \/ Chosen(n) /\ InsertCall(n)
                      \/ (n \in members \/ members \subseteq Few) /\ SearchCall(n)
                      \/ Replace(n)

\* What a node that is not in the tree still holds makes no difference to
\* the calls, nor to the properties of the run that takes this VIEW.
InTheTree ==
  LET own(f) == [n \in members |-> f[n]]
  IN  <<t.root, [s \in Sides |-> own(t.child[s])], own(t.parent), own(t.black),
        members, pc, node, parent, arg>>

MCSpec == Init /\ [][Turn \/ MCCaller]_vars /\ WF_vars(Turn)
=============================================================================
