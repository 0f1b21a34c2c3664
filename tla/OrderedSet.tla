----------------------------- MODULE OrderedSet -----------------------------
(***************************************************************************)
(* What a search tree promises: a set of nodes no two of which have the    *)
(* same key.  RBTree implements this specification.                        *)
(***************************************************************************)
CONSTANTS Nodes, Key

VARIABLE set

Init == set = {}

Keys(S) == {Key[n] : n \in S}

Insert(n) == Key[n] \notin Keys(set) /\ set' = set \cup {n}

Remove(n) == set' = set \ {n}

\* n takes the place of v, which has its key.
Replace(v, n) == Key[v] = Key[n] /\ set' = (set \ {v}) \cup {n}

Next ==
  \/ \E n \in Nodes : Insert(n)
  \/ \E n \in set : Remove(n)
  \/ \E v \in set : \E n \in Nodes \ set : Replace(v, n)

Spec == Init /\ [][Next]_set
=============================================================================
