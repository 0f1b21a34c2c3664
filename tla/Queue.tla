------------------------------- MODULE Queue -------------------------------
(***************************************************************************)
(* The circular lists of src/src/queue.h, pointer by pointer, as far as    *)
(* the thread pool uses them.  A list is a record of two functions, next   *)
(* and prev, on the nodes and the head they hang on.                       *)
(***************************************************************************)
EXTENDS Integers, Sequences

CONSTANTS
  Nodes,
  Root,   \* the list_head that heads the list: no node
  Nil     \* a null pointer

Links == Nodes \cup {Root}
Lists == [next : [Links -> Links \cup {Nil}], prev : [Links -> Links \cup {Nil}]]

\* Memory of zero bytes.
Zeroed == [next |-> [x \in Links |-> Nil], prev |-> [x \in Links |-> Nil]]

\* init_queue_head
InitHead(l) == [next |-> [l.next EXCEPT ![Root] = Root],
                prev |-> [l.prev EXCEPT ![Root] = Root]]

\* Faulty: the neighbour behind is not told of the new node.
ListAddOneWay(l, newp, prev, next) ==
  [next |-> [l.next EXCEPT ![newp] = next, ![prev] = newp],
   prev |-> [l.prev EXCEPT ![newp] = prev]]

\* __list_add: newp goes between prev and next.
ListAdd(l, newp, prev, next) ==
  [next |-> [l.next EXCEPT ![newp] = next, ![prev] = newp],
   prev |-> [l.prev EXCEPT ![next] = newp, ![newp] = prev]]

\* queue_add_tail, list_add_tail
AddTail(l, newp) == ListAdd(l, newp, l.prev[Root], Root)

\* queue_empty, list_empty
Empty(l) == l.next[Root] = Root

\* queue_get_first
GetFirst(l) == IF Empty(l) THEN Nil ELSE l.next[Root]

\* __list_del and list_del: the neighbours are joined, the pointers of the
\* entry are set to 0.
ListDel(l, entry) ==
  LET p == l.prev[entry]
      n == l.next[entry]
  IN  [next |-> [l.next EXCEPT ![p] = n, ![entry] = Nil],
       prev |-> [l.prev EXCEPT ![n] = p, ![entry] = Nil]]

\* queue_del_first
DelFirst(l) == IF Empty(l) THEN l ELSE ListDel(l, l.next[Root])

-----------------------------------------------------------------------------

\* The i-th node of s, and the root in front of the first and behind the last.
Nth(s, i) == IF i \in 1..Len(s) THEN s[i] ELSE Root

\* l lists s: next leads from the root through s and back, prev the other way.
Chains(l, s) ==
  \A i \in 0..Len(s) : /\ l.next[Nth(s, i)] = Nth(s, i + 1)
                       /\ l.prev[Nth(s, i + 1)] = Nth(s, i)
=============================================================================
