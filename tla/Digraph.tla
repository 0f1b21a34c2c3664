------------------------------ MODULE Digraph ------------------------------
(***************************************************************************)
(* What graph.h promises: named nodes, for each node the set of names its  *)
(* links lead to, and a graph in which every name occurs once.  A call     *)
(* answers 0 when it has done what it is for and -1 when it has not; a call*)
(* for one link then changes nothing, a call for both directions may have  *)
(* done the first.  Memory may run out in every call that needs some.      *)
(* Graph implements this specification.                                    *)
(***************************************************************************)
EXTENDS Integers

CONSTANTS Nodes, Names, NoName

VARIABLES
  name,     \* the name of each node, NoName when there is no such node
  edges,    \* the names the links of each node lead to
  members,  \* the nodes of the graph
  call,     \* the last call
  ret       \* its answer

vars == <<name, edges, members, call, ret>>

Init ==
  /\ name = [n \in Nodes |-> NoName]
  /\ edges = [n \in Nodes |-> {}]
  /\ members = {} /\ call = <<>> /\ ret = 0

Exists(n) == name[n] # NoName

Answers(c, r) == call' = c /\ ret' = r

Refuses(c) == Answers(c, -1) /\ UNCHANGED <<name, edges, members>>

\* The edges become E, and the call answers r.
Becomes(E, c, r) == edges' = E /\ Answers(c, r) /\ UNCHANGED <<name, members>>

\* The nodes of N and their links are gone; links to them stay.
Discarded(N) ==
  /\ name' = [n \in Nodes |-> IF n \in N THEN NoName ELSE name[n]]
  /\ edges' = [n \in Nodes |-> IF n \in N THEN {} ELSE edges[n]]

Create(n, x) ==
  /\ ~Exists(n)
  /\ name' = [name EXCEPT ![n] = x]
  /\ Answers(<<"create", n, x>>, 0)
  /\ UNCHANGED <<edges, members>>

Delete(n) ==
  /\ Exists(n) /\ n \notin members
  /\ Discarded({n})
  /\ Answers(<<"delete", n>>, 0)
  /\ UNCHANGED members

\* s can be given a link to d when the edges are E.
Free(E, s, d) == name[s] # name[d] /\ name[d] \notin E[s]
With(E, s, d) == [E EXCEPT ![s] = @ \cup {name[d]}]
Without(E, s, d) == [E EXCEPT ![s] = @ \ {name[d]}]

Build(s, d) ==
  LET c == <<"build", s, d>>
  IN  /\ Exists(s) /\ Exists(d)
      /\ \/ Refuses(c)
         \/ Free(edges, s, d) /\ Becomes(With(edges, s, d), c, 0)

BuildDouble(s, d) ==
  LET c == <<"build_double", s, d>>
      E == With(edges, s, d)
  IN  /\ Exists(s) /\ Exists(d)
      /\ \/ Refuses(c)
         \/ Free(edges, s, d) /\ Becomes(E, c, -1)
         \/ Free(edges, s, d) /\ Free(E, d, s) /\ Becomes(With(E, d, s), c, 0)

Destroy(s, d) ==
  LET c == <<"destory", s, d>>
  IN  /\ Exists(s) /\ Exists(d)
      /\ \/ name[d] \in edges[s] /\ Becomes(Without(edges, s, d), c, 0)
         \/ name[d] \notin edges[s] /\ Refuses(c)

DestroyDouble(s, d) ==
  LET c == <<"destory_double", s, d>>
      E == Without(edges, s, d)
  IN  /\ Exists(s) /\ Exists(d)
      /\ \/ name[d] \notin edges[s] /\ Refuses(c)
         \/ name[d] \in edges[s] /\ name[s] \notin E[d] /\ Becomes(E, c, -1)
         \/ name[d] \in edges[s] /\ name[s] \in E[d] /\ Becomes(Without(E, d, s), c, 0)

Add(n) ==
  LET c == <<"add", n>>
  IN  /\ Exists(n)
      /\ \/ \E k \in members : name[k] = name[n] /\ Refuses(c)
         \/ /\ \A k \in members : name[k] # name[n]
            /\ members' = members \cup {n} /\ Answers(c, 0)
            /\ UNCHANGED <<name, edges>>

\* The node named x leaves the graph, and may be discarded with it.
Remove(x) ==
  LET c == <<"rm", x>>
  IN  \/ (\A k \in members : name[k] # x) /\ Refuses(c)
      \/ \E k \in members :
           /\ name[k] = x
           /\ members' = members \ {k} /\ Answers(c, 0)
           /\ Discarded({k}) \/ UNCHANGED <<name, edges>>

\* The graph and its nodes are discarded; a new graph starts empty.
Clear ==
  /\ Discarded(members)
  /\ members' = {} /\ Answers(<<"free">>, 0)

\* A walk over the links of n.
Walk(n) ==
  /\ Exists(n)
  /\ Answers(<<"iterate", n>>, 0)
  /\ UNCHANGED <<name, edges, members>>

Next ==
  \/ \E n \in Nodes : \/ Delete(n) \/ Add(n) \/ Walk(n)
                      \/ \E x \in Names : Create(n, x)
  \/ \E s, d \in Nodes : \/ Build(s, d) \/ BuildDouble(s, d)
                         \/ Destroy(s, d) \/ DestroyDouble(s, d)
  \/ (\E x \in Names : Remove(x)) \/ Clear

Spec == Init /\ [][Next]_vars
=============================================================================
