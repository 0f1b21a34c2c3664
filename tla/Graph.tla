------------------------------- MODULE Graph -------------------------------
(***************************************************************************)
(* The graph of src/src/graph.c: nodes with names, the links of a node kept*)
(* twice, in a red-black tree ordered by the name they lead to (_rbt_links)*)
(* and in a list in the order they were built (node_queue), with a count   *)
(* (link_num); and a graph that keeps nodes in a red-black tree by name.   *)
(*                                                                         *)
(* One step is one call of the API; the library has no threads.  A tree is *)
(* the set of what it holds, searched by name (the balancing is not this   *)
(* module's subject); a list is a sequence of links, of which a call that  *)
(* reads or writes a neighbour's pointers needs the neighbour to be        *)
(* allocated.  link and weight of a link, and data of a node, which the    *)
(* library stores for its user and never reads, are left out.              *)
(*                                                                         *)
(* The user's side.  Calls are made on nodes that exist, and a node is     *)
(* deleted only when it is not in the graph (rm_node hands it to its       *)
(* callback after it is out, as test/test_graph.c does).                   *)
(***************************************************************************)
EXTENDS Integers, Sequences, FiniteSets, Functions

CONSTANTS
  Nodes,   \* struct graph_node_t, as many as there can be at a time
  Links,   \* struct graph_node_link_t, likewise
  Names,   \* node names
  NoName,  \* of what is not allocated
  Calls,   \* the calls the user makes, a subset of AllCalls
  NULL

AllCalls == {"create", "delete", "add", "rm", "free", "build", "build_double",
             "destory", "destory_double", "iterate"}

ASSUME ConstantsAssumption ==
  /\ NoName \notin Names
  /\ NULL \notin Links
  /\ Calls \subseteq AllCalls
  /\ IsFiniteSet(Nodes)

VARIABLES
  node_name,  \* the name of each allocated node
  mem,        \* the links: of each node, and the allocated ones
  node_root,  \* the nodes in the graph's tree
  node_num,
  call,       \* the last call
  ret         \* what it returned, 0 for those that return nothing

vars == <<node_name, mem, node_root, node_num, call, ret>>

\* `ok` becomes FALSE when freed memory is read or written; nothing is
\* claimed of the program any more.
Mem == [rbt_links : [Nodes -> SUBSET Links],
        node_queue : [Nodes -> Seq(Links)],
        link_num : [Nodes -> Nat],
        heap : SUBSET Links,
        link_name : [Links -> Names \cup {NoName}],
        ok : BOOLEAN]

Exists(n) == node_name[n] # NoName
Name(n) == node_name[n]

-----------------------------------------------------------------------------
(* The calls as functions of the links m *)

Answer(m, r) == [mem |-> m, ret |-> r]

\* __link_get: the links of n to the name x, at most one.
LinksTo(m, n, x) == {l \in m.rbt_links[n] : m.link_name[l] = x}

Release(m, L) ==
  [m EXCEPT !.heap = @ \ L,
            !.link_name = [l \in Links |-> IF l \in L THEN NoName ELSE @[l]]]

\* Faulty: the tree does not look whether the name is there.
BuildAnyway(m, s, d, l) ==
  IF Name(s) = Name(d) \/ l = NULL THEN Answer(m, -1)
  ELSE Answer([m EXCEPT !.heap = @ \cup {l},
                        !.link_name[l] = Name(d),
                        !.link_num[s] = @ + 1,
                        !.node_queue[s] = Append(@, l),
                        !.rbt_links[s] = @ \cup {l}], 0)

\* build_link, with l the link calloc returns.  A link to a name that is
\* there already is counted and listed all the same.
Build(m, s, d, l) ==
  IF Name(s) = Name(d) \/ l = NULL THEN Answer(m, -1)
  ELSE LET q == m.node_queue[s]
           new == LinksTo(m, s, Name(d)) = {}
       IN  Answer([m EXCEPT !.heap = @ \cup {l},
                            !.link_name[l] = Name(d),
                            !.link_num[s] = @ + 1,
                            !.node_queue[s] = Append(@, l),
                            !.rbt_links[s] = IF new THEN @ \cup {l} ELSE @,
                            !.ok = /\ q # <<>> => q[Len(q)] \in m.heap
                                   /\ \A n \in Nodes : l \notin Range(m.node_queue[n])],
                  IF new THEN 0 ELSE -1)

\* queue_del: the link at i leaves the list q.
Unlinked(q, i) == SubSeq(q, 1, i-1) \o SubSeq(q, i+1, Len(q))

\* Faulty: the count stays.
DestoryUncounted(m, s, l) ==
  LET q == m.node_queue[s]
      i == CHOOSE j \in 1..Len(q) : q[j] = l
  IN  Release([m EXCEPT !.rbt_links[s] = @ \ {l}, !.node_queue[s] = Unlinked(@, i)], {l})

\* Faulty: the link is freed and stays in the tree.
DestoryRooted(m, s, l) ==
  LET q == m.node_queue[s]
      i == CHOOSE j \in 1..Len(q) : q[j] = l
  IN  Release([m EXCEPT !.node_queue[s] = Unlinked(@, i), !.link_num[s] = @ - 1], {l})

\* destory_link, of the link l.
Destory(m, s, l) ==
  LET q == m.node_queue[s]
      i == CHOOSE j \in 1..Len(q) : q[j] = l
  IN  Release([m EXCEPT !.rbt_links[s] = @ \ {l},
                        !.node_queue[s] = Unlinked(@, i),
                        !.link_num[s] = @ - 1,
                        !.ok = \A j \in {i-1, i+1} \cap 1..Len(q) : q[j] \in m.heap],
              {l})

\* destory_double_link takes the links out of the trees only.
Uproot(m, s, l) == [m EXCEPT !.rbt_links[s] = @ \ {l}]

\* delete_node, of each node of N: the links of its tree, then the node.
Delete(m, N) ==
  [Release(m, UNION {m.rbt_links[n] : n \in N}) EXCEPT
     !.rbt_links = [n \in Nodes |-> IF n \in N THEN {} ELSE @[n]],
     !.node_queue = [n \in Nodes |-> IF n \in N THEN <<>> ELSE @[n]],
     !.link_num = [n \in Nodes |-> IF n \in N THEN 0 ELSE @[n]]]

Calloc(m) == (Links \ m.heap) \cup {NULL}

-----------------------------------------------------------------------------

Init ==
  /\ node_name = [n \in Nodes |-> NoName]
  /\ mem = [rbt_links |-> [n \in Nodes |-> {}], node_queue |-> [n \in Nodes |-> <<>>],
            link_num |-> [n \in Nodes |-> 0], heap |-> {},
            link_name |-> [l \in Links |-> NoName], ok |-> TRUE]
  /\ node_root = {} /\ node_num = 0 /\ call = <<>> /\ ret = 0

Call(c) == mem.ok /\ c \in Calls

Answers(c, r) == call' = c /\ ret' = r

\* A call on the links ends with the answer a, or goes wrong.
Return(c, a) ==
  /\ \/ a.mem.ok /\ mem' = a.mem /\ Answers(c, a.ret)
     \/ ~a.mem.ok /\ mem' = [mem EXCEPT !.ok = FALSE] /\ UNCHANGED <<call, ret>>
  /\ UNCHANGED <<node_name, node_root, node_num>>

CreateNode(n, x) ==
  /\ Call("create") /\ ~Exists(n)
  /\ node_name' = [node_name EXCEPT ![n] = x]
  /\ Answers(<<"create", n, x>>, 0)
  /\ UNCHANGED <<mem, node_root, node_num>>

\* The nodes of N are freed.
Freed(N) ==
  /\ mem' = Delete(mem, N)
  /\ node_name' = [n \in Nodes |-> IF n \in N THEN NoName ELSE node_name[n]]

DeleteNode(n) ==
  /\ Call("delete") /\ Exists(n) /\ n \notin node_root
  /\ Freed({n})
  /\ Answers(<<"delete", n>>, 0)
  /\ UNCHANGED <<node_root, node_num>>

\* __node_get: the nodes of the graph named x, at most one.
NodesNamed(x) == {n \in node_root : node_name[n] = x}

\* add_node: a name that is in the graph already is refused.
AddNode(n) ==
  /\ Call("add") /\ Exists(n)
  /\ IF NodesNamed(Name(n)) = {}
     THEN /\ node_root' = node_root \cup {n} /\ node_num' = node_num + 1
          /\ Answers(<<"add", n>>, 0)
     ELSE Answers(<<"add", n>>, -1) /\ UNCHANGED <<node_root, node_num>>
  /\ UNCHANGED <<node_name, mem>>

\* Faulty: the count goes down before the name is looked for.
RmNodeCountsFirst(x) ==
  /\ Call("rm")
  /\ node_num' = node_num - 1
  /\ \/ NodesNamed(x) = {} /\ Answers(<<"rm", x>>, -1) /\ UNCHANGED <<node_name, mem, node_root>>
     \/ \E n \in NodesNamed(x) :
          /\ node_root' = node_root \ {n} /\ Answers(<<"rm", x>>, 0)
          /\ Freed({n}) \/ UNCHANGED <<node_name, mem>>

\* rm_node, with a callback that frees the node or with none.
RmNode(x) ==
  /\ Call("rm")
  /\ \/ /\ NodesNamed(x) = {}
        /\ Answers(<<"rm", x>>, -1)
        /\ UNCHANGED <<node_name, mem, node_root, node_num>>
     \/ \E n \in NodesNamed(x) :
          /\ node_root' = node_root \ {n} /\ node_num' = node_num - 1
          /\ Answers(<<"rm", x>>, 0)
          /\ Freed({n}) \/ UNCHANGED <<node_name, mem>>

\* free: the graph with all its nodes.  The next one, of graph(), is empty.
FreeGraph ==
  /\ Call("free")
  /\ Freed(node_root)
  /\ node_root' = {} /\ node_num' = 0 /\ Answers(<<"free">>, 0)

BuildLink(s, d) ==
  /\ Call("build") /\ Exists(s) /\ Exists(d)
  /\ \E l \in Calloc(mem) : Return(<<"build", s, d>>, Build(mem, s, d, l))

\* The link back is built when the link there has been.
BuildDoubleLink(s, d) ==
  LET c == <<"build_double", s, d>>
  IN  /\ Call("build_double") /\ Exists(s) /\ Exists(d)
      /\ \E l \in Calloc(mem) :
           LET a == Build(mem, s, d, l)
           IN  IF a.mem.ok /\ a.ret = 0
               THEN \E k \in Calloc(a.mem) : Return(c, Build(a.mem, d, s, k))
               ELSE Return(c, a)

DestoryLink(s, d) ==
  LET c == <<"destory", s, d>>
      found == LinksTo(mem, s, Name(d))
  IN  /\ Call("destory") /\ Exists(s) /\ Exists(d)
      /\ \/ found = {} /\ Return(c, Answer(mem, -1))
         \/ \E l \in found : Return(c, Answer(Destory(mem, s, l), 0))

\* Faulty: the link back stays in its tree.
DestoryDoubleLinkOneWay(s, d) ==
  LET c == <<"destory_double", s, d>>
      found == LinksTo(mem, s, Name(d))
  IN  /\ Call("destory_double") /\ Exists(s) /\ Exists(d)
      /\ \/ found = {} /\ Return(c, Answer(mem, -1))
         \/ \E l \in found : Return(c, Answer(Uproot(mem, s, l), 0))

\* The link back may be missing: then the link there is out of its tree
\* already, and stays allocated.
DestoryDoubleLink(s, d) ==
  LET c == <<"destory_double", s, d>>
      found == LinksTo(mem, s, Name(d))
  IN  /\ Call("destory_double") /\ Exists(s) /\ Exists(d)
      /\ \/ found = {} /\ Return(c, Answer(mem, -1))
         \/ \E l \in found :
              LET m == Uproot(mem, s, l)
                  back == LinksTo(m, d, Name(s))
              IN  \/ back = {} /\ Return(c, Answer(m, -1))
                  \/ \E k \in back :
                       Return(c, Answer(Release(Uproot(m, d, k), {l, k}), 0))

\* links_iterate, over the first len links of the list.
LinksIterate(n, len) ==
  /\ Call("iterate") /\ Exists(n)
  /\ LET q == mem.node_queue[n]
         sound == \A i \in 1..Len(q) : i <= len => q[i] \in mem.heap
     IN  Return(<<"iterate", n>>, Answer([mem EXCEPT !.ok = sound], 0))

Next ==
  \/ \E n \in Nodes : \/ DeleteNode(n) \/ AddNode(n)
                      \/ \E x \in Names : CreateNode(n, x)
                      \/ \E len \in 0..Cardinality(Links) : LinksIterate(n, len)
  \/ \E s, d \in Nodes : \/ BuildLink(s, d) \/ BuildDoubleLink(s, d)
                         \/ DestoryLink(s, d) \/ DestoryDoubleLink(s, d)
  \/ (\E x \in Names : RmNode(x)) \/ FreeGraph

Spec == Init /\ [][Next]_vars

-----------------------------------------------------------------------------
(* Properties.  Where they are about links they are claimed as long as no  *)
(* freed memory has been used.                                             *)

\* Every variable has its type.
TypeOK ==
  /\ node_name \in [Nodes -> Names \cup {NoName}]
  /\ mem \in Mem
  /\ node_root \subseteq Nodes /\ node_num \in Nat /\ ret \in {0, -1}

\* A node's links are counted as they are listed: build_link, destory_link,
\* and destory_double_link, which does neither, keep the two together.
CountsList == \A n \in Nodes : mem.link_num[n] = Len(mem.node_queue[n])

\* A link is in one list, once, and a link that a tree finds is allocated,
\* and is in the list of the same node: destory_link unlinks it from there.
TreesListed ==
  /\ \A n \in Nodes : /\ IsInjective(mem.node_queue[n])
                      /\ mem.rbt_links[n] \subseteq Range(mem.node_queue[n]) \cap mem.heap
  /\ \A n, k \in Nodes :
       n # k => Range(mem.node_queue[n]) \cap Range(mem.node_queue[k]) = {}

\* The tree of a node finds one link for a name; the graph finds one node,
\* which exists, for a name, and counts the nodes it has.
OneForAName ==
  /\ \A n \in Nodes : \A l, k \in mem.rbt_links[n] :
       mem.link_name[l] = mem.link_name[k] => l = k
  /\ \A n, k \in node_root : node_name[n] = node_name[k] => n = k
  /\ \A n \in node_root : Exists(n)
  /\ node_num = Cardinality(node_root)

\* What the trees find of the nodes' links.
Edges(m) == [n \in Nodes |-> {m.link_name[l] : l \in m.rbt_links[n]}]

\* The graph implements Digraph: what the trees find of a node's links is
\* the set of its edges, and the calls answer as they should.
D == INSTANCE Digraph WITH
       name <- node_name, edges <- Edges(mem), members <- node_root
DigraphSpec == D!Spec

\* What the list of a node leads to is allocated: a link that is destroyed
\* leaves the list links_iterate walks, as graph.h says, "destory the link
\* between nodes and noded".
ListsAllocated == \A n \in Nodes : Range(mem.node_queue[n]) \subseteq mem.heap
=============================================================================
