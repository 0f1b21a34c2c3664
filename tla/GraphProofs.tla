---------------------------- MODULE GraphProofs ----------------------------
(***************************************************************************)
(* Proofs about Graph, for any nodes, links and names: the invariants the  *)
(* runs check, and that Graph implements Digraph.                          *)
(*                                                                         *)
(* The invariants of the links are stated of any links m (Good), so that   *)
(* the calls can be followed operation by operation: build_double_link is  *)
(* two Builds, destory_double_link two Uproots and a Release.  Each        *)
(* operation has a lemma that says that it keeps Good and what becomes of  *)
(* the edges; the theorems put these together.                             *)
(***************************************************************************)
EXTENDS Graph, FiniteSetTheorems, SequenceTheorems, TLAPS

-----------------------------------------------------------------------------
(* Lists *)

\* queue_add_tail of a link that is not in the list.
LEMMA AddTailInjective ==
  ASSUME NEW S, NEW q \in Seq(S), NEW x \in S, IsInjective(q), x \notin Range(q)
  PROVE  /\ Append(q, x) \in Seq(S) /\ Len(Append(q, x)) = Len(q) + 1
         /\ IsInjective(Append(q, x))
         /\ Range(Append(q, x)) = Range(q) \cup {x}
<1>1. /\ Append(q, x) \in Seq(S) /\ Len(Append(q, x)) = Len(q) + 1 /\ Len(q) \in Nat
      /\ DOMAIN Append(q, x) = 1..Len(q)+1 /\ DOMAIN q = 1..Len(q)
      /\ \A i \in 1..Len(q) : Append(q, x)[i] = q[i]
      /\ Append(q, x)[Len(q)+1] = x
  OBVIOUS
<1>2. IsInjective(Append(q, x))
  BY <1>1 DEF IsInjective, Range
<1>3. ASSUME NEW y \in Range(q) PROVE y \in Range(Append(q, x))
  BY <1>1 DEF Range
<1>4. ASSUME NEW y \in Range(Append(q, x)) PROVE y \in Range(q) \cup {x}
  BY <1>1 DEF Range
<1>5. x \in Range(Append(q, x))
  BY <1>1 DEF Range
<1> QED
  BY <1>1, <1>2, <1>3, <1>4, <1>5

\* queue_del of the link at i.
LEMMA UnlinkedInjective ==
  ASSUME NEW S, NEW q \in Seq(S), NEW i \in 1..Len(q), IsInjective(q)
  PROVE  /\ Unlinked(q, i) \in Seq(S) /\ Len(Unlinked(q, i)) = Len(q) - 1
         /\ IsInjective(Unlinked(q, i))
         /\ Range(Unlinked(q, i)) = Range(q) \ {q[i]}
<1> DEFINE u == Unlinked(q, i)
           at(j) == IF j < i THEN j ELSE j + 1
           a == SubSeq(q, 1, i-1)
           b == SubSeq(q, i+1, Len(q))
<1>1. /\ Len(q) \in Nat /\ i \in Nat /\ i \in 1..Len(q) /\ DOMAIN q = 1..Len(q)
      /\ \A j \in 1..Len(q) : q[j] \in S
  OBVIOUS
<1>2. a \in Seq(S) /\ Len(a) = i-1 /\ \A j \in 1..i-1 : a[j] = q[j]
  <2>1. \A j \in 1..i-1 : q[j] \in S
    BY <1>1
  <2>2. /\ a \in Seq(S) /\ Len(a) = IF 1 <= i-1 THEN (i-1)-1+1 ELSE 0
        /\ \A j \in 1..(i-1)-1+1 : a[j] = q[1+j-1]
    BY <1>1, <2>1, SubSeqProperties
  <2> HIDE DEF a
  <2> QED
    BY <1>1, <2>2
<1>3. b \in Seq(S) /\ Len(b) = Len(q)-i /\ \A j \in 1..Len(q)-i : b[j] = q[j+i]
  <2>1. \A j \in i+1..Len(q) : q[j] \in S
    BY <1>1
  <2>2. /\ b \in Seq(S) /\ Len(b) = IF i+1 <= Len(q) THEN Len(q)-(i+1)+1 ELSE 0
        /\ \A j \in 1..Len(q)-(i+1)+1 : b[j] = q[(i+1)+j-1]
    BY <1>1, <2>1, SubSeqProperties
  <2> HIDE DEF b
  <2>3. ASSUME NEW j \in 1..Len(q)-i PROVE b[j] = q[j+i]
    <3>1. j \in 1..Len(q)-(i+1)+1 /\ (i+1)+j-1 = j+i
      BY <1>1
    <3> QED
      BY <2>2, <3>1
  <2>4. (IF i+1 <= Len(q) THEN Len(q)-(i+1)+1 ELSE 0) = Len(q)-i
    <3>1. ASSUME NEW n \in Nat, NEW j \in 1..n
          PROVE  (IF j+1 <= n THEN n-(j+1)+1 ELSE 0) = n-j
      OBVIOUS
    <3> QED
      BY <1>1, <3>1
  <2> QED
    BY <2>2, <2>3, <2>4
<1> HIDE DEF a, b
<1>4. /\ u \in Seq(S) /\ Len(u) = Len(q) - 1 /\ DOMAIN u = 1..Len(q)-1
      /\ \A j \in 1..Len(q)-1 : u[j] = q[at(j)]
  <2>1. u = a \o b
    BY DEF Unlinked, a, b
  <2> HIDE DEF u
  <2>2. /\ u \in Seq(S) /\ Len(u) = Len(a) + Len(b)
        /\ \A j \in 1..Len(a)+Len(b) : u[j] = IF j <= Len(a) THEN a[j] ELSE b[j - Len(a)]
    BY <1>2, <1>3, <2>1, ConcatProperties
  <2>3. Len(u) = Len(q) - 1 /\ DOMAIN u = 1..Len(q)-1
    BY <1>1, <1>2, <1>3, <2>2
  <2>4. ASSUME NEW j \in 1..Len(q)-1, j < i PROVE u[j] = q[j]
    <3>1. j \in 1..Len(a)+Len(b) /\ j <= Len(a) /\ j \in 1..i-1
      BY <1>1, <1>2, <1>3, <2>4
    <3> QED
      BY <1>2, <2>2, <3>1
  <2>5. ASSUME NEW j \in 1..Len(q)-1, ~(j < i) PROVE u[j] = q[j+1]
    <3>1. j - (i-1) \in 1..Len(q)-i /\ (j - (i-1)) + i = j + 1
      BY <1>1, <2>5
    <3>2. j \in 1..Len(a)+Len(b) /\ ~(j <= Len(a)) /\ j - Len(a) = j - (i-1)
      BY <1>1, <1>2, <1>3, <2>5
    <3>3. u[j] = b[j - (i-1)]
      BY <2>2, <3>2
    <3> QED
      BY <1>3, <3>1, <3>3
  <2> QED
    BY <2>2, <2>3, <2>4, <2>5
<1> HIDE DEF u
<1>5. \A j \in 1..Len(q)-1 : at(j) \in 1..Len(q) \ {i}
  BY <1>1
<1>6. \A j, k \in 1..Len(q)-1 : at(j) = at(k) => j = k
  BY <1>1
<1>7. \A j \in 1..Len(q) \ {i} : \E k \in 1..Len(q)-1 : at(k) = j
  <2> SUFFICES ASSUME NEW j \in 1..Len(q) \ {i} PROVE \E k \in 1..Len(q)-1 : at(k) = j
    OBVIOUS
  <2>1. CASE j < i
    <3>1. j \in 1..Len(q)-1 /\ at(j) = j
      BY <1>1, <2>1
    <3> QED
      BY <3>1
  <2>2. CASE j > i
    <3>1. j-1 \in 1..Len(q)-1 /\ at(j-1) = j
      BY <1>1, <2>2
    <3> QED
      BY <3>1
  <2> QED
    BY <1>1, <2>1, <2>2
<1> HIDE DEF at
<1>8. IsInjective(u)
  BY <1>1, <1>4, <1>5, <1>6 DEF IsInjective
<1>9. ASSUME NEW x \in Range(u) PROVE x \in Range(q) \ {q[i]}
  BY <1>1, <1>4, <1>5 DEF IsInjective, Range
<1>10. ASSUME NEW x \in Range(q) \ {q[i]} PROVE x \in Range(u)
  <2>1. PICK j \in 1..Len(q) \ {i} : q[j] = x
    BY <1>1 DEF Range
  <2>2. PICK k \in 1..Len(q)-1 : at(k) = j
    BY <1>7
  <2> QED
    BY <1>4, <2>1, <2>2 DEF Range
<1> QED
  BY <1>4, <1>8, <1>9, <1>10 DEF u

-----------------------------------------------------------------------------
(* The operations on the links *)

\* What the calls keep of the links m: CountsList, TreesListed and the part
\* of OneForAName that is about links.
Good(m) ==
  /\ m \in Mem
  /\ \A n \in Nodes : m.link_num[n] = Len(m.node_queue[n])
  /\ \A n \in Nodes : /\ IsInjective(m.node_queue[n])
                      /\ m.rbt_links[n] \subseteq Range(m.node_queue[n]) \cap m.heap
  /\ \A n, k \in Nodes :
       n # k => Range(m.node_queue[n]) \cap Range(m.node_queue[k]) = {}
  /\ \A n \in Nodes : \A l, k \in m.rbt_links[n] :
       m.link_name[l] = m.link_name[k] => l = k

\* A link is in the tree of one node at most, since it is in one list.
LEMMA OneTree ==
  ASSUME NEW m, Good(m), NEW n \in Nodes, NEW k \in Nodes, NEW l \in m.rbt_links[n],
         l \in m.rbt_links[k]
  PROVE  n = k
BY DEF Good

\* Links that are listed as those of m, with smaller trees of allocated links.
LEMMA SmallerGood ==
  ASSUME NEW m, Good(m), NEW r \in Mem,
         r.node_queue = m.node_queue, r.link_num = m.link_num,
         \A n \in Nodes : r.rbt_links[n] \subseteq m.rbt_links[n] \cap r.heap,
         \A n \in Nodes : \A l \in r.rbt_links[n] : r.link_name[l] = m.link_name[l]
  PROVE  Good(r)
<1>1. \A n \in Nodes : r.rbt_links[n] \subseteq Range(r.node_queue[n]) \cap r.heap
  BY DEF Good
<1>2. \A n \in Nodes : \A l, k \in r.rbt_links[n] : r.link_name[l] = r.link_name[k] => l = k
  <2> SUFFICES ASSUME NEW n \in Nodes, NEW l \in r.rbt_links[n], NEW k \in r.rbt_links[n],
                      r.link_name[l] = r.link_name[k]
               PROVE  l = k
    OBVIOUS
  <2>1. l \in m.rbt_links[n] /\ k \in m.rbt_links[n] /\ m.link_name[l] = m.link_name[k]
    OBVIOUS
  <2> QED
    BY <2>1 DEF Good
<1> QED
  BY <1>1, <1>2 DEF Good

\* Freeing links that are in no tree changes no edge.
LEMMA ReleaseGood ==
  ASSUME NEW m, Good(m), NEW L \in SUBSET Links,
         \A n \in Nodes : m.rbt_links[n] \cap L = {}
  PROVE  /\ Good(Release(m, L)) /\ Edges(Release(m, L)) = Edges(m)
         /\ Release(m, L).ok = m.ok
<1> DEFINE hp == m.heap \ L
           nm == [l \in Links |-> IF l \in L THEN NoName ELSE m.link_name[l]]
           r == Release(m, L)
<1>1. m \in Mem
  BY DEF Good
<1>2. /\ r \in Mem /\ r.rbt_links = m.rbt_links /\ r.node_queue = m.node_queue
      /\ r.link_num = m.link_num /\ r.heap = hp /\ r.link_name = nm /\ r.ok = m.ok
  BY <1>1 DEF Release, Mem
<1>3. \A n \in Nodes : \A l \in m.rbt_links[n] : l \notin L /\ nm[l] = m.link_name[l]
  BY <1>1 DEF Mem
<1> HIDE DEF r, nm
<1>4. Good(r)
  <2>1. \A n \in Nodes : m.rbt_links[n] \subseteq m.heap
    BY DEF Good
  <2> QED
    BY <1>2, <1>3, <2>1, SmallerGood
<1>5. Edges(r) = Edges(m)
  <2>1. \A n \in Nodes : {r.link_name[l] : l \in r.rbt_links[n]} = {m.link_name[l] : l \in m.rbt_links[n]}
    BY <1>2, <1>3
  <2> QED
    BY <2>1 DEF Edges
<1> QED
  BY <1>2, <1>4, <1>5 DEF r

\* Taking the link to x out of its tree takes the edge away.
LEMMA UprootGood ==
  ASSUME NEW m, Good(m), NEW s \in Nodes, NEW x, NEW l \in LinksTo(m, s, x)
  PROVE  /\ Good(Uproot(m, s, l))
         /\ Edges(Uproot(m, s, l)) = [Edges(m) EXCEPT ![s] = @ \ {x}]
         /\ Uproot(m, s, l).ok = m.ok
         /\ \A n \in Nodes : Uproot(m, s, l).rbt_links[n] = m.rbt_links[n] \ {l}
<1> DEFINE rt == [m.rbt_links EXCEPT ![s] = @ \ {l}]
           r == Uproot(m, s, l)
<1>1. m \in Mem /\ l \in m.rbt_links[s] /\ m.link_name[l] = x
  BY DEF Good, LinksTo
<1>2. /\ r \in Mem /\ r.rbt_links = rt /\ r.node_queue = m.node_queue
      /\ r.link_num = m.link_num /\ r.heap = m.heap /\ r.link_name = m.link_name /\ r.ok = m.ok
  BY <1>1 DEF Uproot, Mem
<1>3. \A n \in Nodes : rt[n] = m.rbt_links[n] \ {l}
  BY <1>1, OneTree DEF Mem
<1> HIDE DEF r, rt
<1>4. Good(r)
  <2>1. \A n \in Nodes : rt[n] \subseteq m.rbt_links[n] \cap m.heap
    BY <1>3 DEF Good
  <2>2. \A n \in Nodes : \A k \in r.rbt_links[n] : r.link_name[k] = m.link_name[k]
    BY <1>2
  <2>3. \A n \in Nodes : r.rbt_links[n] \subseteq m.rbt_links[n] \cap r.heap
    BY <1>2, <2>1
  <2>4. r \in Mem /\ r.node_queue = m.node_queue /\ r.link_num = m.link_num
    BY <1>2
  <2> QED
    BY <2>2, <2>3, <2>4, SmallerGood
<1>5. \A n \in Nodes : {r.link_name[k] : k \in r.rbt_links[n]} =
         IF n = s THEN Edges(m)[s] \ {x} ELSE Edges(m)[n]
  <2> SUFFICES ASSUME NEW n \in Nodes
               PROVE  {r.link_name[k] : k \in r.rbt_links[n]} =
                        IF n = s THEN Edges(m)[s] \ {x} ELSE Edges(m)[n]
    OBVIOUS
  <2>1. Edges(m)[n] = {m.link_name[k] : k \in m.rbt_links[n]}
    BY DEF Edges
  <2>2. CASE n = s
    <3>1. \A k \in m.rbt_links[s] : m.link_name[k] = x <=> k = l
      BY <1>1 DEF Good
    <3> QED
      BY <1>2, <1>3, <2>1, <2>2, <3>1
  <2>3. CASE n # s
    BY <1>1, <1>2, <1>3, <2>1, <2>3, OneTree
  <2> QED
    BY <2>2, <2>3
<1>6. Edges(r) = [Edges(m) EXCEPT ![s] = @ \ {x}]
  <2>1. Edges(r) = [n \in Nodes |-> IF n = s THEN Edges(m)[s] \ {x} ELSE Edges(m)[n]]
    BY <1>5 DEF Edges
  <2>2. DOMAIN Edges(m) = Nodes
    BY DEF Edges
  <2>3. Edges(m) = [n \in Nodes |-> Edges(m)[n]]
    BY DEF Edges
  <2> QED
    BY <2>1, <2>2, <2>3
<1>7. r.ok = m.ok /\ \A n \in Nodes : r.rbt_links[n] = m.rbt_links[n] \ {l}
  BY <1>2, <1>3
<1> QED
  BY <1>4, <1>6, <1>7 DEF r

\* build_link that goes well keeps Good.  It answers 0 when the name was
\* free and is an edge now, else -1 and the edges are what they were.
LEMMA BuildGood ==
  ASSUME NEW m, Good(m), NEW s \in Nodes, NEW d \in Nodes, Name(d) \in Names,
         NEW l \in Calloc(m), Build(m, s, d, l).mem.ok
  PROVE  /\ Good(Build(m, s, d, l).mem)
         /\ \/ /\ Build(m, s, d, l).ret = -1
               /\ Edges(Build(m, s, d, l).mem) = Edges(m)
            \/ /\ Build(m, s, d, l).ret = 0
               /\ Name(s) # Name(d) /\ Name(d) \notin Edges(m)[s]
               /\ Edges(Build(m, s, d, l).mem) = [Edges(m) EXCEPT ![s] = @ \cup {Name(d)}]
<1>1. CASE Name(s) = Name(d) \/ l = NULL
  BY <1>1 DEF Build, Answer
<1>2. CASE ~(Name(s) = Name(d) \/ l = NULL)
  <2> DEFINE new == LinksTo(m, s, Name(d)) = {}
             hp == m.heap \cup {l}
             nm == [m.link_name EXCEPT ![l] = Name(d)]
             nu == [m.link_num EXCEPT ![s] = @ + 1]
             qu == [m.node_queue EXCEPT ![s] = Append(@, l)]
             rt == [m.rbt_links EXCEPT ![s] = IF new THEN @ \cup {l} ELSE @]
             ok == /\ m.node_queue[s] # <<>> => m.node_queue[s][Len(m.node_queue[s])] \in m.heap
                   /\ \A n \in Nodes : l \notin Range(m.node_queue[n])
             r == Build(m, s, d, l).mem
  <2>1. m \in Mem /\ l \in Links \ m.heap
    BY <1>2 DEF Good, Calloc
  <2>2. /\ r = [m EXCEPT !.heap = hp, !.link_name = nm, !.link_num = nu,
                         !.node_queue = qu, !.rbt_links = rt, !.ok = ok]
        /\ Build(m, s, d, l).ret = IF new THEN 0 ELSE -1
    BY <1>2, <2>1 DEF Build, Answer, Mem
  <2>3. /\ rt \in [Nodes -> SUBSET Links] /\ qu \in [Nodes -> Seq(Links)]
        /\ nu \in [Nodes -> Nat] /\ hp \in SUBSET Links
        /\ nm \in [Links -> Names \cup {NoName}] /\ ok \in BOOLEAN
    BY <2>1 DEF Mem
  <2>4. /\ \A n \in Nodes : rt[n] = IF n = s /\ new THEN m.rbt_links[s] \cup {l}
                                                    ELSE m.rbt_links[n]
        /\ \A n \in Nodes : qu[n] = IF n = s THEN Append(m.node_queue[s], l)
                                             ELSE m.node_queue[n]
        /\ \A n \in Nodes : nu[n] = IF n = s THEN m.link_num[s] + 1 ELSE m.link_num[n]
        /\ \A k \in Links : nm[k] = IF k = l THEN Name(d) ELSE m.link_name[k]
    BY <2>1 DEF Mem
  <2>5. \A n \in Nodes : \A k \in m.rbt_links[n] : k \in Links /\ k # l /\ nm[k] = m.link_name[k]
    BY <2>1, <2>4 DEF Good, Mem
  <2>6. /\ new <=> \A k \in m.rbt_links[s] : m.link_name[k] # Name(d)
        /\ new <=> Name(d) \notin Edges(m)[s]
    BY DEF LinksTo, Edges
  <2> HIDE DEF new, hp, nm, nu, qu, rt, ok
  <2>7. /\ r \in Mem /\ r.rbt_links = rt /\ r.node_queue = qu /\ r.link_num = nu
        /\ r.heap = hp /\ r.link_name = nm /\ r.ok = ok
    BY <2>1, <2>2, <2>3 DEF Mem
  <2>8. \A n \in Nodes : l \notin Range(m.node_queue[n])
    BY <2>7 DEF ok
  <2> HIDE DEF r
  <2>9. /\ qu[s] \in Seq(Links) /\ Len(qu[s]) = Len(m.node_queue[s]) + 1
        /\ IsInjective(qu[s]) /\ Range(qu[s]) = Range(m.node_queue[s]) \cup {l}
    <3>1. m.node_queue[s] \in Seq(Links) /\ IsInjective(m.node_queue[s])
      BY <2>1 DEF Good, Mem
    <3>2. l \in Links /\ l \notin Range(m.node_queue[s])
      BY <2>1, <2>8
    <3>3. /\ Append(m.node_queue[s], l) \in Seq(Links)
          /\ Len(Append(m.node_queue[s], l)) = Len(m.node_queue[s]) + 1
          /\ IsInjective(Append(m.node_queue[s], l))
          /\ Range(Append(m.node_queue[s], l)) = Range(m.node_queue[s]) \cup {l}
      BY <3>1, <3>2, AddTailInjective
    <3> QED
      BY <2>4, <3>3
  <2>10. \A n \in Nodes : /\ IsInjective(qu[n]) /\ nu[n] = Len(qu[n])
                          /\ Range(qu[n]) = IF n = s THEN Range(m.node_queue[s]) \cup {l}
                                                     ELSE Range(m.node_queue[n])
    BY <2>1, <2>4, <2>9 DEF Good, Mem
  <2>11. \A n \in Nodes : rt[n] \subseteq Range(qu[n]) \cap hp
    BY <2>4, <2>10 DEF Good, hp
  <2>12. \A n, k \in Nodes : n # k => Range(qu[n]) \cap Range(qu[k]) = {}
    BY <2>8, <2>10 DEF Good
  <2>13. \A n \in Nodes : \A j, k \in rt[n] : nm[j] = nm[k] => j = k
    <3> SUFFICES ASSUME NEW n \in Nodes, NEW j \in rt[n], NEW k \in rt[n], nm[j] = nm[k]
                 PROVE  j = k
      OBVIOUS
    <3>1. CASE j \in m.rbt_links[n] /\ k \in m.rbt_links[n]
      <4>1. m.link_name[j] = m.link_name[k]
        BY <2>5, <3>1
      <4> QED
        BY <3>1, <4>1 DEF Good
    <3>2. CASE ~(j \in m.rbt_links[n] /\ k \in m.rbt_links[n])
      <4>1. n = s /\ new /\ (j = l \/ k = l)
        BY <2>4, <3>2
      <4>2. \A i \in m.rbt_links[s] : nm[i] # nm[l]
        BY <2>1, <2>4, <2>5, <2>6, <4>1
      <4> QED
        BY <2>4, <4>1, <4>2
    <3> QED
      BY <3>1, <3>2
  <2>14. Good(r)
    BY <2>7, <2>10, <2>11, <2>12, <2>13 DEF Good
  <2>15. CASE new
    <3>1. \A n \in Nodes : {r.link_name[k] : k \in r.rbt_links[n]} =
             IF n = s THEN Edges(m)[s] \cup {Name(d)} ELSE Edges(m)[n]
      <4> SUFFICES ASSUME NEW n \in Nodes
                   PROVE  {r.link_name[k] : k \in r.rbt_links[n]} =
                            IF n = s THEN Edges(m)[s] \cup {Name(d)} ELSE Edges(m)[n]
        OBVIOUS
      <4>1. Edges(m)[n] = {m.link_name[k] : k \in m.rbt_links[n]}
        BY DEF Edges
      <4>2. r.link_name[l] = Name(d)
        BY <2>1, <2>4, <2>7
      <4>3. {r.link_name[k] : k \in m.rbt_links[n]} = Edges(m)[n]
        BY <2>5, <2>7, <4>1
      <4>4. CASE n = s
        <5>1. r.rbt_links[n] = m.rbt_links[n] \cup {l}
          BY <2>4, <2>7, <2>15, <4>4
        <5>2. {r.link_name[k] : k \in r.rbt_links[n]} = {r.link_name[k] : k \in m.rbt_links[n]} \cup {r.link_name[l]}
          BY <5>1
        <5> QED
          BY <4>2, <4>3, <4>4, <5>2
      <4>5. CASE n # s
        BY <2>4, <2>7, <4>3, <4>5
      <4> QED
        BY <4>4, <4>5
    <3>2. Edges(r) = [n \in Nodes |-> IF n = s THEN Edges(m)[s] \cup {Name(d)} ELSE Edges(m)[n]]
      BY <3>1 DEF Edges
    <3>3. Edges(m) = [n \in Nodes |-> Edges(m)[n]]
      BY DEF Edges
    <3>4. Edges(r) = [Edges(m) EXCEPT ![s] = @ \cup {Name(d)}]
      BY <3>2, <3>3
    <3> QED
      BY <1>2, <2>2, <2>6, <2>14, <2>15, <3>4 DEF r
  <2>16. CASE ~new
    <3>1. \A n \in Nodes : {r.link_name[k] : k \in r.rbt_links[n]} = {m.link_name[k] : k \in m.rbt_links[n]}
      BY <2>4, <2>5, <2>7, <2>16
    <3>2. Edges(r) = Edges(m)
      BY <3>1 DEF Edges
    <3> QED
      BY <2>2, <2>14, <2>16, <3>2 DEF r
  <2> QED
    BY <2>15, <2>16
<1> QED
  BY <1>1, <1>2

\* destory_link of the link to x takes the edge away.
LEMMA DestoryGood ==
  ASSUME NEW m, Good(m), NEW s \in Nodes, NEW x, NEW l \in LinksTo(m, s, x)
  PROVE  /\ Good(Destory(m, s, l))
         /\ Edges(Destory(m, s, l)) = [Edges(m) EXCEPT ![s] = @ \ {x}]
<1> DEFINE q == m.node_queue[s]
           i == CHOOSE j \in 1..Len(q) : q[j] = l
           v == Uproot(m, s, l)
           qu == [m.node_queue EXCEPT ![s] = Unlinked(q, i)]
           nu == [m.link_num EXCEPT ![s] = @ - 1]
           ok == \A j \in {i-1, i+1} \cap 1..Len(q) : q[j] \in m.heap
           r == [v EXCEPT !.node_queue = qu, !.link_num = nu, !.ok = ok]
<1>1. m \in Mem /\ l \in m.rbt_links[s] /\ l \in Links /\ l \in Range(q)
  BY DEF Good, LinksTo, Mem
<1>2. /\ Good(v) /\ Edges(v) = [Edges(m) EXCEPT ![s] = @ \ {x}]
      /\ \A n \in Nodes : v.rbt_links[n] = m.rbt_links[n] \ {l}
  BY UprootGood
<1>3. /\ v \in Mem /\ v.node_queue = m.node_queue /\ v.link_num = m.link_num /\ v.heap = m.heap
      /\ v.link_name = m.link_name
  BY <1>1, <1>2 DEF Uproot, Mem, Good
<1>4. Destory(m, s, l) = Release(r, {l})
  BY <1>1 DEF Destory, Uproot, Mem
<1> HIDE DEF v
<1>5. i \in 1..Len(q) /\ q[i] = l /\ q \in Seq(Links) /\ IsInjective(q) /\ Len(q) \in Nat
  <2>1. q \in Seq(Links) /\ IsInjective(q) /\ Len(q) \in Nat /\ DOMAIN q = 1..Len(q)
    BY <1>1 DEF Good, Mem
  <2>2. \E j \in 1..Len(q) : q[j] = l
    BY <1>1, <2>1 DEF Range
  <2> QED
    BY <2>1, <2>2
<1> HIDE DEF i
<1>6. /\ Unlinked(q, i) \in Seq(Links) /\ Len(Unlinked(q, i)) = Len(q) - 1
      /\ IsInjective(Unlinked(q, i)) /\ Range(Unlinked(q, i)) = Range(q) \ {l}
  BY <1>5, UnlinkedInjective
<1>7. m.link_num[s] = Len(q) /\ m.link_num[s] - 1 \in Nat
  BY <1>5 DEF Good
<1>8. /\ qu \in [Nodes -> Seq(Links)] /\ nu \in [Nodes -> Nat] /\ ok \in BOOLEAN
      /\ \A n \in Nodes : qu[n] = IF n = s THEN Unlinked(q, i) ELSE m.node_queue[n]
      /\ \A n \in Nodes : nu[n] = IF n = s THEN m.link_num[s] - 1 ELSE m.link_num[n]
  BY <1>1, <1>6, <1>7 DEF Mem
<1> HIDE DEF qu, nu, ok
<1>9. /\ r \in Mem /\ r.rbt_links = v.rbt_links /\ r.node_queue = qu /\ r.link_num = nu
      /\ r.heap = m.heap /\ r.link_name = v.link_name
  BY <1>3, <1>8 DEF Mem
<1> HIDE DEF r
<1>10. \A n \in Nodes : /\ IsInjective(qu[n]) /\ nu[n] = Len(qu[n])
                        /\ Range(qu[n]) = IF n = s THEN Range(q) \ {l}
                                                   ELSE Range(m.node_queue[n])
  BY <1>6, <1>7, <1>8 DEF Good
<1> HIDE DEF q
<1>11. \A n \in Nodes : r.rbt_links[n] \subseteq Range(r.node_queue[n]) \cap r.heap
  <2>1. \A n \in Nodes : v.rbt_links[n] \subseteq Range(m.node_queue[n]) \cap m.heap
    BY <1>2, <1>3 DEF Good
  <2>2. \A n \in Nodes : v.rbt_links[n] \subseteq Range(qu[n])
    BY <1>2, <1>10, <2>1 DEF q
  <2> QED
    BY <1>9, <2>1, <2>2
<1>12. \A n, k \in Nodes : n # k => Range(r.node_queue[n]) \cap Range(r.node_queue[k]) = {}
  BY <1>9, <1>10 DEF Good, q
<1>13. \A n \in Nodes : \A j, k \in r.rbt_links[n] : r.link_name[j] = r.link_name[k] => j = k
  BY <1>2, <1>9 DEF Good
<1>14. Good(r)
  BY <1>9, <1>10, <1>11, <1>12, <1>13 DEF Good
<1>15. Edges(r) = Edges(v)
  BY <1>9 DEF Edges
<1>16. \A n \in Nodes : r.rbt_links[n] \cap {l} = {}
  BY <1>2, <1>9
<1>17. Good(Release(r, {l})) /\ Edges(Release(r, {l})) = Edges(r)
  <2>1. {l} \in SUBSET Links
    BY <1>1
  <2> QED
    BY <1>14, <1>16, <2>1, ReleaseGood
<1> QED
  BY <1>2, <1>4, <1>15, <1>17

\* delete_node of the nodes of N takes their edges away and no other's.
LEMMA DeleteGood ==
  ASSUME NEW m, Good(m), NEW N \in SUBSET Nodes
  PROVE  /\ Good(Delete(m, N))
         /\ Edges(Delete(m, N)) = [n \in Nodes |-> IF n \in N THEN {} ELSE Edges(m)[n]]
<1> DEFINE L == UNION {m.rbt_links[n] : n \in N}
           hp == m.heap \ L
           nm == [l \in Links |-> IF l \in L THEN NoName ELSE m.link_name[l]]
           rt == [n \in Nodes |-> IF n \in N THEN {} ELSE m.rbt_links[n]]
           qu == [n \in Nodes |-> IF n \in N THEN <<>> ELSE m.node_queue[n]]
           nu == [n \in Nodes |-> IF n \in N THEN 0 ELSE m.link_num[n]]
           r == Delete(m, N)
<1>1. m \in Mem
  BY DEF Good
<1>2. r = [m EXCEPT !.heap = hp, !.link_name = nm, !.rbt_links = rt,
                    !.node_queue = qu, !.link_num = nu]
  BY <1>1 DEF Delete, Release, Mem
<1>3. /\ rt \in [Nodes -> SUBSET Links] /\ qu \in [Nodes -> Seq(Links)]
      /\ nu \in [Nodes -> Nat] /\ hp \in SUBSET Links
      /\ nm \in [Links -> Names \cup {NoName}]
  BY <1>1 DEF Mem
<1>4. \A n \in Nodes : \A l \in rt[n] : n \notin N /\ l \in m.rbt_links[n] /\ l \notin L
  BY OneTree
<1>5. \A n \in Nodes : \A l \in rt[n] : l \in hp /\ nm[l] = m.link_name[l]
  BY <1>1, <1>4 DEF Good, Mem
<1> HIDE DEF L, hp, nm, r
<1>6. /\ r \in Mem /\ r.rbt_links = rt /\ r.node_queue = qu /\ r.link_num = nu
      /\ r.heap = hp /\ r.link_name = nm
  BY <1>1, <1>2, <1>3 DEF Mem
<1>7. \A n \in Nodes : /\ n \in N => qu[n] = <<>> /\ rt[n] = {} /\ nu[n] = 0
                       /\ n \notin N => /\ qu[n] = m.node_queue[n] /\ rt[n] = m.rbt_links[n]
                                        /\ nu[n] = m.link_num[n]
  OBVIOUS
<1> HIDE DEF rt, qu, nu
<1>8. IsInjective(<<>>) /\ Range(<<>>) = {} /\ Len(<<>>) = 0
  BY DEF IsInjective, Range
<1>9. \A n \in Nodes : IsInjective(qu[n]) /\ nu[n] = Len(qu[n])
  BY <1>7, <1>8 DEF Good
<1>10. \A n \in Nodes : rt[n] \subseteq Range(qu[n]) \cap hp
  BY <1>4, <1>5, <1>7 DEF Good
<1>11. \A n, k \in Nodes : n # k => Range(qu[n]) \cap Range(qu[k]) = {}
  BY <1>7, <1>8 DEF Good
<1>12. \A n \in Nodes : \A l, k \in r.rbt_links[n] : r.link_name[l] = r.link_name[k] => l = k
  BY <1>4, <1>5, <1>6 DEF Good
<1>13. Good(r)
  BY <1>6, <1>9, <1>10, <1>11, <1>12 DEF Good
<1>14. \A n \in Nodes : {r.link_name[l] : l \in r.rbt_links[n]} =
          IF n \in N THEN {} ELSE {m.link_name[l] : l \in m.rbt_links[n]}
  BY <1>5, <1>6, <1>7
<1>15. Edges(r) = [n \in Nodes |-> IF n \in N THEN {} ELSE Edges(m)[n]]
  BY <1>14 DEF Edges
<1> QED
  BY <1>13, <1>15 DEF r

-----------------------------------------------------------------------------
(* The invariant and the steps *)

\* The nodes of the graph exist, are one for a name, and are counted.
Members ==
  /\ \A n, k \in node_root : node_name[n] = node_name[k] => n = k
  /\ \A n \in node_root : Exists(n)
  /\ node_num = Cardinality(node_root)

\* The inductive invariant.
IInv == TypeOK /\ Good(mem) /\ Members

\* What a step has to be: it keeps the invariant, and is one of Digraph's or
\* changes nothing that Digraph sees.
Sound == IInv' /\ (D!Next \/ UNCHANGED D!vars)

\* A call on the links keeps the invariant when its answer does, and shows
\* Digraph its answer or nothing.
LEMMA ReturnSound ==
  ASSUME IInv, NEW c, NEW a, a.mem.ok => Good(a.mem), a.ret \in {0, -1}, Return(c, a)
  PROVE  /\ IInv'
         /\ \/ /\ a.mem.ok /\ Edges(mem)' = Edges(a.mem) /\ D!Answers(c, a.ret)
               /\ UNCHANGED <<node_name, node_root>>
            \/ UNCHANGED D!vars
<1>1. UNCHANGED <<node_name, node_root, node_num>>
  BY DEF Return
<1>2. CASE a.mem.ok /\ mem' = a.mem /\ Answers(c, a.ret)
  <2>1. Good(mem')
    BY <1>2
  <2>2. TypeOK'
    BY <1>1, <1>2, <2>1 DEF IInv, TypeOK, Answers, Good
  <2>3. Members'
    BY <1>1 DEF IInv, Members, Exists
  <2>4. Edges(mem)' = Edges(a.mem)
    BY <1>2
  <2> QED
    BY <1>1, <1>2, <2>1, <2>2, <2>3, <2>4 DEF IInv, Answers, D!Answers
<1>3. CASE ~a.mem.ok /\ mem' = [mem EXCEPT !.ok = FALSE] /\ UNCHANGED <<call, ret>>
  <2>1. /\ mem' \in Mem /\ mem'.rbt_links = mem.rbt_links /\ mem'.node_queue = mem.node_queue
        /\ mem'.link_num = mem.link_num /\ mem'.heap = mem.heap
        /\ mem'.link_name = mem.link_name
    BY <1>3 DEF IInv, TypeOK, Mem
  <2>2. Good(mem')
    <3>1. Good(mem) /\ \A n \in Nodes : mem'.rbt_links[n] \subseteq mem.rbt_links[n] \cap mem'.heap
      BY <2>1 DEF IInv, Good
    <3> QED
      BY <2>1, <3>1, SmallerGood
  <2>3. Edges(mem)' = Edges(mem)
    BY <2>1 DEF Edges
  <2>4. TypeOK'
    BY <1>1, <1>3, <2>1 DEF IInv, TypeOK
  <2>5. Members'
    BY <1>1 DEF IInv, Members, Exists
  <2> QED
    BY <1>1, <1>3, <2>2, <2>3, <2>4, <2>5 DEF IInv, D!vars
<1> QED
  BY <1>2, <1>3 DEF Return

\* A name of a node that exists is a name.
LEMMA NameType ==
  ASSUME IInv, NEW n \in Nodes, Exists(n)
  PROVE  Name(n) \in Names
BY DEF IInv, TypeOK, Exists, Name

\* There is a link to x in the tree exactly when x is an edge.
LEMMA FoundEdge ==
  ASSUME NEW m, NEW n \in Nodes, NEW x
  PROVE  LinksTo(m, n, x) = {} <=> x \notin Edges(m)[n]
BY DEF LinksTo, Edges

\* build_link is Digraph's Build.
LEMMA BuildLinkSound ==
  ASSUME IInv, NEW s \in Nodes, NEW d \in Nodes, BuildLink(s, d)
  PROVE  Sound
<1>1. PICK l \in Calloc(mem) : Return(<<"build", s, d>>, Build(mem, s, d, l))
  BY DEF BuildLink
<1> DEFINE a == Build(mem, s, d, l)
<1>2. Exists(s) /\ Exists(d) /\ Name(d) \in Names /\ Good(mem)
  BY NameType DEF BuildLink, IInv
<1>3. a.ret \in {0, -1}
  BY DEF Build, Answer
<1>4. ASSUME a.mem.ok
      PROVE  /\ Good(a.mem)
             /\ \/ a.ret = -1 /\ Edges(a.mem) = Edges(mem)
                \/ /\ a.ret = 0 /\ Name(s) # Name(d) /\ Name(d) \notin Edges(mem)[s]
                   /\ Edges(a.mem) = [Edges(mem) EXCEPT ![s] = @ \cup {Name(d)}]
  BY <1>2, <1>4, BuildGood
<1> HIDE DEF a
<1>5. /\ IInv'
      /\ \/ /\ a.mem.ok /\ Edges(mem)' = Edges(a.mem) /\ D!Answers(<<"build", s, d>>, a.ret)
            /\ UNCHANGED <<node_name, node_root>>
         \/ UNCHANGED D!vars
  BY <1>1, <1>3, <1>4, ReturnSound DEF a
<1>6. CASE /\ a.mem.ok /\ Edges(mem)' = Edges(a.mem) /\ D!Answers(<<"build", s, d>>, a.ret)
           /\ UNCHANGED <<node_name, node_root>>
  <2>1. D!Build(s, d)
    BY <1>2, <1>4, <1>6
       DEF D!Build, D!Refuses, D!Becomes, D!Free, D!With, D!Exists, Exists, Name
  <2> QED
    BY <1>5, <2>1 DEF Sound, D!Next
<1> QED
  BY <1>5, <1>6 DEF Sound

\* build_double_link is Digraph's BuildDouble, whichever of its two builds
\* fails.
LEMMA BuildDoubleLinkSound ==
  ASSUME IInv, NEW s \in Nodes, NEW d \in Nodes, BuildDoubleLink(s, d)
  PROVE  Sound
<1> DEFINE c == <<"build_double", s, d>>
           a(l) == Build(mem, s, d, l)
           b(l, k) == Build(a(l).mem, d, s, k)
<1>1. PICK l \in Calloc(mem) :
        IF a(l).mem.ok /\ a(l).ret = 0
        THEN \E k \in Calloc(a(l).mem) : Return(c, b(l, k))
        ELSE Return(c, a(l))
  BY DEF BuildDoubleLink
<1>2. Exists(s) /\ Exists(d) /\ Name(s) \in Names /\ Name(d) \in Names /\ Good(mem)
  BY NameType DEF BuildDoubleLink, IInv
<1>3. a(l).ret \in {0, -1} /\ \A k : b(l, k).ret \in {0, -1}
  BY DEF Build, Answer
<1>4. ASSUME a(l).mem.ok
      PROVE  /\ Good(a(l).mem)
             /\ \/ a(l).ret = -1 /\ Edges(a(l).mem) = Edges(mem)
                \/ /\ a(l).ret = 0 /\ Name(s) # Name(d) /\ Name(d) \notin Edges(mem)[s]
                   /\ Edges(a(l).mem) = [Edges(mem) EXCEPT ![s] = @ \cup {Name(d)}]
  BY <1>2, <1>4, BuildGood
<1>5. ASSUME a(l).mem.ok, NEW k \in Calloc(a(l).mem), b(l, k).mem.ok
      PROVE  /\ Good(b(l, k).mem)
             /\ \/ b(l, k).ret = -1 /\ Edges(b(l, k).mem) = Edges(a(l).mem)
                \/ /\ b(l, k).ret = 0 /\ Name(d) # Name(s) /\ Name(s) \notin Edges(a(l).mem)[d]
                   /\ Edges(b(l, k).mem) = [Edges(a(l).mem) EXCEPT ![d] = @ \cup {Name(s)}]
  BY <1>2, <1>4, <1>5, BuildGood
<1> HIDE DEF a, b, c
<1>6. CASE ~(a(l).mem.ok /\ a(l).ret = 0)
  <2>1. /\ IInv'
        /\ \/ /\ a(l).mem.ok /\ Edges(mem)' = Edges(a(l).mem) /\ D!Answers(c, a(l).ret)
              /\ UNCHANGED <<node_name, node_root>>
           \/ UNCHANGED D!vars
    BY <1>1, <1>3, <1>4, <1>6, ReturnSound
  <2>2. CASE /\ a(l).mem.ok /\ Edges(mem)' = Edges(a(l).mem) /\ D!Answers(c, a(l).ret)
             /\ UNCHANGED <<node_name, node_root>>
    <3>1. D!BuildDouble(s, d)
      BY <1>2, <1>3, <1>4, <1>6, <2>2 DEF D!BuildDouble, D!Refuses, D!Exists, Exists, c
    <3> QED
      BY <2>1, <3>1 DEF Sound, D!Next
  <2> QED
    BY <2>1, <2>2 DEF Sound
<1>7. CASE a(l).mem.ok /\ a(l).ret = 0
  <2>1. PICK k \in Calloc(a(l).mem) : Return(c, b(l, k))
    BY <1>1, <1>7
  <2>2. /\ IInv'
        /\ \/ /\ b(l, k).mem.ok /\ Edges(mem)' = Edges(b(l, k).mem) /\ D!Answers(c, b(l, k).ret)
              /\ UNCHANGED <<node_name, node_root>>
           \/ UNCHANGED D!vars
    BY <1>3, <1>5, <1>7, <2>1, ReturnSound
  <2>3. CASE /\ b(l, k).mem.ok /\ Edges(mem)' = Edges(b(l, k).mem) /\ D!Answers(c, b(l, k).ret)
             /\ UNCHANGED <<node_name, node_root>>
    <3>1. /\ D!Free(Edges(mem), s, d)
          /\ Edges(a(l).mem) = D!With(Edges(mem), s, d)
      BY <1>4, <1>7 DEF D!Free, D!With, Name
    <3>2. ASSUME b(l, k).ret = -1 PROVE D!BuildDouble(s, d)
      <4>1. D!Becomes(D!With(Edges(mem), s, d), c, -1)
        BY <1>5, <1>7, <2>3, <3>1, <3>2 DEF D!Becomes
      <4> QED
        BY <1>2, <3>1, <4>1 DEF D!BuildDouble, D!Exists, Exists, c
    <3>3. ASSUME b(l, k).ret = 0 PROVE D!BuildDouble(s, d)
      <4>1. /\ D!Free(Edges(a(l).mem), d, s)
            /\ D!Becomes(D!With(Edges(a(l).mem), d, s), c, 0)
        BY <1>5, <1>7, <2>3, <3>3 DEF D!Becomes, D!Free, D!With, Name
      <4> QED
        BY <1>2, <3>1, <4>1 DEF D!BuildDouble, D!Exists, Exists, c
    <3>4. D!BuildDouble(s, d)
      BY <1>3, <3>2, <3>3
    <3> QED
      BY <2>2, <3>4 DEF Sound, D!Next
  <2> QED
    BY <2>2, <2>3 DEF Sound
<1> QED
  BY <1>6, <1>7

\* destory_link is Digraph's Destroy.
LEMMA DestoryLinkSound ==
  ASSUME IInv, NEW s \in Nodes, NEW d \in Nodes, DestoryLink(s, d)
  PROVE  Sound
<1> DEFINE c == <<"destory", s, d>>
<1>1. Exists(s) /\ Exists(d) /\ Good(mem)
  BY DEF DestoryLink, IInv
<1>2. CASE LinksTo(mem, s, Name(d)) = {} /\ Return(c, Answer(mem, -1))
  <2> DEFINE a == Answer(mem, -1)
  <2>1. a.mem = mem /\ a.ret = -1
    BY DEF Answer
  <2> HIDE DEF a
  <2>2. /\ IInv'
        /\ \/ Edges(mem)' = Edges(mem) /\ D!Answers(c, -1) /\ UNCHANGED <<node_name, node_root>>
           \/ UNCHANGED D!vars
    BY <1>1, <1>2, <2>1, ReturnSound DEF a
  <2>3. CASE Edges(mem)' = Edges(mem) /\ D!Answers(c, -1) /\ UNCHANGED <<node_name, node_root>>
    <3>1. D!Destroy(s, d)
      BY <1>1, <1>2, <2>3, FoundEdge DEF D!Destroy, D!Refuses, D!Exists, Exists, Name
    <3> QED
      BY <2>2, <3>1 DEF Sound, D!Next
  <2> QED
    BY <2>2, <2>3 DEF Sound
<1>3. ASSUME NEW l \in LinksTo(mem, s, Name(d)), Return(c, Answer(Destory(mem, s, l), 0))
      PROVE  Sound
  <2> DEFINE a == Answer(Destory(mem, s, l), 0)
  <2>1. a.mem = Destory(mem, s, l) /\ a.ret = 0
    BY DEF Answer
  <2>2. Good(a.mem) /\ Edges(a.mem) = [Edges(mem) EXCEPT ![s] = @ \ {Name(d)}]
    <3>1. /\ Good(Destory(mem, s, l))
          /\ Edges(Destory(mem, s, l)) = [Edges(mem) EXCEPT ![s] = @ \ {Name(d)}]
      BY <1>1, <1>3, DestoryGood
    <3> QED
      BY <2>1, <3>1
  <2> HIDE DEF a
  <2>3. /\ IInv'
        /\ \/ Edges(mem)' = Edges(a.mem) /\ D!Answers(c, 0) /\ UNCHANGED <<node_name, node_root>>
           \/ UNCHANGED D!vars
    BY <1>3, <2>1, <2>2, ReturnSound DEF a
  <2>4. CASE Edges(mem)' = Edges(a.mem) /\ D!Answers(c, 0) /\ UNCHANGED <<node_name, node_root>>
    <3>1. D!Destroy(s, d)
      BY <1>1, <1>3, <2>2, <2>4, FoundEdge
         DEF D!Destroy, D!Becomes, D!Without, D!Exists, Exists, Name
    <3> QED
      BY <2>3, <3>1 DEF Sound, D!Next
  <2> QED
    BY <2>3, <2>4 DEF Sound
<1> QED
  BY <1>2, <1>3 DEF DestoryLink

\* destory_double_link is Digraph's DestroyDouble.
LEMMA DestoryDoubleLinkSound ==
  ASSUME IInv, NEW s \in Nodes, NEW d \in Nodes, DestoryDoubleLink(s, d)
  PROVE  Sound
<1> DEFINE c == <<"destory_double", s, d>>
           E == D!Without(Edges(mem), s, d)
<1>1. Exists(s) /\ Exists(d) /\ Good(mem)
  BY DEF DestoryDoubleLink, IInv
<1>2. ASSUME NEW a, a.ret \in {0, -1}, a.mem.ok => Good(a.mem), Return(c, a),
             \/ Name(d) \notin Edges(mem)[s] /\ a.ret = -1 /\ Edges(a.mem) = Edges(mem)
             \/ /\ Name(d) \in Edges(mem)[s]
                /\ \/ Name(s) \notin E[d] /\ a.ret = -1 /\ Edges(a.mem) = E
                   \/ Name(s) \in E[d] /\ a.ret = 0 /\ Edges(a.mem) = D!Without(E, d, s)
      PROVE  Sound
  <2>1. /\ IInv'
        /\ \/ Edges(mem)' = Edges(a.mem) /\ D!Answers(c, a.ret) /\ UNCHANGED <<node_name, node_root>>
           \/ UNCHANGED D!vars
    BY <1>2, ReturnSound
  <2>2. CASE Edges(mem)' = Edges(a.mem) /\ D!Answers(c, a.ret) /\ UNCHANGED <<node_name, node_root>>
    <3>1. D!DestroyDouble(s, d)
      BY <1>1, <1>2, <2>2
         DEF D!DestroyDouble, D!Becomes, D!Refuses, D!Exists, Exists, Name
    <3> QED
      BY <2>1, <3>1 DEF Sound, D!Next
  <2> QED
    BY <2>1, <2>2 DEF Sound
<1> HIDE DEF E
<1> DEFINE found == LinksTo(mem, s, Name(d))
<1>3. CASE found = {} /\ Return(c, Answer(mem, -1))
  <2> DEFINE a == Answer(mem, -1)
  <2>1. a.mem = mem /\ a.ret = -1 /\ Return(c, a)
    BY <1>3 DEF Answer
  <2> HIDE DEF a, c
  <2>2. Name(d) \notin Edges(mem)[s]
    BY <1>3, FoundEdge
  <2> QED
    BY <1>1, <1>2, <2>1, <2>2
<1>4. ASSUME NEW l \in found,
             LET m == Uproot(mem, s, l)
                 back == LinksTo(m, d, Name(s))
             IN  \/ back = {} /\ Return(c, Answer(m, -1))
                 \/ \E k \in back : Return(c, Answer(Release(Uproot(m, d, k), {l, k}), 0))
      PROVE  Sound
  <2> DEFINE m == Uproot(mem, s, l)
  <2>1. Good(m) /\ Edges(m) = E /\ \A n \in Nodes : m.rbt_links[n] = mem.rbt_links[n] \ {l}
    BY <1>1, <1>4, UprootGood DEF E, D!Without, Name
  <2>2. Name(d) \in Edges(mem)[s]
    BY <1>4, FoundEdge
  <2>3. l \in Links
    BY <1>1, <1>4 DEF Good, Mem, LinksTo
  <2>4. CASE LinksTo(m, d, Name(s)) = {} /\ Return(c, Answer(m, -1))
    <3> DEFINE a == Answer(m, -1)
    <3>1. a.mem = m /\ a.ret = -1 /\ Return(c, a)
      BY <2>4 DEF Answer
    <3> HIDE DEF a, c, m
    <3>2. Name(s) \notin E[d]
      BY <2>1, <2>4, FoundEdge
    <3>3. Good(a.mem) /\ Edges(a.mem) = E
      BY <2>1, <3>1
    <3> QED
      BY <1>2, <2>2, <3>1, <3>2, <3>3
  <2>5. ASSUME NEW k \in LinksTo(m, d, Name(s)),
               Return(c, Answer(Release(Uproot(m, d, k), {l, k}), 0))
        PROVE  Sound
    <3> DEFINE u == Uproot(m, d, k)
               r == Release(u, {l, k})
               a == Answer(r, 0)
    <3> HIDE DEF m
    <3>1. /\ Good(u) /\ Edges(u) = [Edges(m) EXCEPT ![d] = @ \ {Name(s)}]
          /\ \A n \in Nodes : u.rbt_links[n] = m.rbt_links[n] \ {k}
      BY <2>1, <2>5, UprootGood
    <3>2. {l, k} \in SUBSET Links
      BY <2>1, <2>3, <2>5 DEF Good, Mem, LinksTo
    <3>3. \A n \in Nodes : u.rbt_links[n] \cap {l, k} = {}
      BY <2>1, <3>1
    <3> HIDE DEF u
    <3>4. Good(r) /\ Edges(r) = Edges(u)
      BY <3>1, <3>2, <3>3, ReleaseGood
    <3>5. a.mem = r /\ a.ret = 0 /\ Return(c, a)
      BY <2>5 DEF Answer, u
    <3> HIDE DEF a, c, r
    <3>6. Name(s) \in E[d]
      BY <2>1, <2>5, FoundEdge
    <3>7. Good(a.mem) /\ Edges(a.mem) = D!Without(E, d, s)
      BY <2>1, <3>1, <3>4, <3>5 DEF D!Without, Name
    <3> QED
      BY <1>2, <2>2, <3>5, <3>6, <3>7
  <2> QED
    BY <1>4, <2>4, <2>5
<1> QED
  BY <1>3, <1>4 DEF DestoryDoubleLink

\* links_iterate is Digraph's Walk.
LEMMA LinksIterateSound ==
  ASSUME IInv, NEW n \in Nodes, NEW len, LinksIterate(n, len)
  PROVE  Sound
<1> DEFINE q == mem.node_queue[n]
           sound == \A i \in 1..Len(q) : i <= len => q[i] \in mem.heap
           c == <<"iterate", n>>
           a == Answer([mem EXCEPT !.ok = sound], 0)
<1>1. Exists(n) /\ mem.ok /\ mem \in Mem /\ Good(mem) /\ Return(c, a)
  BY DEF LinksIterate, Call, IInv, TypeOK
<1> HIDE DEF sound
<1>2. a.ret = 0 /\ a.mem = [mem EXCEPT !.ok = sound]
  BY DEF Answer
<1>3. ASSUME a.mem.ok PROVE a.mem = mem
  <2>1. sound
    BY <1>1, <1>2, <1>3 DEF Mem
  <2> QED
    BY <1>1, <1>2, <2>1 DEF Mem
<1> HIDE DEF a, c
<1>4. /\ IInv'
      /\ \/ Edges(mem)' = Edges(mem) /\ D!Answers(c, 0) /\ UNCHANGED <<node_name, node_root>>
         \/ UNCHANGED D!vars
  <2>1. a.ret \in {0, -1} /\ (a.mem.ok => Good(a.mem))
    BY <1>1, <1>2, <1>3
  <2>2. /\ IInv'
        /\ \/ a.mem.ok /\ Edges(mem)' = Edges(a.mem) /\ D!Answers(c, a.ret)
              /\ UNCHANGED <<node_name, node_root>>
           \/ UNCHANGED D!vars
    BY <1>1, <2>1, ReturnSound
  <2> QED
    BY <1>2, <1>3, <2>2
<1>5. CASE Edges(mem)' = Edges(mem) /\ D!Answers(c, 0) /\ UNCHANGED <<node_name, node_root>>
  <2>1. D!Walk(n)
    BY <1>1, <1>5 DEF D!Walk, D!Exists, Exists, c
  <2> QED
    BY <1>4, <2>1 DEF Sound, D!Next
<1> QED
  BY <1>4, <1>5 DEF Sound

\* Freeing the nodes of N is Digraph's Discarded, and keeps what is known of
\* the names and the links.
LEMMA FreedSound ==
  ASSUME IInv, NEW N \in SUBSET Nodes, Freed(N)
  PROVE  /\ D!Discarded(N) /\ Good(mem')
         /\ node_name' \in [Nodes -> Names \cup {NoName}]
         /\ \A n \in Nodes \ N : node_name'[n] = node_name[n]
<1>1. Good(mem) /\ mem' = Delete(mem, N)
  BY DEF IInv, Freed
<1>2. Good(mem') /\ Edges(mem') = [n \in Nodes |-> IF n \in N THEN {} ELSE Edges(mem)[n]]
  BY <1>1, DeleteGood
<1> QED
  BY <1>2 DEF IInv, TypeOK, Freed, D!Discarded

\* The nodes of the graph are finitely many.
LEMMA FiniteRoot ==
  ASSUME IInv
  PROVE  IsFiniteSet(node_root) /\ Cardinality(node_root) \in Nat
<1>1. IsFiniteSet(node_root)
  BY ConstantsAssumption, FS_Subset DEF IInv, TypeOK
<1> QED
  BY <1>1, FS_CardinalityType

\* create_node: a node that did not exist is not in the graph.
LEMMA CreateNodeSound ==
  ASSUME IInv, NEW n \in Nodes, NEW x \in Names, CreateNode(n, x)
  PROVE  Sound
<1>1. /\ ~Exists(n) /\ node_name' = [node_name EXCEPT ![n] = x]
      /\ Answers(<<"create", n, x>>, 0) /\ UNCHANGED <<mem, node_root, node_num>>
  BY DEF CreateNode
<1>2. TypeOK'
  BY <1>1 DEF IInv, TypeOK, Answers
<1>3. Members'
  <2>1. n \notin node_root
    BY <1>1 DEF IInv, Members
  <2>2. \A k \in node_root : node_name'[k] = node_name[k]
    BY <1>1, <2>1 DEF IInv, TypeOK
  <2> QED
    BY <1>1, <2>2 DEF IInv, Members, Exists
<1>4. Good(mem')
  BY <1>1 DEF IInv
<1>5. Edges(mem)' = Edges(mem)
  BY <1>1
<1>6. D!Create(n, x)
  BY <1>1, <1>5 DEF D!Create, D!Exists, Exists, D!Answers, Answers
<1> QED
  BY <1>2, <1>3, <1>4, <1>6 DEF Sound, IInv, D!Next

\* delete_node, of a node that is not in the graph.
LEMMA DeleteNodeSound ==
  ASSUME IInv, NEW n \in Nodes, DeleteNode(n)
  PROVE  Sound
<1>1. /\ Exists(n) /\ n \notin node_root /\ Freed({n})
      /\ Answers(<<"delete", n>>, 0) /\ UNCHANGED <<node_root, node_num>>
  BY DEF DeleteNode
<1>2. /\ D!Discarded({n}) /\ Good(mem')
      /\ node_name' \in [Nodes -> Names \cup {NoName}]
      /\ \A k \in Nodes \ {n} : node_name'[k] = node_name[k]
  BY <1>1, FreedSound
<1>3. TypeOK'
  BY <1>1, <1>2 DEF IInv, TypeOK, Answers, Good
<1>4. Members'
  <2>1. \A k \in node_root : node_name'[k] = node_name[k]
    BY <1>1, <1>2 DEF IInv, TypeOK
  <2> QED
    BY <1>1, <2>1 DEF IInv, Members, Exists
<1>5. D!Delete(n)
  BY <1>1, <1>2 DEF D!Delete, D!Exists, Exists, D!Answers, Answers
<1> QED
  BY <1>2, <1>3, <1>4, <1>5 DEF Sound, IInv, D!Next

\* add_node counts the node it puts into the graph.
LEMMA AddNodeSound ==
  ASSUME IInv, NEW n \in Nodes, AddNode(n)
  PROVE  Sound
<1>1. Exists(n) /\ UNCHANGED <<node_name, mem>> /\ Good(mem')
  BY DEF AddNode, IInv
<1>2. Edges(mem)' = Edges(mem)
  BY <1>1
<1>3. CASE /\ NodesNamed(Name(n)) = {}
           /\ node_root' = node_root \cup {n} /\ node_num' = node_num + 1
           /\ Answers(<<"add", n>>, 0)
  <2>1. \A k \in node_root : node_name[k] # node_name[n]
    BY <1>3 DEF NodesNamed, Name
  <2>2. IsFiniteSet(node_root) /\ Cardinality(node_root \cup {n}) = Cardinality(node_root) + 1
    BY <2>1, FiniteRoot, FS_AddElement
  <2>3. TypeOK'
    BY <1>1, <1>3 DEF IInv, TypeOK, Answers
  <2>4. Members'
    BY <1>1, <1>3, <2>1, <2>2 DEF IInv, Members, Exists
  <2>5. D!Add(n)
    BY <1>1, <1>2, <1>3, <2>1 DEF D!Add, D!Exists, Exists, D!Answers, Answers
  <2> QED
    BY <1>1, <2>3, <2>4, <2>5 DEF Sound, IInv, D!Next
<1>4. CASE /\ NodesNamed(Name(n)) # {}
           /\ Answers(<<"add", n>>, -1) /\ UNCHANGED <<node_root, node_num>>
  <2>1. \E k \in node_root : node_name[k] = node_name[n]
    BY <1>4 DEF NodesNamed, Name
  <2>2. TypeOK'
    BY <1>1, <1>4 DEF IInv, TypeOK, Answers
  <2>3. Members'
    BY <1>1, <1>4 DEF IInv, Members, Exists
  <2>4. D!Add(n)
    BY <1>1, <1>2, <1>4, <2>1 DEF D!Add, D!Refuses, D!Exists, Exists, D!Answers, Answers
  <2> QED
    BY <1>1, <2>2, <2>3, <2>4 DEF Sound, IInv, D!Next
<1> QED
  BY <1>3, <1>4 DEF AddNode

\* rm_node counts the node it takes out of the graph, freed or not.
LEMMA RmNodeSound ==
  ASSUME IInv, NEW x \in Names, RmNode(x)
  PROVE  Sound
<1>1. CASE /\ NodesNamed(x) = {} /\ Answers(<<"rm", x>>, -1)
           /\ UNCHANGED <<node_name, mem, node_root, node_num>>
  <2>1. Good(mem') /\ Edges(mem)' = Edges(mem) /\ \A k \in node_root : node_name[k] # x
    BY <1>1 DEF IInv, NodesNamed
  <2>2. TypeOK'
    BY <1>1 DEF IInv, TypeOK, Answers
  <2>3. Members'
    BY <1>1 DEF IInv, Members, Exists
  <2>4. D!Remove(x)
    BY <1>1, <2>1 DEF D!Remove, D!Refuses, D!Answers, Answers
  <2> QED
    BY <2>1, <2>2, <2>3, <2>4 DEF Sound, IInv, D!Next
<1>2. ASSUME NEW n \in NodesNamed(x),
             node_root' = node_root \ {n}, node_num' = node_num - 1,
             Answers(<<"rm", x>>, 0), Freed({n}) \/ UNCHANGED <<node_name, mem>>
      PROVE  Sound
  <2>1. n \in node_root /\ n \in Nodes /\ node_name[n] = x
    BY DEF IInv, TypeOK, NodesNamed
  <2>2. /\ Good(mem') /\ node_name' \in [Nodes -> Names \cup {NoName}]
        /\ \A k \in Nodes \ {n} : node_name'[k] = node_name[k]
        /\ \/ D!Discarded({n})
           \/ Edges(mem)' = Edges(mem) /\ node_name' = node_name
    <3>1. CASE Freed({n})
      BY <2>1, <3>1, FreedSound
    <3>2. CASE UNCHANGED <<node_name, mem>>
      BY <3>2 DEF IInv, TypeOK
    <3> QED
      BY <1>2, <3>1, <3>2
  <2>3. /\ IsFiniteSet(node_root) /\ Cardinality(node_root) \in Nat
        /\ Cardinality(node_root \ {n}) = Cardinality(node_root) - 1
        /\ Cardinality(node_root \ {n}) \in Nat
    BY <2>1, FiniteRoot, FS_RemoveElement, FS_CardinalityType
  <2>4. TypeOK'
    BY <1>2, <2>2, <2>3 DEF IInv, TypeOK, Members, Answers, Good
  <2>5. Members'
    <3>1. \A k \in node_root \ {n} : node_name'[k] = node_name[k]
      BY <2>2 DEF IInv, TypeOK
    <3> QED
      BY <1>2, <2>3, <3>1 DEF IInv, Members, Exists
  <2>6. D!Remove(x)
    BY <1>2, <2>1, <2>2 DEF D!Remove, D!Answers, Answers
  <2> QED
    BY <2>2, <2>4, <2>5, <2>6 DEF Sound, IInv, D!Next
<1> QED
  BY <1>1, <1>2 DEF RmNode

\* free: a graph with no nodes is left.
LEMMA FreeGraphSound ==
  ASSUME IInv, FreeGraph
  PROVE  Sound
<1>1. /\ Freed(node_root) /\ node_root' = {} /\ node_num' = 0
      /\ Answers(<<"free">>, 0) /\ node_root \in SUBSET Nodes
  BY DEF FreeGraph, IInv, TypeOK
<1>2. /\ D!Discarded(node_root) /\ Good(mem')
      /\ node_name' \in [Nodes -> Names \cup {NoName}]
  BY <1>1, FreedSound
<1>3. TypeOK'
  BY <1>1, <1>2 DEF TypeOK, Answers, Good
<1>4. Members'
  BY <1>1, FS_EmptySet DEF Members
<1>5. D!Clear
  BY <1>1, <1>2 DEF D!Clear, D!Answers, Answers
<1> QED
  BY <1>2, <1>3, <1>4, <1>5 DEF Sound, IInv, D!Next

\* Every step is sound, and so is a step that changes nothing.
LEMMA StepSound ==
  ASSUME IInv, [Next]_vars
  PROVE  Sound
<1>1. CASE UNCHANGED vars
  <2>1. UNCHANGED <<node_name, mem, node_root, node_num, call, ret>>
    BY <1>1 DEF vars
  <2>2. IInv'
    BY <2>1 DEF IInv, TypeOK, Members, Exists
  <2>3. UNCHANGED D!vars
    BY <2>1 DEF D!vars
  <2> QED
    BY <2>2, <2>3 DEF Sound
<1>2. ASSUME Next PROVE Sound
  <2>1. ASSUME NEW n \in Nodes, DeleteNode(n) PROVE Sound
    BY <2>1, DeleteNodeSound
  <2>2. ASSUME NEW n \in Nodes, AddNode(n) PROVE Sound
    BY <2>2, AddNodeSound
  <2>3. ASSUME NEW n \in Nodes, NEW x \in Names, CreateNode(n, x) PROVE Sound
    BY <2>3, CreateNodeSound
  <2>4. ASSUME NEW n \in Nodes, NEW len, LinksIterate(n, len) PROVE Sound
    BY <2>4, LinksIterateSound
  <2>5. ASSUME NEW s \in Nodes, NEW d \in Nodes, BuildLink(s, d) PROVE Sound
    BY <2>5, BuildLinkSound
  <2>6. ASSUME NEW s \in Nodes, NEW d \in Nodes, BuildDoubleLink(s, d) PROVE Sound
    BY <2>6, BuildDoubleLinkSound
  <2>7. ASSUME NEW s \in Nodes, NEW d \in Nodes, DestoryLink(s, d) PROVE Sound
    BY <2>7, DestoryLinkSound
  <2>8. ASSUME NEW s \in Nodes, NEW d \in Nodes, DestoryDoubleLink(s, d) PROVE Sound
    BY <2>8, DestoryDoubleLinkSound
  <2>9. ASSUME NEW x \in Names, RmNode(x) PROVE Sound
    BY <2>9, RmNodeSound
  <2> QED
    BY <1>2, <2>1, <2>2, <2>3, <2>4, <2>5, <2>6, <2>7, <2>8, <2>9, FreeGraphSound DEF Next
<1> QED
  BY <1>1, <1>2

\* The empty graph is sound.
LEMMA InitSound == Init => IInv /\ D!Init
<1> SUFFICES ASSUME Init PROVE IInv /\ D!Init
  OBVIOUS
<1>1. mem = [rbt_links |-> [n \in Nodes |-> {}], node_queue |-> [n \in Nodes |-> <<>>],
             link_num |-> [n \in Nodes |-> 0], heap |-> {},
             link_name |-> [l \in Links |-> NoName], ok |-> TRUE]
  BY DEF Init
<1>2. mem \in Mem
  BY <1>1 DEF Mem
<1>3. IsInjective(<<>>) /\ Range(<<>>) = {} /\ Len(<<>>) = 0
  BY DEF IsInjective, Range
<1>4. /\ \A n \in Nodes : /\ mem.rbt_links[n] = {} /\ mem.node_queue[n] = <<>>
                          /\ mem.link_num[n] = 0
  BY <1>1
<1>5. Good(mem)
  BY <1>2, <1>3, <1>4 DEF Good
<1>6. TypeOK
  BY <1>2 DEF Init, TypeOK
<1>7. Members
  BY FS_EmptySet DEF Init, Members
<1>8. Edges(mem) = [n \in Nodes |-> {}]
  BY <1>4 DEF Edges
<1> QED
  BY <1>5, <1>6, <1>7, <1>8 DEF IInv, Init, D!Init

\* The invariant holds in every state.
LEMMA Invariance == Spec => []IInv
<1>1. IInv /\ [Next]_vars => IInv'
  BY StepSound DEF Sound
<1> QED
  BY <1>1, InitSound, PTL DEF Spec

-----------------------------------------------------------------------------
(* The theorems *)

\* Every variable has its type, whatever calls are made.
THEOREM TypeCorrect == Spec => []TypeOK
<1>1. IInv => TypeOK
  BY DEF IInv
<1> QED
  BY <1>1, Invariance, PTL

\* link_num is the length of node_queue, also after calls that fail half way.
THEOREM Counted == Spec => []CountsList
<1>1. IInv => CountsList
  BY DEF IInv, Good, CountsList
<1> QED
  BY <1>1, Invariance, PTL

\* What a tree finds is allocated and in the list of the same node, and no
\* link is twice in the lists.
THEOREM Listed == Spec => []TreesListed
<1>1. IInv => TreesListed
  BY DEF IInv, Good, TreesListed
<1> QED
  BY <1>1, Invariance, PTL

\* A name finds one link of a node and one node of the graph, and node_num
\* counts the nodes.
THEOREM NamesFindOne == Spec => []OneForAName
<1>1. IInv => OneForAName
  BY DEF IInv, Good, Members, OneForAName
<1> QED
  BY <1>1, Invariance, PTL

\* The library is a directed graph with the answers graph.h promises, up to
\* the moment it uses memory it has freed.
THEOREM ImplementsDigraph == Spec => DigraphSpec
<1>1. IInv /\ [Next]_vars => [D!Next]_D!vars
  BY StepSound DEF Sound
<1> QED
  BY <1>1, InitSound, Invariance, PTL DEF Spec, DigraphSpec, D!Spec
=============================================================================
